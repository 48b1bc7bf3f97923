\* Three services, one name that is no service; every configuration and request.
CONSTANTS
    Services = {a, b, c}
    Names = {a, b, c, x}
    a = a b = b c = c x = x
SPECIFICATION FairSpec
INVARIANT SortedIsOrder
INVARIANT CycleIsReal
PROPERTY Answers
CHECK_DEADLOCK FALSE
