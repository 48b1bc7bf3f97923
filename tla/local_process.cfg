\* One process and its caller: pipes of two lines, two lines of input, two followers.
SPECIFICATION FairSpec
CONSTANTS
    Programs <- MCPrograms
    Capacity = 2
    MaxInput = 2
    Readers = {r1, r2}
INVARIANTS OutputIsComplete InputIsComplete
PROPERTIES Returns DroppedEnds
CHECK_DEADLOCK FALSE
