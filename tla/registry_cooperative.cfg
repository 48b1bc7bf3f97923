\* a caller, a reliable and an unreliable connection on one executor thread
SPECIFICATION Spec
CONSTANTS
  Names = {n1}
  Callers = {t1}
  Conns = {c1, c2}
  EventTypes = {"ServiceStateChanged"}
  None = None
  Parallel = FALSE
  Unreliable = {c2}
SYMMETRY Symmetry
INVARIANT ReadsAreCurrent
INVARIANT AnsweredIsDurable
INVARIANT SubscribersAreLocal
PROPERTY StatesFollowTransitions
