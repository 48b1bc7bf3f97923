\* three concurrent requests over one connection that may break or be closed
SPECIFICATION FairSpec
CONSTANTS
  Requests = {q1, q2, q3}
  Close = Close
  Loaded = Loaded
  None = None
INVARIANT NothingLost
PROPERTY ImplementsService
PROPERTY AnsweredWhileOpen
CHECK_DEADLOCK FALSE
