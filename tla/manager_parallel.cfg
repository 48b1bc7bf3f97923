\* two connections, one process service, several executor threads, one crash
SPECIFICATION FairSpec
CONSTANTS
  a = a
  b = b
  d = d
  dt = dt
  r = r
  None = None
  Names = {a}
  Clients = {c1, c2}
  Instances = {i1, i2}
  Monitored = {a}
  Parallel = TRUE
  MaxFailures = 1
  MaxCrashes = 1
  Kind <- MCKind
  DetectMatches <- MCDetectMatches
INVARIANT Accounted
INVARIANT OneOwner
PROPERTY StopTerminates
PROPERTY RequestsAnswered
