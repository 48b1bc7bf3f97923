\* two connections, a process service and two docker services that detection confuses,
\* one executor thread
SPECIFICATION Spec
CONSTANTS
  a = a
  b = b
  d = d
  dt = dt
  r = r
  None = None
  Names = {a, d, dt, r}
  Clients = {c1, c2}
  Instances = {i1, i2}
  Monitored = {a}
  Parallel = FALSE
  MaxFailures = 1
  MaxCrashes = 0
  Kind <- MCKind
  DetectMatches <- MCDetectMatches
SYMMETRY Symmetry
INVARIANT ProcessesKept
INVARIANT MonitorsFollowActive
