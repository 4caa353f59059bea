CONSTANTS
  d1 = d1  d2 = d2  d3 = d3
  p0 = p0  p1 = p1  p2 = p2  p3 = p3
  None = None
  Deploys = {d1, d2}
  Procs = {p0, p1, p2}
  FirstProc = p0
  Inheriting = {p1, p2}
  MaxHead = 2
SPECIFICATION FairSpec
CHECK_DEADLOCK FALSE
INVARIANTS OneDeployment SchemaCoversCode OkIncludesRequested
PROPERTIES LockReleased TakesEffect
