CONSTANTS
  r1 = r1  r2 = r2
  c1 = c1  c2 = c2
  s1 = s1  s2 = s2
  None = None
  Repos = {r1, r2}
  Connected = {r1}
  Issues = {1, 2, 3}
  RepoOf <- OfFirst
  SeedIssues = {1, 2}
  SeedItems = {2}
  PageSize = 1
  Calls = {c1, c2}
  MaxInFlight = 2
  MaxChanges = 1
  Studies = {}
  Similarities <- NoneAlike
SPECIFICATION FairSpec
CHECK_DEADLOCK FALSE
INVARIANTS SyncedAll CrashNeedsDisconnect ClosedStaysApart
PROPERTIES JobsEnd
