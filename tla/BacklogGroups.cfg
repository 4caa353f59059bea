CONSTANTS
  r1 = r1  r2 = r2
  c1 = c1  c2 = c2
  s1 = s1  s2 = s2
  None = None
  Repos = {r1}
  Connected = {r1}
  Issues = {1, 2, 3}
  RepoOf <- OfFirst
  SeedIssues = {1, 2, 3}
  SeedItems = {1, 2}
  PageSize = 1
  Calls = {c1}
  MaxInFlight = 2
  MaxChanges = 0
  Studies = {s1, s2}
  Similarities <- AnyAlike
SPECIFICATION Spec
CHECK_DEADLOCK FALSE
INVARIANTS GroupsAreClasses OneGroupApart
