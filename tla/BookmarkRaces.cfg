CONSTANTS
  j1 = j1  j2 = j2
  c1 = c1  c2 = c2  c3 = c3
  None = None
  Jobs = {j1, j2}
  SoonDays = 0
  MaxDay = 1
  Calls = {c1, c2, c3}
  MaxInFlight = 3
SPECIFICATION Spec
CHECK_DEADLOCK FALSE
SYMMETRY Symmetry
INVARIANTS EventsExplainBookmarks NoticesEarned ListTellsAll
