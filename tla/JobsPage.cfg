CONSTANTS
  f1 = f1  f2 = f2
  m1 = m1  m2 = m2
  j1 = j1  j2 = j2
  t1 = t1  t2 = t2
  Nothing = Nothing
  Filters = {f1, f2}
  MaxPages = 2
  GroupSize = 1
  Months = {m1, m2}
  Postings = {j1, j2}
  Toggles = {t1, t2}
  MaxEvents = 3
SPECIFICATION PageSpec
CHECK_DEADLOCK FALSE
SYMMETRY Symmetry
INVARIANTS ListIsCurrent PageExists HeartsTrue
