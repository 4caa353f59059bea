CONSTANTS
  s1 = s1  f1 = f1  g1 = g1
  c1 = c1  c2 = c2  c3 = c3 
  None = None
  Assets = {s1, f1, g1}
  Local = {f1, g1}
  Purposes <- Places
  PurposeOf <- Purpose
  Calls = {c1, c2, c3}
  MaxInFlight = 3
SPECIFICATION Spec
CHECK_DEADLOCK FALSE
SYMMETRY Symmetry
INVARIANTS ShownHasObject OrphansWrittenLate
