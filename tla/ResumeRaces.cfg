CONSTANTS
  d1 = d1  d2 = d2  d3 = d3
  c1 = c1  c2 = c2  c3 = c3  c4 = c4  c5 = c5
  None = None
  Resumes = {d1, d2, d3}
  SeedResumes = {d1, d2}
  Limit = 2
  Calls = {c1, c2, c3, c4}
  Endpoints <- AllEndpoints
  MaxInFlight = 3
SPECIFICATION Spec
CHECK_DEADLOCK FALSE
SYMMETRY Symmetry
INVARIANTS RowHasObject OrphansExplained WithinLimitApart AtMostOnePrimaryApart
