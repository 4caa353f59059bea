CONSTANTS
  d1 = d1  d2 = d2
  c1 = c1  c2 = c2
  j1 = j1
  f1 = f1  f2 = f2  f3 = f3
  None = None
  Resumes = {d1, d2}
  SeedResumes = {d1}
  Limit = 2
  Calls = {c1, c2}
  Endpoints <- ResumeEndpoints
  MaxInFlight = 2
  Jobs = {j1}
  FitCalls = {f1, f2, f3}
  FitMaxInFlight = 2
SPECIFICATION FitSpec
CHECK_DEADLOCK FALSE
SYMMETRY Symmetry
INVARIANTS SawTheResume PaidAccounted
