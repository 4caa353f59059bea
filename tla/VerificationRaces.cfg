CONSTANTS
  u1 = u1  u2 = u2  q1 = q1  q2 = q2  q3 = q3
  c1 = c1  c2 = c2  c3 = c3  c4 = c4  c5 = c5  c6 = c6
  None = None
  Unplaced = "CPA_UNPLACED"
  Stages = {"CPA_UNPLACED", "TRAINEE"}
  Users = {u1, u2}
  SeedMembers = {u2}
  Requests = {q1, q2, q3}
  Calls = {c1, c2, c3, c4, c5}
  MaxInFlight = 3
SPECIFICATION Spec
CHECK_DEADLOCK FALSE
SYMMETRY Symmetry
INVARIANTS MembershipBacked PendingHasRequest
PROPERTIES ImplementsMembership
