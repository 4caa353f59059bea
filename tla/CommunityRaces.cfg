CONSTANTS
  u1 = u1  u2 = u2  m1 = m1  p1 = p1  p2 = p2  a1 = a1  a2 = a2  a3 = a3
  c1 = c1  c2 = c2  c3 = c3  c4 = c4
  None = None
  Users = {u1, u2}
  Admins = {m1}
  Posts = {p1, p2}
  SeedPosts = {p1}
  Answers = {a1, a2, a3}
  SeedAnswers = {a1, a2}
  Calls = {c1, c2, c3}
  Endpoints <- AllEndpoints
  MaxInFlight = 3
SPECIFICATION Spec
CHECK_DEADLOCK FALSE
SYMMETRY Symmetry
INVARIANTS AcceptedIsShown OneAcceptedUnlessLate CountersExact TraineeBoardGuarded
