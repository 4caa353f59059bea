CONSTANTS
  c1 = c1  c2 = c2  u1 = u1  j1 = j1  j2 = j2  j3 = j3
  s1 = s1  s2 = s2  s3 = s3  r1 = r1  r2 = r2  r3 = r3  p1 = p1  p2 = p2  t1 = t1  t2 = t2
  None = None
  Companies = {c1}
  Users = {u1}
  Jobs = {j1, j2}
  SeedJobs = {j1}
  Submissions = {s1}
  SeedSubmissions = {}
  Requests = {r1, r2, r3}
  Payloads = {p1, p2}
  Deadline <- MCDeadline
  DueSoon <- MCDueSoon
  Times = {t1, t2}
  Bookmarkers <- MCBookmarkers
  TagAudience <- MCTagAudience
  Endpoints <- JobEndpoints
  MaxInFlight = 3
SPECIFICATION Spec
CHECK_DEADLOCK FALSE
SYMMETRY Symmetry
INVARIANTS NoticesTruthful StatusNotesExact SettledJobAnnounced
