SPECIFICATION WorkspaceSpec
CONSTANTS
  b = b
  r1 = r1
  r2 = r2
  r3 = r3
  q1 = q1
  q2 = q2
  u1 = u1
  u2 = u2
  s1 = s1
  l1 = l1
  User = {u1, u2}
  Org = {q1, q2}
  Invite = {l1}
  Caller = {q1, q2}
  Base <- OneBase
  Plain = Plain
  Repo = {r1, r2, r3}
  Connect = {q1, q2}
  MaxRepos = 1
  MaxLosses = 1
  Source = {s1}
  Sha = {u1, u2}
  AuthorOf <- Own
  NoSha = NoSha
  MaxMishaps = 2
  Email = {b}
  Login = {l1, s1}
  NoIdent = NoIdent
  Datum <- Data
  Similar <- LocalPart
  Generic = {l1}
  Person = {r1, r2, r3}
  Detection = {q1, q2}
  MaxEdits = 1
  Nobody = Nobody
  Site = {s1}
  NoSite = NoSite
  Worker = {q1, q2}
  Row = {r1, r2, r3}
  Label = {l1}
  Instant = {1, 2}
CONSTRAINTS OneSide FewRows FewReports
SYMMETRY Alikes
CHECK_DEADLOCK FALSE
INVARIANTS OwnWorkspace
