SPECIFICATION Spec
CONSTANTS
  user = user
  other = other
  agent = agent
  m1 = m1
  m2 = m2
  r1 = r1
  c1 = c1
  p1 = p1
  Members = {user, other, agent}
  Messages = {m1, m2}
  Reads = {r1}
  Recalls = {c1}
  Patches = {p1}
  Silent = {m2}
  Child = {}
  Hiders = {user}
  Faulty = {p1}
  MaxAttempts = 2
  NoRequest = NoRequest
  Sender <- SentByAgent
  Reader <- ReadByUser
  Recalled <- RecallsSecond
  Patched <- PatchesSecond
INVARIANTS CountIsExact
CHECK_DEADLOCK FALSE
