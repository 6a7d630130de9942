SPECIFICATION Spec
CONSTANTS
  user = user
  other = other
  agent = agent
  m1 = m1
  m2 = m2
  r1 = r1
  c1 = c1
  p1 = p1
  Members = {user, other, agent}
  Messages = {m1, m2}
  Reads = {r1}
  Recalls = {}
  Patches = {}
  Silent = {}
  Child = {}
  Hiders = {}
  Faulty = {}
  MaxAttempts = 2
  NoRequest = NoRequest
  Sender <- SentByAgent
  Reader <- ReadByUser
  Recalled <- RecallsSecond
  Patched <- PatchesSecond
INVARIANT CountAligned
CHECK_DEADLOCK FALSE
