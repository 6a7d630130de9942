SPECIFICATION Spec
CONSTANTS
  c1 = c1
  c2 = c2
  e1 = e1
  e2 = e2
  Conns = {c1, c2}
  Events = {e1, e2}
  Empty = Empty
  bufferSize = 2
  sendSize = 1
  MaxRestarts = 1
SYMMETRY Symmetry
INVARIANTS ListedReceive
PROPERTIES IsReplayLog
CHECK_DEADLOCK FALSE
