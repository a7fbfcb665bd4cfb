\* One client that stays connected and does not read.
SPECIFICATION Spec
CONSTANTS
  Conns = {c1}
  NoConn = NoConn
  Frail = {}
  RingCap = 1
  MaxWbuf = 2
  SockCap = 1
  Chunk = 1
  MaxOut = 6
INVARIANT BacklogIsBounded
CHECK_DEADLOCK FALSE
