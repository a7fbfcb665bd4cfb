\* An allocation fails while a client attaches.
SPECIFICATION Spec
CONSTANTS
  Conns = {c1}
  NoConn = NoConn
  Frail = {c1}
  RingCap = 1
  MaxWbuf = 2
  SockCap = 1
  Chunk = 2
  MaxOut = 2
INVARIANTS
  ReplayComesFirst
CHECK_DEADLOCK FALSE
