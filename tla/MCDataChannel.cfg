\* Two clients in turn; output outgrows the ring, the socket and MAX_WBUF, and
\* every allocation for one of the two may fail.
SPECIFICATION FairSpec
CONSTANTS
  Conns = {c1, c2}
  NoConn = NoConn
  Frail = {c1}
  RingCap = 1
  MaxWbuf = 2
  SockCap = 1
  Chunk = 2
  MaxOut = 2
INVARIANTS
  StreamIsContinuous
  EofIsComplete
  WaitingIsWatched
PROPERTIES
  OutputArrives
  EofArrives
CHECK_DEADLOCK FALSE
