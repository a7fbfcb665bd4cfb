\* One client that disconnects with output still buffered for it.
SPECIFICATION FairSpec
CONSTANTS
  Conns = {c1}
  NoConn = NoConn
  Frail = {}
  RingCap = 1
  MaxWbuf = 2
  SockCap = 1
  Chunk = 1
  MaxOut = 3
PROPERTY DisconnectDetaches
CHECK_DEADLOCK FALSE
