\* A client whose frame is refused.
SPECIFICATION FairSpec
CONSTANTS
  HeaderLen = 2
  BodyLen = 1
  MaxFrame = 2
  HugeLen = 3
  InputLen = 2
  Chunk = 2
  SockCap = 1
  MaxWbuf = 2
  PtyCap = 1
  MaxMsgs = 1
  MayFail = FALSE
CHECK_DEADLOCK FALSE
PROPERTY CondemnedIsClosed
