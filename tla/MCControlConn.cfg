\* Up to two messages, cut into reads of up to four bytes; memory may fail.
SPECIFICATION FairSpec
CONSTANTS
  HeaderLen = 2
  BodyLen = 1
  MaxFrame = 2
  HugeLen = 3
  InputLen = 2
  Chunk = 4
  SockCap = 1
  MaxWbuf = 1
  PtyCap = 1
  MaxMsgs = 2
  MayFail = TRUE
CHECK_DEADLOCK FALSE
INVARIANTS
  FramesInOrder
  RepliesMatchRequests
  InputIsConserved
PROPERTIES
  RequestsAreAnswered
  InputArrives
