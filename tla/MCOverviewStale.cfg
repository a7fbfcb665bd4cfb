\* Two daemons, one tab: save, another daemon, a crash between the two files.
SPECIFICATION Spec
CONSTANTS
  Pages = {p1}
  Windows = {w1}
  NoWindow = NoWindow
  MaxSession = 2
  MaxGroup = 2
  MaxInst = 2
  MaxTotal = 3
  MaxFaults = 1
PROPERTIES
  StaleIdsAreRefused
CHECK_DEADLOCK FALSE
