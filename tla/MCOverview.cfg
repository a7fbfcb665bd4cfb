SPECIFICATION Spec
CONSTANTS
  Pages = {p1, p2}
  Windows = {w1, w2}
  NoWindow = NoWindow
  MaxSession = 2
  MaxGroup = 2
  MaxInst = 2
  MaxTotal = 3
  MaxFaults = 1
SYMMETRY Symmetry
INVARIANTS
  SyncIsComplete
  OverviewIsTrue
PROPERTIES
  RestartRestores
CHECK_DEADLOCK FALSE
