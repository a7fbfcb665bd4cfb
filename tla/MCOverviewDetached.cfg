\* Two tabs; the list of the sessions fails when the detached ones are killed.
SPECIFICATION Spec
CONSTANTS
  Pages = {p1, p2}
  Windows = {w1, w2}
  NoWindow = NoWindow
  MaxSession = 2
  MaxGroup = 2
  MaxInst = 1
  MaxTotal = 2
  MaxFaults = 0
SYMMETRY Symmetry
PROPERTIES
  DetachedKillSparesTabs
CHECK_DEADLOCK FALSE
