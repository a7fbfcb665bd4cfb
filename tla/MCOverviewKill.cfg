\* Split a tab, close one pane, kill what is in this window.
SPECIFICATION Spec
CONSTANTS
  Pages = {p1, p2}
  Windows = {w1, w2}
  NoWindow = NoWindow
  MaxSession = 3
  MaxGroup = 2
  MaxInst = 1
  MaxTotal = 3
  MaxFaults = 0
SYMMETRY Symmetry
PROPERTIES
  WindowKillSparesDetached
CHECK_DEADLOCK FALSE
