\* Three panes in up to three tabs and two windows.
SPECIFICATION Spec
CONSTANTS
  Panes = {t1, t2, t3}
  NoPane = NoPane
  Pages = {p1, p2, p3}
  NoPage = NoPage
  Windows = {w1, w2}
  NoWindow = NoWindow
  MaxOdd = 2
SYMMETRY Symmetry
INVARIANTS
  TreeIsWhole
  ShownIsCurrent
PROPERTIES
  NothingIsLost
