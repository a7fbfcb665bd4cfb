\* One pane, two ticks of each delay.
SPECIFICATION Spec
CONSTANTS
  Room = 1
  MaxQueued = 2
  Quiet = 1
  MaxMuted = 2
  Debounce = 1
  Sizes = {1, 3}
  FullSize = 2
INVARIANTS
  NothingIsStuck
  KillsOnlyTheDead
  BellReturns
