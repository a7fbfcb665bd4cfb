\* Daemons that start, stop, fail and are killed at any time.
SPECIFICATION StartFairSpec
CONSTANTS
  Daemons = {d1, d2, d3}
  Clients = {c1, c2}
  NoFile = NoFile
  MaxPolls = 2
CHECK_DEADLOCK FALSE
INVARIANTS
  OneReachableDaemon
  NoLitter
PROPERTY StartLeadsToService
