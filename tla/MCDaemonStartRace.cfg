\* Two daemons, without any assumption on when they start.
SPECIFICATION StartSpec
CONSTANTS
  Daemons = {d1, d2}
  Clients = {c1}
  NoFile = NoFile
  MaxPolls = 1
CHECK_DEADLOCK FALSE
INVARIANT SingleInstance
