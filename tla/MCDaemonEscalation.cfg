\* One session, killed, whose child gives up its terminal and lives on.
SPECIFICATION FairSpec
CONSTANTS
  Conns = {c1}
  NoConn = NoConn
  Pids = {p1}
  NoPid = NoPid
  MaxSessions = 1
  MaxGroups = 0
  GroupMax = 0
  BatchMax = 64
PROPERTY KilledChildDies
