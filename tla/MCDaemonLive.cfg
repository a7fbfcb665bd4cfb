\* Two sessions one after the other, killed or exiting by themselves.
SPECIFICATION FairSpec
CONSTANTS
  Conns = {c1}
  NoConn = NoConn
  Pids = {p1}
  NoPid = NoPid
  MaxSessions = 2
  MaxGroups = 0
  GroupMax = 0
  BatchMax = 64
PROPERTIES
  KilledSessionGoes
  ZombieIsReaped
