\* Two sessions, one possibly dead, moving between two groups.
SPECIFICATION Spec
CONSTANTS
  Conns = {c1}
  NoConn = NoConn
  Pids = {p1}
  NoPid = NoPid
  MaxSessions = 2
  MaxGroups = 2
  GroupMax = 2
  BatchMax = 64
INVARIANT MembershipIsBacked
PROPERTIES
  GroupLifetime
  ImplementsStore
