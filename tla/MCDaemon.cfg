\* Two clients compete for two sessions, which run side by side or reuse a pid;
\* batches are cut off at three events.
SPECIFICATION Spec
CONSTANTS
  Conns = {c1, c2}
  NoConn = NoConn
  Pids = {p1, p2}
  NoPid = NoPid
  MaxSessions = 2
  MaxGroups = 0
  GroupMax = 0
  BatchMax = 3
SYMMETRY Symmetry
INVARIANTS
  AttachmentIsMutual
  NoUseAfterFree
  AliveMeansUnreaped
  OnlyKilledAreSignalled
  HiddenAwaitsReap
  ZombieIsNoticed
