\* Capacities 2, 4, 7: two doublings, the second cut off by the ceiling.
SPECIFICATION Spec
CONSTANTS
  MaxCap = 7
  InitCap = 2
  MaxWrites = 20
INVARIANTS
  HoldsTheTail
  SnapshotsAreTheTail
  LosesNothingEarly
PROPERTY NeverShrinks
CHECK_DEADLOCK FALSE
