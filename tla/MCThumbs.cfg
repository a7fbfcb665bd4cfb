\* Two cards, three rebuilds, one event.
SPECIFICATION Spec
CONSTANTS
  tab = tab
  orphan = orphan
  s1 = s1
  s2 = s2
  s3 = s3
  Grid <- MCGrid
  Orphans <- MCOrphans
  Blobs <- MCBlobs
  GridOf <- MCGridOf
  Views <- MCViews
  MaxAttempts = 1
  MaxBuilds = 3
  MaxEvents = 1
INVARIANTS
  PipelineIsWhole
  SkipIsCurrent
PROPERTIES
  EachIsServed
