CONSTANTS
  NumImages = 2
  BatchSize = 1
  Launches <- TwoShards
  MaxShards = 2
  MaxLaunches = 2
  MaxFaults = 1
  MostImages = 0
  MostShards = 1
  OrphansPossible = FALSE
SPECIFICATION Spec
INVARIANTS
  PublishedIsWhole
CHECK_DEADLOCK FALSE
