CONSTANTS
  NumImages = 3
  BatchSize = 2
  Launches <- Redealt
  MaxShards = 2
  MaxLaunches = 2
  MaxFaults = 1
  MostImages = 0
  MostShards = 1
  OrphansPossible = TRUE
SPECIFICATION Spec
INVARIANTS
  MergedIsExact
CHECK_DEADLOCK FALSE
