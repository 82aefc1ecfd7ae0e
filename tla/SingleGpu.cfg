CONSTANTS
  NumImages = 2
  BatchSize = 1
  Launches <- OneGpu
  MaxShards = 2
  MaxLaunches = 1
  MaxFaults = 0
  MostImages = 0
  MostShards = 1
  OrphansPossible = FALSE
SPECIFICATION Spec
INVARIANTS
  MergeNeverRefused
CHECK_DEADLOCK FALSE
