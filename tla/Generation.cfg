CONSTANTS
  NumImages = 3
  BatchSize = 2
  Launches <- TwoShards
  MaxShards = 2
  MaxLaunches = 2
  MaxFaults = 1
  MostImages = 11
  MostShards = 5
  OrphansPossible = FALSE
SPECIFICATION FairSpec
INVARIANTS
  Partition
  RowsHavePngs
  SoleWriter
  MergeNeverRefused
  MergedIsFresh
PROPERTIES
  ResumeKeepsWhole
  ImplementsContract
  LauncherReturns
  RunCompletes
CHECK_DEADLOCK FALSE
