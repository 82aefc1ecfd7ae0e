CONSTANTS
  NumImages = 2
  Layout <- TwoAndOne
  None = "none"
  Launches <- SomeLaunch
  MaxShards = 2
  MaxLaunches = 3
  MaxFaults = 1
SPECIFICATION FairSpec
INVARIANTS
  MarkedIsOfTheRun
  MergeNeverRefused
  CompleteIsWhole
  NothingLeftBehind
PROPERTIES
  ImplementsContract
  ResumeCompletes
CHECK_DEADLOCK FALSE
