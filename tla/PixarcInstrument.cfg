SPECIFICATION Spec
CONSTANTS
  Configs <- SomeConfigs
  None = None
  MaxMisses = 1
INVARIANTS
  NothingRaises
  CandidatesSound
  TrajectoryFresh
  BlocksOnlyMeasured
