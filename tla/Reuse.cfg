SPECIFICATION PolicySpec
CONSTANTS
    None = None
    Samplers = {"jit", "deco", "pixelgen", "pixelgen_exact"}
    NumModules = 3
    Steps = 5
    Batches = 1
    WarmupBatches = 1
    BatchSizes = {1}
    NonTensorModules = {}
    Configs <- WatchedConfigs
    SafeConfigs <- MappedConfigs
    Distances = {0, 1, 2, 3}
INVARIANTS
    ReuseWarranted
    OutputsInStep
PROPERTIES
    RefreshesEarned
    KeepsPromise
