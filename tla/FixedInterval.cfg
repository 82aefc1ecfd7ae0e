SPECIFICATION Spec
CONSTANTS
    None = None
    Samplers = {"jit", "deco", "pixelgen", "pixelgen_exact"}
    NumModules = 3
    Steps = 7
    Batches = 2
    WarmupBatches = 1
    BatchSizes = {1, 2}
    NonTensorModules = {3}
    Configs <- AllConfigs
INVARIANTS
    IInv
    MatchesSchedule
PROPERTY
    ImplementsContract
