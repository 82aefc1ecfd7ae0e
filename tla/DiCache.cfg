SPECIFICATION Spec
CONSTANTS
    Steps = 5
    Batches = 2
    WarmupBatches = 1
    ProbeDepth = 1
    TotalBlocks = 3
    Errors = {0, 1}
    Residuals = {0, 1}
    Configs <- AllConfigs
INVARIANTS
    IInv
    ReuseEarned
    StatsOfFormalRun
