SPECIFICATION PolicySpec
CONSTANTS
    None = None
    Samplers = {"jit"}
    NumModules = 2
    Steps = 7
    Batches = 2
    WarmupBatches = 1
    BatchSizes = {1}
    NonTensorModules = {}
    Configs <- SpeCaConfigs
    SeerConfigs <- MCSeerConfigs
    Errors = {0, 2, 4}
INVARIANTS
    HistoriesInStep
    PointsSound
    SameStepsForecast
    DecisionsSettled
    ForecastsEarned
    StepsAccounted
PROPERTIES
    KeepsPromise
