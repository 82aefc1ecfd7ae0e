SPECIFICATION Spec
CONSTANTS
    None = None
    Launches <- MCLaunches
    Batches = 2
    Outcomes <- MCOutcomes
INVARIANTS
    OptionsHonoured
    MergedAsOne
PROPERTIES
    LaunchEnds
CHECK_DEADLOCK FALSE
