SPECIFICATION Spec
CONSTANTS
    None = None
    Launches <- ZeroOrder
    Batches = 2
    Outcomes <- MCOutcomes
INVARIANTS
    OptionsHonoured
CHECK_DEADLOCK FALSE
