SPECIFICATION Spec
CHECK_DEADLOCK FALSE
CONSTANTS
    Values <- Boundaries
    Stray = {0, 53}
INVARIANTS
    EveryFrameChecks
    ApplyWritesValue
    ReadsBack
