SPECIFICATION Spec
CONSTANTS
    NSeg = 2
    Batch = 1
    MaxStale = 1
    Lossy = FALSE
    SingleTurn = TRUE
    Buttons <- GoAndSetting
    MaxClicks = 2
    MaxDepth = 2
    QMax = 1
    PollClicks = 2
    TestReads = 2
    LastTick = 3
INVARIANT FieldIsStatus
