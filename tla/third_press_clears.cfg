SPECIFICATION Spec
CONSTANTS
    NSeg = 2
    Batch = 1
    MaxStale = 0
    Lossy = FALSE
    SingleTurn = TRUE
    Buttons <- GoOnly
    MaxClicks = 3
    MaxDepth = 3
    QMax = 0
    PollClicks = 0
    TestReads = 1
    LastTick = 3
INVARIANT ThirdPressClears
