SPECIFICATION Spec
CONSTANTS
    NSeg = 2
    Batch = 1
    MaxStale = 0
    Lossy = FALSE
    SingleTurn = TRUE
    Buttons <- GoOnly
    MaxClicks = 2
    MaxDepth = 1
    QMax = 0
    PollClicks = 0
    TestReads = 2
    LastTick = 3
PROPERTY SecondPressStopsCollecting
