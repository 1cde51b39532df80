SPECIFICATION FairSpec
CONSTANTS
    NSeg = 2
    Batch = 1
    MaxStale = 0
    Lossy = FALSE
    SingleTurn = TRUE
    Buttons <- FairButtons
    MaxClicks = 3
    MaxDepth = 1
    QMax = 0
    PollClicks = 0
    TestReads = 1
    LastTick = 3
INVARIANT ClearedChartStaysBlank
PROPERTY ScanEnds
PROPERTY SlotsReturn
