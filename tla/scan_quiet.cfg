SPECIFICATION Spec
CONSTANTS
    NSeg = 2
    Batch = 2
    MaxStale = 0
    Lossy = FALSE
    SingleTurn = TRUE
    Buttons <- AllButtons
    MaxClicks = 2
    MaxDepth = 2
    QMax = 1
    PollClicks = 0
    TestReads = 2
    LastTick = 3
INVARIANT TypeOK
INVARIANT WaveformsGenuine
INVARIANT ScanFollowsSensor
INVARIANT StatusGenuine
INVARIANT PulsesReleased
INVARIANT PointsInSequence
INVARIANT WavesEndTogether
PROPERTY RecorderSpec
