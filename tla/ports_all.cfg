SPECIFICATION Spec
CHECK_DEADLOCK FALSE
CONSTANTS
    Ports = {"COM1", "COM2"}
    NoPort = ""
    NHandles = 4
    MayFail = TRUE
    Buttons <- AllButtons
    MaxClicks = 6
INVARIANTS
    PollingIsServed
    NoCrashAfterStart
    NoHandleLost
    PlcHandleKept
    PlcFlagTrue
    WorkerKeepsOffPlc
