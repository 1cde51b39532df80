SPECIFICATION Spec
CHECK_DEADLOCK FALSE
CONSTANTS
    Files = {"R1", "R2"}
    NoName = ""
    Row = {"header", "a", "b", "c", "blank", "edited"}
    BlankRow = "blank"
    Tables <- TwoTables
    Edits = {"edited"}
    Calls <- AllCalls
    Careless = FALSE
    Installed = TRUE
    MayFail = FALSE
    MaxRow = 3
    MaxOpens = 2
    MaxCalls = 8
INVARIANTS NoDeadObjectUsed ExcelQuits
PROPERTIES ClosedReportIsOnDisk ReadsReport
