SPECIFICATION Spec
CHECK_DEADLOCK FALSE
CONSTANTS
    Programs <- OneOrTwo
    Tables <- Cell
    Bytes = {0, 16, 23, 254}
    MaxFaults = 1
INVARIANTS
    ReceiveBounded
    LegalCallsServed
    ValuesWereSent
PROPERTY
    CallsReturn
