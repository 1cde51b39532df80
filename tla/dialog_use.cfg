SPECIFICATION Spec
CHECK_DEADLOCK FALSE
CONSTANTS
    Prompt = TRUE
    LastPhase = 3
    Buttons <- DialogButtons
    MaxPresses = 4
    MaxDepth = 3
INVARIANTS
    TypeOK
    ParametersNotMixed
    ParametersGenuine
    FieldsFilled
    AckIsWhole
    ApplyTakesEffect
