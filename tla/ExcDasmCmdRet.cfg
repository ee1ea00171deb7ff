SPECIFICATION Spec
CONSTANTS
    NULL = NULL
    Loads <- SomeLoads
    Strings <- SomeStrings
    strstr <- Parts
    strtoull <- Number
INVARIANTS
    ZeroMeansDone
CHECK_DEADLOCK FALSE
