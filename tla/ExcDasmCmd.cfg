SPECIFICATION Spec
CONSTANTS
    NULL = NULL
    Loads <- SomeLoads
    Strings <- SomeStrings
    strstr <- Parts
    strtoull <- Number
INVARIANTS
    RightAddresses
    FunctionOfAddress
    ListOfFunctions
    DialogChecks
PROPERTIES
    CommandEnds
CHECK_DEADLOCK FALSE
