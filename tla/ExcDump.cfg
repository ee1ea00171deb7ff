SPECIFICATION Spec
CONSTANTS
    NULL = NULL
    Loads <- SomeLoads
INVARIANTS
    Tiled
    NamedByItsSymbol
    OwnSymbols
CHECK_DEADLOCK FALSE
