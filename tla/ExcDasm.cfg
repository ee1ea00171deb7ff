SPECIFICATION Spec
CONSTANTS
    NULL = NULL
    f = f
    g = g
    h = h
    Chains <- SomeChains
    Libraries <- SomeLibraries
    IntSize = 4
    CacheSize = 3
INVARIANTS TypeOK OwnFunction NothingMissed AssertPc FirstFrameShown
CHECK_DEADLOCK FALSE
