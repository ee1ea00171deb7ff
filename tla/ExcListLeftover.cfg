SPECIFICATION Spec
CONSTANTS
    Addr = {1, 2, 3, 4, 5, 6}
    NULL = 0
    Pick <- FirstFit
    ListInit = 2
    ListGrow = 1
    MaxBlocks = 1
    MaxApps = 2
    MaxFrames = 1
    MaxStuck = 1
INVARIANTS
    FilesOfItems
PROPERTIES
    LoadReturns
    ImplementsApi
