SPECIFICATION Spec
CONSTANTS
    Addr = {1, 2, 3, 4, 5, 6}
    NULL = 0
    Pick <- FirstFit
    ListInit = 2
    ListGrow = 1
    MaxBlocks = 2
    MaxApps = 1
    MaxFrames = 2
    MaxStuck = 0
INVARIANTS
    TypeOK
    OneOwner
    Numbering
PROPERTIES
    AppendOnly
