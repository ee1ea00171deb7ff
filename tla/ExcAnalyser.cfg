SPECIFICATION Spec
CONSTANTS
    NONE = NONE
    Names <- AllNames
    FuncNames = {{}, {"SignalHandler"}, {"waitpid", "read"}, {"read", "write"}, {"write"}, {"XOS_MulticastMsg"}}
    MaxFrames = 3
    Input <- AllInput
INVARIANTS
    FramesInBounds
    Complete
    DeadlockCause
    Verdict
PROPERTIES
    AnalyseReturns
