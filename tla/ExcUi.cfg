SPECIFICATION Spec
CONSTANTS
    NULL = NULL
    Addr <- SomeAddr
    Pick <- Ends
    Path = {"sum", "base1", "parse1", "stack1"}
    exc_orig = "orig"
    Lists <- SomeLists
    MaxItem = 3
    MaxTexts = 3
INVARIANTS
    TypeOK
    IndexesLeadBack
    ViewValid
    TreeShowsList
    EditorsCurrent
PROPERTIES
    CallsAsPromised
CHECK_DEADLOCK FALSE
