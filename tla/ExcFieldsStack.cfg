SPECIFICATION Spec
CONSTANTS
    NULL = NULL
    Texts <- SomeTexts
    MaxLines = 2
INVARIANTS
    StackstrOfStack
CHECK_DEADLOCK FALSE
