SPECIFICATION Spec
CONSTANTS
    NULL = NULL
    Texts <- SomeTexts
    MaxLines = 2
INVARIANTS
    FieldSource
    StackOfItsSection
    ShownSp
    CountsOfArrays
    LastArrays
    BuffersReleased
CHECK_DEADLOCK FALSE
