SPECIFICATION Spec
CONSTANTS
    Texts <- StarTexts
    MaxPhases = 8
INVARIANTS
    OneRecordPerException
CHECK_DEADLOCK FALSE
