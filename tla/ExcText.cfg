SPECIFICATION Spec
CONSTANTS
    Texts <- ShortTexts
    MaxPhases = 5
INVARIANTS
    RecordsAsWritten
    SectionsApart
PROPERTIES
    ParseEnds
CHECK_DEADLOCK FALSE
