SPECIFICATION Spec
CONSTANTS
    Documents <- MCDocuments
    Expressions <- MCExpressions
    Laws <- MCLaws
    Values <- MCValues
INVARIANTS ReadAsMeant Selects Lawful
CHECK_DEADLOCK FALSE
