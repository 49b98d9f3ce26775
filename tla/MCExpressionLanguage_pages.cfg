SPECIFICATION Spec
CONSTANTS
    Expressions <- MCExpressions
    Assignments <- MCAssignments
    Objects <- MCObjects
    Names <- MCNames
    Substitutions <- MCSubstitutions
    Links <- MCLinks
    SelectorParts <- MCSelectorParts
    Site <- MCSite
    MaxDepth = 2
INVARIANTS ValueAsMeant ScopesAsCopies PiecesKept
CHECK_DEADLOCK FALSE
