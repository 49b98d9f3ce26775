SPECIFICATION Spec
CONSTANTS
    Elements = {d, e}
    Content <- Contents
    NIL = NIL
    Nodes = {n1, n2, n3, n4}
    MaxChars = 2
INVARIANT WellLinked
PROPERTY ImplementsSequence
SYMMETRY Interchange
