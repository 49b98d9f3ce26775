SPECIFICATION Spec
CONSTANTS
    OtherWords = {"GET", "HEAD", "name"}
    UINT_MAX = 7
    Messages <- InputMessages
    Outcomes <- ContentOutcomes
    MaxMessages = 2
    BufferSize = 64
    HasTemplateProcessor = FALSE
INVARIANT TypeOK
INVARIANT ParserIsSafe
INVARIANT Delivered
INVARIANT KeptAlive
