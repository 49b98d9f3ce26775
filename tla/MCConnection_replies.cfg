SPECIFICATION FairSpec
CONSTANTS
    OtherWords = {"GET", "HEAD", "name"}
    UINT_MAX = 7
    Messages <- ReplyMessages
    Outcomes <- AllOutcomes
    MaxMessages = 2
    BufferSize = 4096
    HasTemplateProcessor = TRUE
INVARIANT FramedReplies
INVARIANT NoStaleStream
PROPERTY Answered
