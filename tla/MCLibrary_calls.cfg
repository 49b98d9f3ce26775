SPECIFICATION LibrarySpec
CONSTANTS
    BlockSize = 4
    LengthBytes = 2
    DigestSize = 3
    Chunks <- MCChunks
    MaxFed = 9
    MaxFinals = 2
    Data <- MCData
    Widths <- MCWidths
    Queries <- MCQueries
    Names <- MCNames
    Cookies <- MCCookies
    Forms <- MCForms
    Patterns <- MCPatterns
    Paths <- MCPaths
    Values <- MCValues
    Pages <- MCPages
    Globals <- MCGlobals
    Shared <- MCShared
    CsrfToken <- MCToken
INVARIANTS
    Collected
    Padded
    EncodingsInvert
    RequestRead
    GlobAgrees
    ValuesKept
    PageAsMeant
CHECK_DEADLOCK FALSE
