SPECIFICATION FairSpec
CONSTANTS
    Threads = {t1, t2}
    Children = {k1, k2}
    Clients = {c1, c2}
    Master = master
    None = none
    StopTries = 2
    Crashes = TRUE
    SendFailures = FALSE
    StartFailures = TRUE
    AcceptErrors = TRUE
    QuietStop = TRUE
INVARIANT TypeOK
INVARIANT CleanShutdown
INVARIANT OnePlace
PROPERTY StopReturns
