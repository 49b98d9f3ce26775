SPECIFICATION FairSpec
CONSTANTS
    Threads = {t1}
    Children = {k1, k2, k3}
    Clients = {c1, c2, c3}
    Master = master
    None = none
    StopTries = 2
    Crashes = TRUE
    SendFailures = TRUE
    StartFailures = TRUE
    AcceptErrors = FALSE
    QuietStop = FALSE
INVARIANT InGoodHands
PROPERTY Served
