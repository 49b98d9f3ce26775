SPECIFICATION FairSpec
CONSTANTS
    Procs = {p1, p2}
    Admins = {a1, a2}
    None = none
    MaxRestarts = 2
    MaxCrashes = 2
CHECK_DEADLOCK FALSE
INVARIANT StatusTruthful
INVARIANT OneDaemon
INVARIANT LaunchBound
INVARIANT BindSucceeds
PROPERTY StopEnds
