SPECIFICATION FairSpec
CONSTANTS
    a = a
    b = b
    c = c
    Path = {a, b, c}
    N = 3
    MaxItems = 2
    MaxForeign <- Locks
    MaxFault <- Faults
    Plan <- NinePlans
INVARIANTS
    ChildFirst
    ListedScope
    ZeroMeansCommitted
    HonestReport
PROPERTIES
    Ends
    LiveLockKept
