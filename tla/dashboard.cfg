SPECIFICATION DashboardFairSpec
CHECK_DEADLOCK FALSE
CONSTANTS
    r1 = r1
    r2 = r2
    Repos = {r1, r2}
    Commits <- Lengths
    Dirty = {r2}
    Inventories <- Lists
    PageSize = 2
    MaxGeneration = 3
    MaxKeys = 5
    MaxFault = 1
    MaxForeign = 1
INVARIANTS
    HistoryIsAnchored
PROPERTIES
    ResultsDoNotMoveTheUser
    NothingHangs
