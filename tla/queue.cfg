SPECIFICATION FairSpec
CONSTANTS
    ItemId = {a1, a2}
    Intent <- Overlapping
    Commit <- Commits
    ReceiptCap = 1
    Proc = {p1, p2}
    Worktree = {w1, w2}
    Path = {"f", "g"}
    MaxCommit = 1
    MaxAdmission = 2
    MaxFault = 1
    MaxLine = 3
INVARIANTS
    Ledger
    ConflictFree
PROPERTIES
    Implements
    LockReleased
CHECK_DEADLOCK FALSE
