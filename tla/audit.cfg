CONSTANTS
    Process = {p1, p2}
    Repo = {r1}
    MaxHead = 2
    MaxEvents = 3
    MaxFaults = 1
    MaxCrashes = 1
    MaxDamage = 1
SPECIFICATION Spec
INVARIANTS VerifiedTellsAll VerifiedIsDurable FinalIsVerified EndIsExplained
SYMMETRY Symmetry
CHECK_DEADLOCK FALSE
