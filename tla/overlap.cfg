SPECIFICATION Spec
CONSTANTS
    Path = {"a", "b"}
    Selected = {"a"}
    Hunk = {1, 2}
    Start <- Starts
    MaxForeign = 1
    MaxEdit = 2
INVARIANTS
    OwnOnly
    ArchivedFirst
    RecoveryHonest
PROPERTIES
    StagingIntentKept
