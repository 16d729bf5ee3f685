SPECIFICATION Spec
CONSTANTS
    Own <- MCOwn
    Foreign <- MCForeign
    Edits <- MCEdits
    FileOf <- MCFileOf
    Starts <- MCStarts
    LateEdits <- MCLateEdits
    CountMayFail = FALSE
    ForeignStashes = 1
INVARIANTS
    CommitsKept
    EditsKept
    SuccessIsCurrent
CHECK_DEADLOCK FALSE
