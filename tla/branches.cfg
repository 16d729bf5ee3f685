SPECIFICATION Spec
CONSTANTS
    Target = "main"
    Sources <- MCSources
    Patches <- MCPatches
    FileOf <- MCFileOf
    Linked <- MCLinked
    Starts <- MCStarts
    Commands <- MCCommands
    Theirs <- MCTheirs
    MaxCalls = 2
PROPERTIES
    AppliedIsPublished
    OnlyIntegratedDeleted
    TargetLosesOnlyThePending
CHECK_DEADLOCK FALSE
