SPECIFICATION Fair
CONSTANTS
    Repos <- MCChain
    Parent <- MCChainParent
    Starts <- Workspaces
    kMaxConvergePasses = 4
    Mishaps = 1
INVARIANTS
    NoDanglingPointer
    ExitIsTruthful
PROPERTIES
    Ends
CHECK_DEADLOCK FALSE
