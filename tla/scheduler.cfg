SPECIFICATION FairSpec
CONSTANTS
    N = 4
    Inputs <- SmallInputs
INVARIANTS
    CommonDirExclusion
    DependencyOrder
    BlameIsRight
PROPERTIES
    Termination
