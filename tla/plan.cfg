CONSTANTS
    Process = {p1, p2}
    child = child
    root = root
    Repo = {child, root}
    Root = root
    Orders <- ChildFirstOrder
    None = None
    Old = Old
    MaxSaves = 1
    MaxFaults = 1
    MaxKills = 1
    MaxOthers = 1
SPECIFICATION Spec
INVARIANTS StampMeansPushed WorksAlone FailedIsUncompleted
PROPERTIES EditsKept
CONSTRAINT FewTroubles
SYMMETRY Symmetry
CHECK_DEADLOCK FALSE
