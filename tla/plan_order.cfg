CONSTANTS
    Process = {p1}
    child = child
    root = root
    Repo = {child, root}
    Root = root
    Orders <- AnyOrder
    None = None
    Old = Old
    MaxSaves = 0
    MaxFaults = 0
    MaxKills = 0
    MaxOthers = 0
SPECIFICATION Spec
INVARIANTS ChildrenFirst
CHECK_DEADLOCK FALSE
