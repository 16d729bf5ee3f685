SPECIFICATION ExactSpec
CONSTANTS
    Path = {"a", "b"}
    Selected = {"a"}
    Hunk = {1}
    Start <- Starts
    MaxForeign = 1
    MaxEdit = 2
INVARIANTS
    ScopeOnBase
    HonestReport
