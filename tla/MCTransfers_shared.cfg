SPECIFICATION Spec
CHECK_DEADLOCK FALSE
CONSTANTS
    Ops = {p1, p2}
    Calls <- AllCalls
    Names = {n1}
    Hidden = {}
    InitialFiles = {n1}
    StatusFirst = TRUE
    Disturbances = {"concurrent"}
    MaxFileEvents = 0
INVARIANTS
    AppliedAsChecked
