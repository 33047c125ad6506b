SPECIFICATION FairSpec
CHECK_DEADLOCK FALSE
CONSTANTS
    Ops = {p1, p2}
    Calls <- AllCalls
    Names = {n1, n2, dot}
    Hidden = {dot}
    InitialFiles = {n1, dot}
    StatusFirst = TRUE
    Disturbances = {"concurrent", "slow"}
    MaxFileEvents = 1
INVARIANTS
    TypeOK
    OwnBankTells
    EndsCleanly
PROPERTIES
    ListFollowsDirectory
    Finishes
