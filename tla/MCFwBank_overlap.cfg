SPECIFICATION Spec
CHECK_DEADLOCK FALSE
CONSTANTS
    Banks <- OneBank
    Requests = {r1, r2}
    FWBANK_DUMP_MAX_RETRIES = 1
    StatusFirst = TRUE
    Disturbances <- Overlapping
    MaxForks = 5
INVARIANTS
    FreshWhenQuiet
