SPECIFICATION FairSpec
CHECK_DEADLOCK FALSE
CONSTANTS
    Banks <- OneBank
    Requests = {r1}
    FWBANK_DUMP_MAX_RETRIES = 1
    StatusFirst = TRUE
    Disturbances <- BadAnswers
    MaxForks = 4
INVARIANTS
    DumpAttempted
    FreshWhenQuiet
PROPERTIES
    RequestCompleted
