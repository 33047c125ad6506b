SPECIFICATION HangSpec
CHECK_DEADLOCK FALSE
CONSTANTS
    Banks <- OneBank
    Requests = {r1}
    FWBANK_DUMP_MAX_RETRIES = 1
    StatusFirst = TRUE
    Disturbances <- SlowScripts
    MaxForks = 2
PROPERTIES
    RequestCompleted
