SPECIFICATION FairSpec
CHECK_DEADLOCK FALSE
CONSTANTS
    Banks = {1, 2}
    InitialBank = 1
    MINUTE = 2
    RETRY_TIME = 4
    MAX_TIME_WINDOW = 2
    Menu <- Windows
    Disturbances = {"fails", "power_cut", "slow_cron"}
    MaxLines = 3
    MaxRequests = 2
    MaxTime = 12
INVARIANTS
    TypeOK
    OneAtATime
    BootIsAvailable
PROPERTIES
    ActivatesInWindow
    LastWindowActivates
