SPECIFICATION Spec
CHECK_DEADLOCK FALSE
CONSTANTS
    Banks = {1, 2}
    InitialBank = 1
    MINUTE = 2
    RETRY_TIME = 4
    MAX_TIME_WINDOW = 2
    Menu <- Windows
    Disturbances = {}
    MaxLines = 3
    MaxRequests = 2
    MaxTime = 12
PROPERTIES
    NotBeforeStart
