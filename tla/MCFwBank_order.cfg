SPECIFICATION Spec
CHECK_DEADLOCK FALSE
CONSTANTS
    Banks <- TwoBanks
    Requests = {r1, r2}
    FWBANK_DUMP_MAX_RETRIES = 1
    StatusFirst = TRUE
    Disturbances <- Upgrades
    MaxForks = 5
PROPERTIES
    RightBank
