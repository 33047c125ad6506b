SPECIFICATION FairSpec
CHECK_DEADLOCK FALSE
CONSTANTS
    Intervals <- Both
    Disturbances <- ScanAndAnswer
    MaxProcs = 3
    MaxChanges = 3
    MaxFailures = 2
    MaxRequests = 2
    MaxCrashes = 1
INVARIANTS
    TypeOK
    InstancesMatch
    OneChain
PROPERTIES
    Converges
