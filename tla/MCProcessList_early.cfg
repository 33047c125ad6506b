SPECIFICATION Spec
CONSTANTS
    Intervals <- Both
    Disturbances <- EarlyRead
    MaxProcs = 2
    MaxChanges = 1
    MaxFailures = 1
    MaxRequests = 1
    MaxCrashes = 0
INVARIANTS
    InstancesMatch
