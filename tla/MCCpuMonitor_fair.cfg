SPECIFICATION FairSpec
CHECK_DEADLOCK FALSE
CONSTANTS
    Levels <- TwoLevels
    Thresholds <- NoThresholds
    Paths = {p1}
    DefaultRise = 80
    DefaultFall = 60
    DefaultPath = p1
    Disturbances <- NoMemory
    MaxTime = 2
    MaxCrashes = 1
    SampleCounts <- OneOrThree
    DefaultSamples = 2
INVARIANTS
    TypeOK
    AverageOfLatest
    RingApplied
PROPERTIES
    Recovers
