SPECIFICATION FairSpec
CHECK_DEADLOCK FALSE
CONSTANTS
    Levels <- ThreeLevels
    Thresholds <- BothThresholds
    Paths = {p1, p2}
    DefaultRise = 80
    DefaultFall = 60
    DefaultPath = p1
    Disturbances <- Unreadable
    MaxTime = 2
    MaxCrashes = 1
INVARIANTS
    TypeOK
    ConfigApplied
    StampsPersisted
PROPERTIES
    Announced
    EndNoticed
    Recovers
