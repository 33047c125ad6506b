SPECIFICATION FairSpec
CHECK_DEADLOCK FALSE
CONSTANTS
    REBOOT_MAX_RETRIES = 1
    REBOOT_MAX_ENTRIES = 2
    DefaultEntries = 1
    EntryValues <- ZeroEntries
    Triggers = {"empty", "defaultreset"}
    Reasons = {"empty", "soft"}
    Disturbances <- AnyDisturbance
    MaxBoots = 2
    MaxCrashes = 1
    MaxTrimFailures = 0
    MaxTime = 1
INVARIANTS
    BootsCountedOnce
PROPERTIES
    NeverRecounted
    EventuallyRegistered
