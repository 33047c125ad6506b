SPECIFICATION Spec
CONSTANTS
    REBOOT_MAX_RETRIES = 1
    REBOOT_MAX_ENTRIES = 2
    DefaultEntries = 1
    EntryValues <- TwoEntries
    Triggers = {"empty"}
    Reasons = {"empty", "watchdog"}
    Disturbances <- RemoteReboots
    MaxBoots = 4
    MaxCrashes = 1
    MaxTrimFailures = 0
    MaxTime = 1
INVARIANTS
    CauseHonest
