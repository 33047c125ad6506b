SPECIFICATION Spec
CONSTANTS
    REBOOT_MAX_RETRIES = 1
    REBOOT_MAX_ENTRIES = 2
    DefaultEntries = 1
    EntryValues <- NoEntries
    Triggers = {"empty"}
    Reasons = {"empty", "soft"}
    Disturbances <- EarlyReboots
    MaxBoots = 2
    MaxCrashes = 0
    MaxTrimFailures = 0
    MaxTime = 1
INVARIANTS
    CauseHonest
