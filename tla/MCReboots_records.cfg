SPECIFICATION Spec
CONSTANTS
    REBOOT_MAX_RETRIES = 1
    REBOOT_MAX_ENTRIES = 2
    DefaultEntries = 1
    EntryValues <- AnyEntries
    Triggers = {"empty"}
    Reasons = {"empty", "POR_RESET"}
    Disturbances <- PowerCuts
    MaxBoots = 4
    MaxCrashes = 0
    MaxTrimFailures = 1
    MaxTime = 1
INVARIANTS
    TypeOK
    SectionsBounded
    OldestFirst
PROPERTIES
    RegisteredBootHasRecord
