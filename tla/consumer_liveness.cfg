SPECIFICATION FairSpec
CONSTANTS
    Partitions = {p1}
    LogEnd = 2
    Configs <- MCRetriesAndBackoffs
    ErrorsCarryRecords = TRUE
    MaxAttempts = 5
    MaxCrashes = 1
INVARIANT BackoffSchedule
PROPERTIES
    CancelStops
    ImplementsConsumerLoop
    PoisonPillDoesNotBlock
CHECK_DEADLOCK FALSE
