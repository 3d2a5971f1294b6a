SPECIFICATION Spec
CONSTANTS
    Partitions = {p1, p2}
    LogEnd = 2
    Configs <- MCPolicies
    ErrorsCarryRecords = TRUE
    MaxAttempts = 1
    MaxCrashes = 1
INVARIANT AtLeastOnce
CHECK_DEADLOCK FALSE
