SPECIFICATION Spec
CONSTANTS
    Partitions = {p1, p2}
    LogEnd = 2
    Configs <- MCPolicies
    ErrorsCarryRecords = FALSE
    MaxAttempts = 1
    MaxCrashes = 1
SYMMETRY MCSymmetry
INVARIANTS
    AtLeastOnce
    StrictOrdering
    IInv
PROPERTY ImplementsOffsetLog
CHECK_DEADLOCK FALSE
