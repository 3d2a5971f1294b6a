SPECIFICATION FairSpec
CONSTANTS
    Callers = {g1, g2}
    Closers = {c1}
    BufferSize = 1
    Strategies = {"block", "drop"}
    WriterFails = TRUE
    MaxCalls = 2
    MaxTime = 3
INVARIANTS
    IInv
    CloseDrains
    DropAccounting
PROPERTIES
    ImplementsAuditTrail
    CloseTerminates
    LogReturns
CHECK_DEADLOCK FALSE
