CONSTANTS
    MaxRequests = 1
    Consumers = {c1}
    Events = {e1}
    Messages = {m1}
SPECIFICATION FairSpec
INVARIANTS
    IInv
    ReturnsDrained
    PublishedIsStored
    AuditSettledAtExit
    CloseWaitsForAll
PROPERTIES
    EndsWhenAsked
CHECK_DEADLOCK FALSE
