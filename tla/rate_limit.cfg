SPECIFICATION Spec
CONSTANTS
    HTTPKeys = {u}
    GRPCKeys = {s}
    Rate = 1
    Burst = 2
    T = 2
    Second = 2
    Routes <- MCRoutes
    MaxTime = 6
INVARIANTS
    IInv
    MatchesLeakyBucket
    WindowBound
    RetryAfterSuffices
    FallbackKeepsFirstLimit
CHECK_DEADLOCK FALSE
