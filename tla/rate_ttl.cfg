SPECIFICATION Spec
CONSTANTS
    HTTPKeys = {u}
    GRPCKeys = {s}
    Rate = 1
    Burst = 3
    T = 1
    Second = 1
    Routes <- MCOnlyRoute
    MaxTime = 8
INVARIANTS
    MatchesLeakyBucket
CHECK_DEADLOCK FALSE
