SPECIFICATION FairSpec
CONSTANTS
    Verifiers = {v1, v2}
    Refresher = r
    k1 = k1
    k2 = k2
    KeysAt <- MCKeysAt
    MaxVersion = 3
INVARIANTS
    IInv
    AcceptsFromCurrent
    RejectsRightly
PROPERTIES
    CacheNeverGoesBack
    VerifyReturns
    CacheCatchesUp
CHECK_DEADLOCK FALSE
