SPECIFICATION Spec
CONSTANTS
    r1 = r1
    r2 = r2
    r3 = r3
    r4 = r4
    NoKey = NoKey
    Requests = {r1, r2, r3, r4}
    KeyOf <- MCKeyOf
    Modes = {"closed"}
    Expiry = 3
    MaxTime = 8
INVARIANT
    NoConcurrentProcessing
CHECK_DEADLOCK FALSE
