CONSTANTS
    Chains <- MCChains
    Requests <- MCRequests
SPECIFICATION Spec
INVARIANTS
    CountedAsSent
    LoggedAsSent
    PanicContained
    SpanFaithful
    Correlated
    LimitedAsPrincipal
