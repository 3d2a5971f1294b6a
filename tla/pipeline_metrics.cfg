CONSTANTS
    Chains <- MCChains
    Requests <- MCRequests
SPECIFICATION Spec
INVARIANT
    EveryRequestCounted
