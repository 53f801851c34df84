\* One pool thread that serves nested and successive requests, and another.
SPECIFICATION Spec
CONSTANTS
    Thread = {t1, t2}
    Chains <- MCChains
    MaxDepth = 2
    MaxRequests = 2
    MaxCalls = 2
SYMMETRY Symmetry
INVARIANTS
    TraceInv
    ModeIsOfRequest
    ContentNeedsConsent
    RequestOutlivesCalls
    CallSpansComplete
    EveryAnswerReported
\* With no more requests and calls (MaxRequests, MaxCalls) the threads stop.
CHECK_DEADLOCK FALSE
