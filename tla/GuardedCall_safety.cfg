\* Two threads, three calls, one call at a time or concurrently.
SPECIFICATION Spec
CONSTANTS
    Thread = {t1, t2}
    Hook <- MCHook
    Kind <- MCKind
    Limit <- MCLimit
    Chains <- MCChains
    SmallLimit = 1
    LargeLimit = 2
    MaxCost = 2
    ToolCost = 1
    MaxCalls = 3
SYMMETRY Symmetry
INVARIANTS
    EveryAnswerReachesEveryHook
    MetersFaithful
    CeilingHolds
    MeterInv
\* With no more calls to make (MaxCalls) the threads are idle and stop.
CHECK_DEADLOCK FALSE
