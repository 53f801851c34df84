\* One thread, one call with a server-side tool.
SPECIFICATION Spec
CONSTANTS
    Thread = {t1}
    Hook <- MCHook
    Kind <- MCKind
    Limit <- MCLimit
    Chains <- MCChains
    SmallLimit = 1
    LargeLimit = 2
    MaxCost = 1
    ToolCost = 1
    MaxCalls = 2
INVARIANT
    ToolSpendReachesMeters
\* With no more calls to make (MaxCalls) the threads are idle and stop.
CHECK_DEADLOCK FALSE
