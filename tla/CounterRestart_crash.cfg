\* Two threads, one identity, two hours of two days in one week, one restart.
SPECIFICATION RestartSpec
CONSTANTS
    Thread = {t1, t2}
    Token = {k1}
    NoToken = NoToken
    Enabled = TRUE
    HourlyCap = 1
    DailyCap = 1
    WeeklyCap = 2
    TokenCap = 1
    KeepEach = 1
    HoursPerDay = 1
    HoursPerWeek = 2
    MaxCost = 1
    MaxClock = 1
    MaxCalls = 3
    MaxRestarts = 1
    Cap <- MCCap
    Keep <- MCKeep
    Bucket <- MCBucket
SYMMETRY Symmetry
INVARIANTS
    RestartInv
    LossIsUnsaved
    SpendBoundedAcrossRestarts
    TripLatchedOrInherited
\* With no more calls and restarts to make the process is idle and stops.
CHECK_DEADLOCK FALSE
