\* Two threads, one identity, three hours of two days and two weeks.
SPECIFICATION Spec
CONSTANTS
    Thread = {t1, t2}
    Token = {k1}
    NoToken = NoToken
    Enabled = TRUE
    HourlyCap = 1
    DailyCap = 1
    WeeklyCap = 2
    TokenCap = 1
    KeepHourly = 2
    KeepDaily = 1
    KeepWeekly = 1
    HoursPerDay = 1
    HoursPerWeek = 2
    MaxCost = 1
    MaxClock = 2
    MaxCalls = 3
    Cap <- MCCap
    Keep <- MCKeep
    Bucket <- MCBucket
SYMMETRY Symmetry
INVARIANTS
    CurrentTotalsExact
    GuardedSpendBounded
    SpendInv
    EveryTripLatched
    AlertsDeliveredOnce
PROPERTIES
    TallyLostOnlyByStraggler
    ImplementsGate
\* With no more calls to make (MaxCalls) the threads are idle and stop.
CHECK_DEADLOCK FALSE
