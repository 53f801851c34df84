\* Every mode: two dimensions, each with room for one of two keys, over a rollover.
SPECIFICATION Spec
CONSTANTS
    Thread = {t1, t2}
    Dim = {"token", "ip"}
    Key = {k1, k2}
    NoKey = NoKey
    EveryCap = 2
    EveryMaxKeys = 1
    InstantsPerWeek = 1
    MaxAmount = 2
    MaxClock = 1
    MaxEvents = 3
    Cap <- MCCap
    MaxKeys <- MCMaxKeys
    Week <- MCWeek
SYMMETRY Symmetry
INVARIANTS
    WeekInv
    TallyBounded
PROPERTY
    EvictsLeastRecent
\* With no more events (MaxEvents) the threads are idle and stop.
CHECK_DEADLOCK FALSE
