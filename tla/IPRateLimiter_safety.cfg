\* One client, without an address or under a header that reads "unknown", of endpoints
\* with limits of one and two.  Clients share nothing but the lock; the times of three
\* threads are what is hard.  A window of three ticks is no whole number of seconds of
\* two ticks, and seven requests could exceed the bound of a burst, six.
SPECIFICATION Spec
CONSTANTS
    Thread = {t1, t2, t3}
    Address = {Unknown}
    Unknown = Unknown
    None = None
    Enabled = TRUE
    Limit = {1, 2}
    Window = 3
    TicksPerSecond = 2
    MaxClock = 6
    MaxRequests = 7
SYMMETRY Symmetry
INVARIANTS
    BurstInv
    BurstBounded
PROPERTY
    RetryHonest
