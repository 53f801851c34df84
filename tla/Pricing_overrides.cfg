\* A flat, a tiered and an unknown model, one or two rows at once; two threads pricing
\* calls with a priced and an unpriced tool.
SPECIFICATION MeterSpec
CONSTANTS
    Model <- MCModel
    RateKey <- MCRateKey
    Shipped <- MCShipped
    Rate <- MCRate
    Given <- MCGiven
    Input = "input"
    Output = "output"
    Read = "cache_read"
    Write = "cache_write"
    MaxSize = 3
    MaxRows = 2
    Thread = {t1, t2}
    Tool = {"search", "execution"}
    ToolRate <- MCToolRate
    None = None
    Count <- MCCount
    Uses = {2}
SYMMETRY Threads
INVARIANTS
    MeteringInv
    GateMatchesCost
    ShippedBillingRestored
    TablesAgree
    EveryTokenChargedOnce
    FreeIsReported
