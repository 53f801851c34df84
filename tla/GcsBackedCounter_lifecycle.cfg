\* Two calls, two writes and a read that fail, a restart, and shutdown at any time;
\* without symmetry, for the temporal properties.
SPECIFICATION FairSpec
CONSTANTS
    Call = {c1, c2}
    Enabled = TRUE
    MaxWriteFailures = 2
    MaxReadFailures = 1
    MaxCrashes = 1
INVARIANTS
    TypeOK
    UnsavedIsDue
PROPERTIES
    SavedStaysSaved
    RecordedIsSaved
    WriterStops
\* A process that has shut down, or has no call left to record, stops.
CHECK_DEADLOCK FALSE
