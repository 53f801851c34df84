\* One process, every write succeeds: the writer and the final flush race.
SPECIFICATION Spec
CONSTANTS
    Call = {c1, c2}
    Enabled = TRUE
    MaxWriteFailures = 0
    MaxReadFailures = 0
    MaxCrashes = 0
SYMMETRY Symmetry
INVARIANT
    FinalFlushIsFinal
CHECK_DEADLOCK FALSE
