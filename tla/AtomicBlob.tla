----------------------------- MODULE AtomicBlob -----------------------------
(***************************************************************************)
(* What a StateBackend promises the counters (state.py): a named blob that *)
(* a write replaces as a whole.  A write that fails, or whose process      *)
(* crashes, leaves the blob as it was.                                     *)
(***************************************************************************)
CONSTANTS Writer, Text, None

VARIABLES
    blob,       \* the text a read returns, None if there is no blob
    writing     \* the text each writer is writing, None when it is not

Init == blob = None /\ writing = [w \in Writer |-> None]

Begin(w) ==
    /\ writing[w] = None
    /\ \E text \in Text : writing' = [writing EXCEPT ![w] = text]
    /\ UNCHANGED blob

\* The blob becomes the text of the write.
Commit(w) ==
    /\ writing[w] # None
    /\ blob' = writing[w]
    /\ writing' = [writing EXCEPT ![w] = None]

Fail(w) ==
    /\ writing' = [writing EXCEPT ![w] = None]
    /\ UNCHANGED blob

Crash ==
    /\ writing' = [w \in Writer |-> None]
    /\ UNCHANGED blob

Next == Crash \/ \E w \in Writer : Begin(w) \/ Commit(w) \/ Fail(w)

Spec == Init /\ [][Next]_<<blob, writing>>
=============================================================================
