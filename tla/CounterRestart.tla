-------------------------- MODULE CounterRestart ---------------------------
(***************************************************************************)
(* CostCounter together with the blob it is persisted in, across crashes   *)
(* and restarts of the process: the request threads record, the writer     *)
(* thread of GcsBackedCounter snapshots the counter (to_dict) and rewrites *)
(* the blob, the process dies at any point, and the next process loads     *)
(* what the blob holds (load, from_dict).  A write of the blob is atomic,  *)
(* as AtomicBlob promises.                                                 *)
(*                                                                         *)
(* The histories say, per window and bucket, which recorded USD are        *)
(* missing from memory, from the writer's snapshot and from the blob.      *)
(***************************************************************************)
EXTENDS CostCounter, FiniteSetsExt, Sequences

CONSTANTS
    MaxRestarts     \* bound on the number of restarts

ASSUME RestartAssumption == MaxRestarts \in Nat

VARIABLES
    dirty,          \* _dirty: a write is scheduled
    writer,         \* where the writer thread is
    snapshot,       \* the state the writer has serialised
    blob,           \* the state the backend holds
    missing,        \* history: recorded USD that memory does not hold
    snapMissing,    \* history: recorded USD that the snapshot does not hold
    blobMissing,    \* history: recorded USD that the blob does not hold
    peak,           \* history: the most that any process was missing
    inherited,      \* history: trip points reached in the state that was loaded
    restarts        \* number of restarts, for the bound

writerVars == <<dirty, writer, snapshot, blob>>
lossVars == <<missing, snapMissing, blobMissing, peak>>
restartVars == <<writerVars, lossVars, inherited, restarts>>
allVars == <<vars, restartVars>>

-----------------------------------------------------------------------------
(* State helpers *)

Nothing == [w \in Window |-> [b \in Buckets(w) |-> 0]]

\* Everything that was ever recorded.
Ledger == [w \in Window |-> [b \in Buckets(w) |-> guarded[w][b] + outside[w][b]]]

\* to_dict: the totals and tallies; the latch of alerts is not part of it.
Serialised == [total |-> total, stat |-> stat]

Empty == [total |-> [w \in Window |-> <<>>], stat |-> <<>>]

\* The parts of the blob, in the order in which from_dict replaces them.
Part == <<"hourly", "daily", "weekly", "per_token">>

\* What from_dict has replaced when it raises after n parts, or all of them.
LoadFirst(n) == {Part[i] : i \in 1..n}

\* Fault: the weekly totals are looked up under a key to_dict does not write.
FromDictRenamed(saved, parts) ==
    [total |-> [w \in Window |-> IF w \in parts \ {"weekly"}
                                 THEN Trim(saved.total[w], Keep[w]) ELSE <<>>],
     stat |-> IF "per_token" \in parts THEN saved.stat ELSE <<>>]

\* Fault: what is read is not put in place.
FromDictDropped(saved, parts) == Empty

\* The state after from_dict has replaced `parts` of an empty counter.
FromDict(saved, parts) ==
    [total |-> [w \in Window |-> IF w \in parts THEN Trim(saved.total[w], Keep[w]) ELSE <<>>],
     stat |-> IF "per_token" \in parts THEN saved.stat ELSE <<>>]

\* Every trip point that the totals and the tallies have reached.
TripsOf(tot, st) ==
    {key \in LatchKey :
        Enabled /\ Reached(key, tot, st, [w \in Window |-> key[3]], key[2])}

-----------------------------------------------------------------------------
RestartInit ==
    /\ Init
    /\ dirty = FALSE
    /\ writer = "waiting"
    /\ snapshot = Empty
    /\ blob = Empty
    /\ missing = Nothing
    /\ snapMissing = Nothing
    /\ blobMissing = Nothing
    /\ peak = Nothing
    /\ inherited = {}
    /\ restarts = 0

\* The steps of the counter that do not concern its blob.
Serve ==
    /\ \/ Tick
       \/ \E th \in Thread :
             \/ \E tk \in Identity : Enforce(th, tk) \/ Refuse(th, tk)
                                     \/ BeginRecordUsage(th, tk)
             \/ Abandon(th)
             \/ BeginRecord(th)
             \/ Deliver(th)
    /\ UNCHANGED restartVars

\* record() under its lock: what it adds is in neither the snapshot nor the blob.
RecordCall(th) ==
    LET Recorded(w, b) == Ledger'[w][b] - Ledger[w][b]
        Without(history) == [w \in Window |->
                               [b \in Buckets(w) |-> history[w][b] + Recorded(w, b)]]
    IN  /\ Record(th)
        /\ snapMissing' = Without(snapMissing)
        /\ blobMissing' = Without(blobMissing)
        /\ UNCHANGED <<writerVars, missing, peak, inherited, restarts>>

\* record() schedules a write and returns.
ReturnDirty(th) ==
    /\ Return(th)
    /\ dirty' = Enabled
    /\ UNCHANGED <<writer, snapshot, blob, lossVars, inherited, restarts>>

\* _writer_loop wakes, clears the flag and sleeps.
Wake ==
    /\ writer = "waiting" /\ dirty
    /\ dirty' = FALSE
    /\ writer' = "debouncing"
    /\ UNCHANGED <<vars, snapshot, blob, lossVars, inherited, restarts>>

\* flush(): to_dict under the counter's lock.
Snapshot ==
    /\ writer = "debouncing"
    /\ writer' = "writing"
    /\ snapshot' = Serialised
    /\ snapMissing' = missing
    /\ UNCHANGED <<vars, dirty, blob, missing, blobMissing, peak, inherited, restarts>>

\* flush(): the backend has replaced the blob.
Written ==
    /\ writer = "writing"
    /\ writer' = "waiting"
    /\ blob' = snapshot
    /\ blobMissing' = snapMissing
    /\ snapshot' = Empty
    /\ snapMissing' = Nothing
    /\ UNCHANGED <<vars, dirty, missing, peak, inherited, restarts>>

\* flush(): the write failed; it is logged and not scheduled again.
WriteFailed ==
    /\ writer = "writing"
    /\ writer' = "waiting"
    /\ snapshot' = Empty
    /\ snapMissing' = Nothing
    /\ UNCHANGED <<vars, dirty, blob, missing, blobMissing, peak, inherited, restarts>>

\* The process dies, and a new one has an empty counter and latch until load() has
\* replaced the parts that could be read.
Restart(parts) ==
    LET read == IF Enabled THEN parts ELSE {}
        loaded == FromDict(blob, read)
        Absent == [w \in Window |-> IF w \in read THEN blobMissing[w] ELSE Ledger[w]]
    IN  /\ restarts < MaxRestarts
        /\ restarts' = restarts + 1
        /\ total' = loaded.total
        /\ stat' = loaded.stat
        /\ alerted' = {}
        /\ attempted' = {}
        /\ inherited' = TripsOf(loaded.total, loaded.stat)
        /\ pc' = [th \in Thread |-> "idle"]
        /\ caller' = [th \in Thread |-> NoToken]
        /\ start' = [th \in Thread |-> 0]
        /\ pending' = [th \in Thread |-> {}]
        /\ admitted' = {}
        /\ dirty' = FALSE
        /\ writer' = "waiting"
        /\ snapshot' = Empty
        /\ missing' = Absent
        /\ snapMissing' = Nothing
        /\ peak' = [w \in Window |-> [b \in Buckets(w) |-> Max({peak[w][b], Absent[w][b]})]]
        /\ UNCHANGED <<clock, guarded, outside, calls, blob, blobMissing>>

\* The blob is intact, cannot be read at all (n = 0), or has a malformed row.
RestartLoading ==
    \E n \in 0..Len(Part) : Restart(LoadFirst(n))

RestartNext ==
    \/ Serve
    \/ \E th \in Thread : RecordCall(th) \/ ReturnDirty(th)
    \/ Wake \/ Snapshot \/ Written \/ WriteFailed
    \/ RestartLoading

RestartSpec == RestartInit /\ [][RestartNext]_allVars

-----------------------------------------------------------------------------
(* Properties *)

\* A state the counter could have been in by now.
IsSaved(saved) ==
    /\ DOMAIN saved.total = Window
    /\ \A w \in Window :
          /\ DOMAIN saved.total[w] \subseteq {b \in Buckets(w) : b <= Now(w)}
          /\ \A b \in DOMAIN saved.total[w] : saved.total[w][b] \in Nat
          /\ Cardinality(DOMAIN saved.total[w]) <= Keep[w]
    /\ DOMAIN saved.stat \subseteq Token
    /\ \A tk \in DOMAIN saved.stat : saved.stat[tk] \in [usd : Nat, week : Buckets("weekly")]

\* USD per window and bucket.
IsHistory(history) ==
    DOMAIN history = Window /\ \A w \in Window : history[w] \in [Buckets(w) -> Nat]

\* Every variable has its type; whatever was loaded or is held for the backend is a
\* state the counter could have been in.
RestartTypeOK ==
    /\ TypeOK
    /\ dirty \in BOOLEAN
    /\ writer \in {"waiting", "debouncing", "writing"}
    /\ \A saved \in {snapshot, blob} : IsSaved(saved)
    /\ \A history \in {missing, snapMissing, blobMissing, peak} : IsHistory(history)
    /\ inherited \subseteq LatchKey
    /\ restarts \in 0..MaxRestarts

\* A crash loses exactly what was recorded since the snapshot last written was taken
\* (counters.py:36), and the parts that load() could not read: the totals of the
\* present hour, day and week are everything else that was ever recorded in them, and
\* so are those of the blob, whatever was recorded between a snapshot and its write.
LossIsUnsaved ==
    \A w \in Window :
        /\ Get(total[w], Now(w)) + missing[w][Now(w)] = Ledger[w][Now(w)]
        /\ Get(blob.total[w], Now(w)) + blobMissing[w][Now(w)] = Ledger[w][Now(w)]

\* The caps bind across restarts: the admitted calls of one hour, day or week stay
\* below the cap plus one call per thread plus the most a process of that window
\* started without.
SpendBoundedAcrossRestarts ==
    Enabled => \A w \in Window : \A b \in Buckets(w) :
        guarded[w][b] < Cap[w] + MaxCost * Cardinality(Thread) + peak[w][b]

\* Nothing is missing of a bucket that time has not reached, nor more of any bucket than
\* the most that any process was missing.
MissingBounded ==
    \A w \in Window : \A b \in Buckets(w) :
        /\ missing[w][b] <= peak[w][b]
        /\ b > Now(w) => missing[w][b] = 0 /\ snapMissing[w][b] = 0 /\ blobMissing[w][b] = 0

\* A snapshot that is being written lacks what its history says.
SnapshotLoss ==
    writer = "writing" =>
        \A w \in Window :
            Get(snapshot.total[w], Now(w)) + snapMissing[w][Now(w)] = Ledger[w][Now(w)]

\* The money set aside for the calls in flight is within the bound.
ReservedAcrossRestarts ==
    Enabled => \A w \in Window : \A b \in Buckets(w) :
        guarded[w][b] + MaxCost * Cardinality(MayCredit(w, b))
            < Cap[w] + MaxCost * Cardinality(Thread) + peak[w][b]

\* The inductive invariant behind LossIsUnsaved and SpendBoundedAcrossRestarts.
RestartInv ==
    /\ RestartTypeOK
    /\ InFlight /\ FutureEmpty
    /\ LossIsUnsaved /\ SnapshotLoss /\ MissingBounded
    /\ ReservedAcrossRestarts

\* A cap that has reached its trip point has its alert latched in this process or was
\* found reached when the process loaded the blob; the latch itself is not persisted
\* (counters.py:180), so the alert of an inherited trip may never have been sent.
TripLatchedOrInherited ==
    TripsOf(total, stat) \subseteq alerted \cup inherited
=============================================================================
