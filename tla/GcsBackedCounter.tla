-------------------------- MODULE GcsBackedCounter --------------------------
(***************************************************************************)
(* The persistence life cycle shared by the counters (persistence.py):     *)
(* load() at startup, record() marking the state dirty, the debounced      *)
(* writer thread, shutdown() with its final flush, and crashes.            *)
(*                                                                         *)
(* The state of a counter is the set of calls whose cost it holds, so a    *)
(* snapshot is a set of calls and the blob is the last snapshot written.   *)
(* A missing blob is the empty set.                                        *)
(***************************************************************************)
EXTENDS Integers, FiniteSets

CONSTANTS
    Call,               \* the calls that may be recorded
    Enabled,            \* load(enabled=...)
    MaxWriteFailures,   \* bound on the writes that fail
    MaxReadFailures,    \* bound on the loads that cannot read the blob
    MaxCrashes          \* bound on restarts

ASSUME BoundAssumption ==
    /\ Enabled \in BOOLEAN
    /\ MaxWriteFailures \in Nat /\ MaxReadFailures \in Nat /\ MaxCrashes \in Nat

VARIABLES
    loaded,         \* load() has run in this process
    mem,            \* calls in the in-memory state
    blob,           \* calls in the persisted state
    dirty,          \* Event _dirty
    stop,           \* Event _stop
    writer,         \* where the writer thread is ("none": not started)
    wsnap,          \* snapshot the writer is writing
    main,           \* where the thread that calls shutdown() is
    msnap,          \* snapshot shutdown() is writing
    unscheduled,    \* recorded calls whose thread has not reached _schedule_write
    known,          \* history: calls ever recorded
    missed,         \* history: calls of a snapshot whose write failed
    erased,         \* history: calls a write has removed from the blob
    readOk,         \* history: this process's load() read the blob
    finalOk,        \* history: the write of the final flush succeeded
    writeFailures, readFailures, crashes

bounds == <<writeFailures, readFailures, crashes>>
writerVars == <<writer, wsnap>>
mainVars == <<main, msnap, finalOk>>
vars == <<loaded, mem, blob, dirty, stop, writerVars, mainVars, unscheduled, known,
          missed, erased, readOk, bounds>>

Init ==
    /\ loaded = FALSE
    /\ mem = {} /\ blob = {}
    /\ dirty = FALSE /\ stop = FALSE
    /\ writer = "none" /\ wsnap = {}
    /\ main = "serving" /\ msnap = {} /\ finalOk = FALSE
    /\ unscheduled = {}
    /\ known = {} /\ missed = {} /\ erased = {}
    /\ readOk = FALSE
    /\ writeFailures = 0 /\ readFailures = 0 /\ crashes = 0

-----------------------------------------------------------------------------
(* Startup *)

\* Fault: the blob is read but not applied.
StartEmpty(raw) == {}

\* from_dict: the state after a load that read `raw`.
FromBlob(raw) == raw

\* load(): read the blob (or fail and start empty), then start the writer.
Load ==
    /\ ~loaded
    /\ loaded' = TRUE
    /\ IF Enabled
       THEN /\ \/ /\ mem' = FromBlob(blob)
                  /\ readOk' = TRUE
                  /\ UNCHANGED readFailures
               \/ /\ readFailures < MaxReadFailures
                  /\ mem' = {}
                  /\ readOk' = FALSE
                  /\ readFailures' = readFailures + 1
            /\ writer' = "top"
       ELSE UNCHANGED <<mem, readOk, readFailures, writer>>
    /\ UNCHANGED <<blob, dirty, stop, wsnap, mainVars, unscheduled, known, missed,
                   erased, writeFailures, crashes>>

-----------------------------------------------------------------------------
(* Request threads *)

\* Fault: a call that completes after shutdown() is not added to the state.
RecordUnlessStopped(c) ==
    /\ loaded
    /\ c \notin known
    /\ mem' = IF stop THEN mem ELSE mem \cup {c}
    /\ known' = known \cup {c}
    /\ unscheduled' = unscheduled \cup {c}
    /\ UNCHANGED <<loaded, blob, dirty, stop, writerVars, mainVars, missed, erased,
                   readOk, bounds>>

\* record(), under the lock: the call's cost enters the in-memory state.
Record(c) ==
    /\ loaded
    /\ c \notin known
    /\ mem' = mem \cup {c}
    /\ known' = known \cup {c}
    /\ unscheduled' = unscheduled \cup {c}
    /\ UNCHANGED <<loaded, blob, dirty, stop, writerVars, mainVars, missed, erased,
                   readOk, bounds>>

\* record(), after the lock and the alerts: _schedule_write.
ScheduleWrite(c) ==
    /\ c \in unscheduled
    /\ unscheduled' = unscheduled \ {c}
    /\ dirty' = (dirty \/ Enabled)
    /\ UNCHANGED <<loaded, mem, blob, stop, writerVars, mainVars, known, missed, erased,
                   readOk, bounds>>

-----------------------------------------------------------------------------
(* flush(): the snapshot is taken under the lock, the blob written after it *)

\* The backend has replaced the blob by snapshot.
WriteSucceeds(snapshot) ==
    /\ blob' = snapshot
    /\ missed' = missed \ snapshot
    /\ erased' = (erased \cup blob) \ snapshot
    /\ UNCHANGED writeFailures

\* The backend has raised: logged, alerted, and swallowed.
WriteFails(snapshot) ==
    /\ writeFailures < MaxWriteFailures
    /\ writeFailures' = writeFailures + 1
    /\ missed' = missed \cup snapshot
    /\ UNCHANGED <<blob, erased>>

-----------------------------------------------------------------------------
(* The writer thread, _writer_loop *)

\* while not self._stop.is_set()
WriterTop ==
    /\ writer = "top"
    /\ writer' = IF stop THEN "done" ELSE "waiting"
    /\ UNCHANGED <<loaded, mem, blob, dirty, stop, wsnap, mainVars, unscheduled, known,
                   missed, erased, readOk, bounds>>

\* self._dirty.wait()
WriterWake ==
    /\ writer = "waiting"
    /\ dirty
    /\ writer' = "woken"
    /\ UNCHANGED <<loaded, mem, blob, dirty, stop, wsnap, mainVars, unscheduled, known,
                   missed, erased, readOk, bounds>>

\* if self._stop.is_set(): break
WriterCheck ==
    /\ writer = "woken"
    /\ writer' = IF stop THEN "done" ELSE "clearing"
    /\ UNCHANGED <<loaded, mem, blob, dirty, stop, wsnap, mainVars, unscheduled, known,
                   missed, erased, readOk, bounds>>

\* self._dirty.clear(), then the debounce sleep
WriterClear ==
    /\ writer = "clearing"
    /\ dirty' = FALSE
    /\ writer' = "sleeping"
    /\ UNCHANGED <<loaded, mem, blob, stop, wsnap, mainVars, unscheduled, known, missed,
                   erased, readOk, bounds>>

WriterSnapshot ==
    /\ writer = "sleeping"
    /\ wsnap' = mem
    /\ writer' = "writing"
    /\ UNCHANGED <<loaded, mem, blob, dirty, stop, mainVars, unscheduled, known, missed,
                   erased, readOk, bounds>>

\* Fault: the dirty flag is cleared after the write instead of before the snapshot.
WriterWriteThenClear ==
    /\ writer = "writing"
    /\ WriteSucceeds(wsnap) \/ WriteFails(wsnap)
    /\ writer' = "top"
    /\ wsnap' = {}
    /\ dirty' = FALSE
    /\ UNCHANGED <<loaded, mem, stop, mainVars, unscheduled, known, readOk,
                   readFailures, crashes>>

\* Fault: an exception of flush() is not swallowed and ends the writer thread.
WriterDiesOfFailure ==
    /\ writer = "writing"
    /\ \/ WriteSucceeds(wsnap) /\ writer' = "top"
       \/ WriteFails(wsnap) /\ writer' = "done"
    /\ wsnap' = {}
    /\ UNCHANGED <<loaded, mem, dirty, stop, mainVars, unscheduled, known, readOk,
                   readFailures, crashes>>

WriterWrite ==
    /\ writer = "writing"
    /\ WriteSucceeds(wsnap) \/ WriteFails(wsnap)
    /\ writer' = "top"
    /\ wsnap' = {}
    /\ UNCHANGED <<loaded, mem, dirty, stop, mainVars, unscheduled, known, readOk,
                   readFailures, crashes>>

-----------------------------------------------------------------------------
(* shutdown() *)

\* if self._writer is not None: self.flush(), first half
ShutdownSnapshot ==
    /\ main = "serving"
    /\ writer # "none"
    /\ msnap' = mem
    /\ main' = "flushing"
    /\ UNCHANGED <<loaded, mem, blob, dirty, stop, writerVars, finalOk, unscheduled,
                   known, missed, erased, readOk, bounds>>

ShutdownWrite ==
    /\ main = "flushing"
    /\ \/ WriteSucceeds(msnap) /\ finalOk' = TRUE
       \/ WriteFails(msnap) /\ finalOk' = FALSE
    /\ main' = "flushed"
    /\ UNCHANGED <<loaded, mem, dirty, stop, writerVars, msnap, unscheduled, known,
                   readOk, readFailures, crashes>>

ShutdownStop ==
    /\ main = "flushed"
    /\ stop' = TRUE
    /\ main' = "stopping"
    /\ UNCHANGED <<loaded, mem, blob, dirty, writerVars, msnap, finalOk, unscheduled,
                   known, missed, erased, readOk, bounds>>

\* Fault: the writer is not woken to see that it must stop.
ShutdownReturn ==
    /\ main = "stopping"
    /\ main' = "closed"
    /\ UNCHANGED <<loaded, mem, blob, dirty, stop, writerVars, msnap, finalOk,
                   unscheduled, known, missed, erased, readOk, bounds>>

\* self._dirty.set(): wake the loop so it can observe _stop
ShutdownWake ==
    /\ main = "stopping"
    /\ dirty' = TRUE
    /\ main' = "closed"
    /\ UNCHANGED <<loaded, mem, blob, stop, writerVars, msnap, finalOk, unscheduled,
                   known, missed, erased, readOk, bounds>>

-----------------------------------------------------------------------------
\* The process dies, in service or after shutdown(); the blob survives.
Crash ==
    /\ loaded
    /\ crashes < MaxCrashes
    /\ crashes' = crashes + 1
    /\ loaded' = FALSE
    /\ mem' = {} /\ unscheduled' = {}
    /\ dirty' = FALSE /\ stop' = FALSE
    /\ writer' = "none" /\ wsnap' = {}
    /\ main' = "serving" /\ msnap' = {} /\ finalOk' = FALSE
    /\ readOk' = FALSE
    /\ UNCHANGED <<blob, known, missed, erased, writeFailures, readFailures>>

Writer == WriterTop \/ WriterWake \/ WriterCheck \/ WriterClear \/ WriterSnapshot
            \/ WriterWrite

Closing == ShutdownWrite \/ ShutdownStop \/ ShutdownWake

Next ==
    \/ Load
    \/ \E c \in Call : Record(c)
    \/ \E c \in Call : ScheduleWrite(c)
    \/ Writer
    \/ ShutdownSnapshot
    \/ Closing
    \/ Crash

Spec == Init /\ [][Next]_vars

\* Threads that can run are scheduled: the writer, a request thread that has
\* recorded, and shutdown() once called.  Nobody has to call, shut down or crash.
Fairness ==
    /\ WF_vars(Writer)
    /\ WF_vars(Closing)
    /\ \A c \in Call : WF_vars(ScheduleWrite(c))

FairSpec == Spec /\ Fairness
-----------------------------------------------------------------------------
(* Properties *)

\* Every variable has its type; only a loaded process has calls to schedule.
TypeOK ==
    /\ loaded \in BOOLEAN /\ dirty \in BOOLEAN /\ stop \in BOOLEAN
    /\ mem \subseteq Call /\ blob \subseteq Call
    /\ wsnap \subseteq Call /\ msnap \subseteq Call
    /\ unscheduled \subseteq mem
    /\ ~ loaded => unscheduled = {}
    /\ writer \in {"none", "top", "waiting", "woken", "clearing", "sleeping", "writing",
                   "done"}
    /\ main \in {"serving", "flushing", "flushed", "stopping", "closed"}
    /\ known \subseteq Call /\ missed \subseteq Call /\ erased \subseteq Call
    /\ readOk \in BOOLEAN /\ finalOk \in BOOLEAN
    /\ writeFailures \in 0..MaxWriteFailures
    /\ readFailures \in 0..MaxReadFailures
    /\ crashes \in 0..MaxCrashes

\* The writer thread will take another snapshot: it is past its check of _stop, or
\* it will come to see the dirty flag before _stop is set.
WillSnapshot ==
    \/ writer \in {"clearing", "sleeping"}
    \/ dirty /\ ~ stop /\ writer \in {"top", "waiting", "woken", "writing"}

\* The writer will take a snapshot that has call c, or is writing one; or c's thread
\* is about to set the dirty flag for a writer that is still there to read it.
Due(c) ==
    \/ WillSnapshot
    \/ writer = "writing" /\ c \in wsnap
    \/ c \in unscheduled /\ ~ stop /\ writer \notin {"none", "done"}

\* _stop is set and call c came too late for the final flush, whose snapshot is msnap.
BehindFinalFlush(c) == stop /\ c \notin msnap

\* No wake-up is lost between the request threads and the writer: a recorded call
\* that is not in the blob is due to be written, unless the write of a snapshot
\* with it has failed, an older snapshot has been written over it, or it was recorded
\* behind the snapshot of the final flush, and only then, while shutting down.
UnsavedIsDue ==
    Enabled => \A c \in mem \ blob :
                    \/ Due(c)
                    \/ c \in missed \cup erased
                    \/ BehindFinalFlush(c)

\* While nobody is shutting down, a process that read its blob at startup never
\* removes a call from it (one writer, whose snapshots grow).
SavedStaysSaved ==
    [][main = "serving" /\ readOk => blob \subseteq blob']_vars

\* Every recorded call reaches the blob if the process goes on serving, unless a
\* write fails meanwhile; a call that a failed write left out is not written again by
\* itself, but the next record()'s write has it, unless that fails too.
RecordedIsSaved ==
    \A c \in Call, n \in 0..MaxWriteFailures :
        (Enabled /\ c \in mem /\ (c \in missed => dirty) /\ writeFailures = n) ~>
            \/ c \in blob
            \/ writeFailures > n
            \/ c \notin mem         \* the process has died
            \/ main # "serving"     \* or is shutting down

\* shutdown() lets the writer thread end (persistence.py:133).
WriterStops == stop ~> writer \in {"done", "none"}

\* persistence.py:133: "Stop the writer thread after a final synchronous flush":
\* once shutdown() has returned, what its flush has written is in the blob.
FinalFlushIsFinal == main = "closed" /\ finalOk => msnap \subseteq blob
=============================================================================
