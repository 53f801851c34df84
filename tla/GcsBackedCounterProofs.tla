----------------------- MODULE GcsBackedCounterProofs -----------------------
(***************************************************************************)
(* No recorded call is forgotten between the request threads and the       *)
(* writer, and a saved call stays saved while the process serves, for      *)
(* every set of calls and any number of failures and restarts.             *)
(***************************************************************************)
EXTENDS GcsBackedCounter, TLAPS

-----------------------------------------------------------------------------
(* Type correctness *)

\* No step of the process, its threads or its backend breaks the types.
LEMMA NextType == ASSUME TypeOK, [Next]_vars PROVE TypeOK'
<1> USE BoundAssumption DEF TypeOK
<1>1. CASE Load
  <2>1. loaded' \in BOOLEAN /\ readOk' \in BOOLEAN
    BY <1>1, Zenon DEF Load
  <2> QED BY <1>1, <2>1 DEF Load, FromBlob, mainVars
<1>2. ASSUME NEW c \in Call, Record(c) PROVE TypeOK'
  BY <1>2 DEF Record, writerVars, mainVars, bounds
<1>3. ASSUME NEW c \in Call, ScheduleWrite(c) PROVE TypeOK'
  BY <1>3 DEF ScheduleWrite, writerVars, mainVars, bounds
<1>4. CASE WriterTop
  BY <1>4 DEF WriterTop, mainVars, bounds
<1>5. CASE WriterWake
  BY <1>5 DEF WriterWake, mainVars, bounds
<1>6. CASE WriterCheck
  BY <1>6 DEF WriterCheck, mainVars, bounds
<1>7. CASE WriterClear
  BY <1>7 DEF WriterClear, mainVars, bounds
<1>8. CASE WriterSnapshot
  BY <1>8 DEF WriterSnapshot, mainVars, bounds
<1>9. CASE WriterWrite
  BY <1>9 DEF WriterWrite, WriteSucceeds, WriteFails, mainVars
<1>10. CASE ShutdownSnapshot
  BY <1>10 DEF ShutdownSnapshot, writerVars, bounds
<1>11. CASE ShutdownWrite
  <2>1. finalOk' \in BOOLEAN
    BY <1>11, Zenon DEF ShutdownWrite
  <2> QED BY <1>11, <2>1 DEF ShutdownWrite, WriteSucceeds, WriteFails, writerVars
<1>12. CASE ShutdownStop
  <2>1. stop' \in BOOLEAN
    BY <1>12, Zenon DEF ShutdownStop
  <2> QED BY <1>12, <2>1 DEF ShutdownStop, writerVars, bounds
<1>13. CASE ShutdownWake
  <2>1. dirty' \in BOOLEAN
    BY <1>13, Zenon DEF ShutdownWake
  <2> QED BY <1>13, <2>1 DEF ShutdownWake, writerVars, bounds
<1>14. CASE Crash
  <2>1. /\ loaded' \in BOOLEAN /\ dirty' \in BOOLEAN /\ stop' \in BOOLEAN
        /\ readOk' \in BOOLEAN /\ finalOk' \in BOOLEAN
    BY <1>14, Zenon DEF Crash
  <2> QED BY <1>14, <2>1 DEF Crash
<1>15. CASE UNCHANGED vars
  BY <1>15 DEF vars, writerVars, mainVars, bounds
<1> QED
  BY <1>1, <1>2, <1>3, <1>4, <1>5, <1>6, <1>7, <1>8, <1>9, <1>10, <1>11, <1>12, <1>13,
     <1>14, <1>15 DEF Next, Writer, Closing

\* Every variable keeps its type; a call waiting to be scheduled is in memory.
THEOREM TypeCorrect == Spec => []TypeOK
<1>1. Init => TypeOK
  <2>1. Init => /\ loaded \in BOOLEAN /\ dirty \in BOOLEAN /\ stop \in BOOLEAN
                /\ readOk \in BOOLEAN /\ finalOk \in BOOLEAN
    BY Zenon DEF Init
  <2> QED BY <2>1, BoundAssumption DEF Init, TypeOK
<1>2. TypeOK /\ [Next]_vars => TypeOK'
  BY NextType
<1> QED BY <1>1, <1>2, PTL DEF Spec

-----------------------------------------------------------------------------
(* No wake-up is lost *)

\* The writer of a loaded process ends only once _stop is set, and whatever the final
\* flush had in its snapshot is accounted for from its write on.
ShutdownInv ==
    /\ ~ loaded => mem = {}
    /\ loaded /\ Enabled => writer # "none"
    /\ writer = "done" => stop
    /\ stop => main \in {"stopping", "closed"}
    /\ main \in {"flushed", "stopping", "closed"} =>
           msnap \subseteq blob \cup missed \cup erased

\* A write only moves calls between the blob, the missed and the erased ones.
LEMMA WriteForgetsNone ==
    ASSUME NEW snapshot, WriteSucceeds(snapshot) \/ WriteFails(snapshot)
    PROVE  blob \cup missed \cup erased \subseteq blob' \cup missed' \cup erased'
BY DEF WriteSucceeds, WriteFails

\* Every step of the threads, of shutdown() and of the backend keeps it.
LEMMA NextShutdown ==
    ASSUME TypeOK, ShutdownInv, [Next]_vars PROVE ShutdownInv'
<1> USE DEF ShutdownInv
<1>1. CASE Load
  BY <1>1 DEF Load, mainVars
<1>2. CASE \E c \in Call : Record(c)
  BY <1>2 DEF Record, writerVars, mainVars
<1>3. CASE \E c \in Call : ScheduleWrite(c)
  BY <1>3 DEF ScheduleWrite, writerVars, mainVars
<1>4. CASE WriterTop \/ WriterWake \/ WriterCheck \/ WriterClear \/ WriterSnapshot
  BY <1>4 DEF WriterTop, WriterWake, WriterCheck, WriterClear, WriterSnapshot, mainVars
<1>5. CASE WriterWrite
  <2>1. blob \cup missed \cup erased \subseteq blob' \cup missed' \cup erased'
    BY <1>5, WriteForgetsNone DEF WriterWrite
  <2> QED BY <1>5, <2>1 DEF WriterWrite, mainVars
<1>6. CASE ShutdownSnapshot
  BY <1>6 DEF ShutdownSnapshot, writerVars
<1>7. CASE ShutdownWrite
  <2>1. msnap \subseteq blob' \cup missed'
    BY <1>7 DEF ShutdownWrite, WriteSucceeds, WriteFails
  <2> QED BY <1>7, <2>1 DEF ShutdownWrite, writerVars
<1>8. CASE ShutdownStop \/ ShutdownWake
  BY <1>8 DEF ShutdownStop, ShutdownWake, writerVars
<1>9. CASE Crash
  BY <1>9 DEF Crash
<1>10. CASE UNCHANGED vars
  BY <1>10 DEF vars, writerVars, mainVars
<1> QED
  BY <1>1, <1>2, <1>3, <1>4, <1>5, <1>6, <1>7, <1>8, <1>9, <1>10
  DEF Next, Writer, Closing

\* A write accounts for every call it leaves out: one that its snapshot lacks and that
\* is neither saved, missed nor erased after it was none of these before it.
LEMMA WriteKeepsDue ==
    ASSUME NEW snapshot \in SUBSET Call, NEW c \in Call,
           WriteSucceeds(snapshot) \/ WriteFails(snapshot),
           c \notin snapshot, c \notin blob', c \notin missed', c \notin erased'
    PROVE  c \notin blob /\ c \notin missed /\ c \notin erased
BY DEF WriteSucceeds, WriteFails

\* No step leaves a recorded call unsaved with nobody due to save it.  Once _stop is
\* set, the calls accounted for by nobody are those behind the final flush; until then
\* the writer is alive, and every step hands an unsaved call on to it.
LEMMA NextDue ==
    ASSUME TypeOK, ShutdownInv, UnsavedIsDue, [Next]_vars PROVE UnsavedIsDue'
<1> SUFFICES ASSUME Enabled, NEW c \in mem', c \notin blob', c \notin missed',
                    c \notin erased', ~ BehindFinalFlush(c)'
             PROVE  Due(c)'
  BY DEF UnsavedIsDue
<1>a. ShutdownInv' /\ TypeOK'
  BY NextShutdown, NextType
<1>b. ~ stop'
  BY <1>a DEF ShutdownInv, BehindFinalFlush
<1>c. writer' \in {"top", "waiting", "woken", "clearing", "sleeping", "writing"}
  BY <1>a, <1>b DEF ShutdownInv, TypeOK
<1>d. ~ Crash
  BY DEF Crash
<1>0. c \in mem /\ c \notin blob /\ c \notin missed /\ c \notin erased /\ ~ stop => Due(c)
  BY DEF UnsavedIsDue, BehindFinalFlush
<1> USE <1>b, <1>c DEF Due, WillSnapshot
<1>1. CASE Load
  BY <1>1 DEF Load, FromBlob, mainVars
<1>2. ASSUME NEW d \in Call, Record(d) PROVE Due(c)'
  BY <1>0, <1>2 DEF Record, writerVars
<1>3. ASSUME NEW d \in Call, ScheduleWrite(d) PROVE Due(c)'
  BY <1>0, <1>3 DEF ScheduleWrite, writerVars
<1>4. CASE WriterTop
  BY <1>0, <1>4 DEF WriterTop
<1>5. CASE WriterWake
  BY <1>0, <1>5 DEF WriterWake
<1>6. CASE WriterCheck
  BY <1>0, <1>6 DEF WriterCheck
<1>7. CASE WriterClear
  BY <1>7 DEF WriterClear
<1>8. CASE WriterSnapshot
  BY <1>8 DEF WriterSnapshot
<1>9. CASE WriterWrite
  <2>1. UNCHANGED <<mem, dirty, stop, unscheduled>> /\ wsnap \in SUBSET Call /\ c \in Call
    BY <1>9 DEF WriterWrite, TypeOK
  <2>2. c \notin wsnap
    BY <1>9 DEF WriterWrite, WriteSucceeds, WriteFails
  <2>3. c \notin blob /\ c \notin missed /\ c \notin erased
    BY <1>9, <2>1, <2>2, WriteKeepsDue DEF WriterWrite
  <2> QED BY <1>0, <1>9, <2>1, <2>2, <2>3 DEF WriterWrite
<1>10. CASE ShutdownSnapshot
  BY <1>0, <1>10 DEF ShutdownSnapshot, writerVars
<1>11. CASE ShutdownWrite
  <2>1. /\ UNCHANGED <<mem, dirty, stop, unscheduled, writer, wsnap>>
        /\ msnap \in SUBSET Call /\ c \in Call
    BY <1>11 DEF ShutdownWrite, TypeOK, writerVars
  <2>2. c \notin msnap
    BY <1>11 DEF ShutdownWrite, WriteSucceeds, WriteFails
  <2>3. c \notin blob /\ c \notin missed /\ c \notin erased
    BY <1>11, <2>1, <2>2, WriteKeepsDue DEF ShutdownWrite
  <2> QED BY <1>0, <2>1, <2>3
<1>12. CASE ShutdownStop
  BY <1>12 DEF ShutdownStop
<1>13. CASE ShutdownWake
  BY <1>0, <1>13 DEF ShutdownWake, writerVars
<1>14. CASE UNCHANGED vars
  BY <1>0, <1>14 DEF vars, writerVars
<1> QED
  BY <1>1, <1>2, <1>3, <1>4, <1>5, <1>6, <1>7, <1>8, <1>9, <1>10, <1>11, <1>12, <1>13,
     <1>14, <1>d DEF Next, Writer, Closing

\* A recorded call that is not in the blob is due to a writer that is there to save it,
\* missed, overwritten, or was recorded behind the final flush of a shutdown().
THEOREM NoLostWakeup == Spec => []UnsavedIsDue
<1>1. Init => ShutdownInv /\ UnsavedIsDue
  BY DEF Init, ShutdownInv, UnsavedIsDue
<1>2. TypeOK /\ ShutdownInv /\ [Next]_vars => ShutdownInv'
  BY NextShutdown
<1>3. TypeOK /\ ShutdownInv /\ UnsavedIsDue /\ [Next]_vars => UnsavedIsDue'
  BY NextDue
<1> QED BY <1>1, <1>2, <1>3, TypeCorrect, PTL DEF Spec

-----------------------------------------------------------------------------
(* Saved calls stay saved *)

\* While a process that has read its blob serves, the blob is a part of what the
\* writer is writing, which is a part of what is in memory; and a process that is
\* not loaded has no snapshot in flight.
Growing ==
    /\ ~ loaded => writer = "none" /\ main = "serving" /\ ~ readOk
    /\ main = "serving" /\ readOk =>
          /\ blob \subseteq mem
          /\ writer = "writing" => blob \subseteq wsnap /\ wsnap \subseteq mem

\* Every step keeps the blob a part of what the writer writes next.
LEMMA NextGrowing ==
    ASSUME Growing, [Next]_vars
    PROVE  /\ Growing'
           /\ main = "serving" /\ readOk => blob \subseteq blob'
<1> USE DEF Growing
<1>1. CASE Load
  BY <1>1 DEF Load, FromBlob, mainVars
<1>2. CASE \E c \in Call : Record(c)
  BY <1>2 DEF Record, writerVars, mainVars
<1>3. CASE \E c \in Call : ScheduleWrite(c)
  BY <1>3 DEF ScheduleWrite, writerVars, mainVars
<1>4. CASE WriterTop \/ WriterWake \/ WriterCheck \/ WriterClear
  BY <1>4 DEF WriterTop, WriterWake, WriterCheck, WriterClear, mainVars
<1>5. CASE WriterSnapshot
  BY <1>5 DEF WriterSnapshot, mainVars
<1>6. CASE WriterWrite
  BY <1>6 DEF WriterWrite, WriteSucceeds, WriteFails, mainVars
<1>7. CASE ShutdownSnapshot
  BY <1>7 DEF ShutdownSnapshot, writerVars
<1>8. CASE Closing
  BY <1>8 DEF Closing, ShutdownWrite, ShutdownStop, ShutdownWake, writerVars
<1>9. CASE Crash
  BY <1>9 DEF Crash
<1>10. CASE UNCHANGED vars
  BY <1>10 DEF vars, writerVars, mainVars
<1> QED BY <1>1, <1>2, <1>3, <1>4, <1>5, <1>6, <1>7, <1>8, <1>9, <1>10 DEF Next, Writer

\* While nobody shuts down, a process that read its blob never shrinks it.
THEOREM SavedIsKept == Spec => SavedStaysSaved
<1>1. Init => Growing
  BY DEF Init, Growing
<1>2. Growing /\ [Next]_vars => Growing'
  BY NextGrowing
<1>3. Growing /\ [Next]_vars => [main = "serving" /\ readOk => blob \subseteq blob']_vars
  BY NextGrowing
<1> QED BY <1>1, <1>2, <1>3, PTL DEF Spec, SavedStaysSaved
=============================================================================
