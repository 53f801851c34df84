----------------------- MODULE LocalFileBackendProofs -----------------------
(***************************************************************************)
(* The local-file backend is an atomic blob as long as no two calls of     *)
(* write() overlap, for any set of writers and texts and any number of     *)
(* failures and crashes, whatever step they come in.                       *)
(***************************************************************************)
EXTENDS LocalFileBackend, TLAPS

-----------------------------------------------------------------------------
(* Type correctness, with any number of writers at once *)

LEMMA OpenKeepsType ==
    ASSUME TypeOK, NEW w \in Writer, Open(w)
    PROVE  TypeOK'
<1> USE DEF TypeOK
<1>1. PICK i \in IF tmp = None THEN Inode \ InUse ELSE {tmp} :
          /\ tmp' = i
          /\ data' = [data EXCEPT ![i] = Empty]
          /\ fd' = [fd EXCEPT ![w] = i]
  BY DEF Open
<1>2. i \in Inode /\ i # final /\ i # None
  BY <1>1, SpaceAssumption DEF InUse
<1>3. data' \in [Inode -> [1..2 -> Text \cup {None}]]
  BY <1>1, <1>2 DEF Empty
<1> QED BY <1>1, <1>2, <1>3 DEF Open

LEMMA WritesKeepType ==
    ASSUME TypeOK, NEW w \in Writer, WriteFirst(w) \/ WriteSecond(w)
    PROVE  TypeOK'
<1> USE DEF TypeOK
<1>1. fd[w] \in Inode /\ text[w] \in Text
  BY DEF WriteFirst, WriteSecond
<1>2. data' \in [Inode -> [1..2 -> Text \cup {None}]]
  BY <1>1 DEF WriteFirst, WriteSecond
<1>3. CASE WriteFirst(w)
  BY <1>2, <1>3 DEF WriteFirst
<1>4. CASE WriteSecond(w)
  BY <1>2, <1>4 DEF WriteSecond
<1> QED BY <1>3, <1>4

LEMMA TypeStep == TypeOK /\ [Next]_vars => TypeOK'
<1> SUFFICES ASSUME TypeOK, [Next]_vars PROVE TypeOK'
  OBVIOUS
<1>1. ASSUME NEW w \in Writer, Call(w) PROVE TypeOK'
  BY <1>1, SpaceAssumption DEF Call, TypeOK
<1>2. ASSUME NEW w \in Writer, WriteFails(w) PROVE TypeOK'
  BY <1>2 DEF WriteFails, TypeOK
<1>3. ASSUME NEW w \in Writer, Replace(w) PROVE TypeOK'
  BY <1>3 DEF Replace, TypeOK
<1>4. CASE Crash
  BY <1>4 DEF Crash, TypeOK
<1>5. CASE UNCHANGED vars
  BY <1>5 DEF vars, TypeOK
<1> QED BY <1>1, <1>2, <1>3, <1>4, <1>5, OpenKeepsType, WritesKeepType DEF Next

\* Every variable keeps its type and the two names never share a file, however many
\* calls of write() overlap.
THEOREM TypeCorrect == Spec => []TypeOK
<1>1. Init => TypeOK
  BY DEF Init, TypeOK, Empty
<1> QED BY <1>1, TypeStep, PTL DEF Spec

-----------------------------------------------------------------------------
(* Calls that do not overlap *)

\* Opening truncates a file that is not the blob's own.
LEMMA OpenKeeps ==
    ASSUME BlobInv, Serial, NEW w \in Writer, Open(w)
    PROVE  BlobInv' /\ UNCHANGED <<ReadBack, text>>
<1>1. PICK i \in IF tmp = None THEN Inode \ InUse ELSE {tmp} :
          /\ tmp' = i
          /\ data' = [data EXCEPT ![i] = Empty]
          /\ fd' = [fd EXCEPT ![w] = i]
  BY DEF Open
<1>2. i # final
  BY <1>1 DEF BlobInv, TypeOK, InUse
<1>3. final # None => data'[final] = data[final]
  BY <1>1, <1>2 DEF BlobInv, TypeOK
<1>4. final' = final /\ text' = text /\ pc' = [pc EXCEPT ![w] = "first"]
  BY DEF Open
<1>5. \A v \in Writer : v # w => pc[v] = "idle"
  BY DEF Serial, Open
<1>6. TypeOK'
  BY OpenKeepsType DEF BlobInv
<1>7. \A v \in Writer : /\ pc'[v] = IF v = w THEN "first" ELSE "idle"
                        /\ v = w => fd'[v] = i
  BY <1>1, <1>4, <1>5 DEF BlobInv, TypeOK
<1>8. BlobInv'
  BY <1>1, <1>3, <1>4, <1>6, <1>7 DEF BlobInv, Whole
<1> QED BY <1>3, <1>4, <1>8 DEF ReadBack, Whole, Torn

\* Writing goes to the temporary file.
LEMMA WritesKeep ==
    ASSUME BlobInv, Serial, NEW w \in Writer, WriteFirst(w) \/ WriteSecond(w)
    PROVE  BlobInv' /\ UNCHANGED <<ReadBack, text>>
<1>1. /\ fd[w] = tmp /\ tmp \in Inode /\ tmp # None /\ tmp # final
      /\ pc[w] \in {"first", "second"}
  BY DEF BlobInv, TypeOK, WriteFirst, WriteSecond
<1>2. \A v \in Writer : v # w => pc[v] = "idle"
  BY <1>1 DEF Serial
<1>3. TypeOK'
  BY WritesKeepType DEF BlobInv
<1>4. /\ final # None => data'[final] = data[final]
      /\ UNCHANGED <<tmp, final, text>>
  BY <1>1 DEF BlobInv, TypeOK, WriteFirst, WriteSecond
<1>5. \A v \in Writer : v # w => pc'[v] = "idle"
  BY <1>2 DEF WriteFirst, WriteSecond, BlobInv, TypeOK
<1>6. /\ pc'[w] \in {"first", "second"} => fd'[w] = tmp
      /\ data'[tmp][1] = text[w]
      /\ pc'[w] = "replace" => data'[tmp][2] = text[w]
  <2>1. data[tmp] \in [1..2 -> Text \cup {None}] /\ DOMAIN data = Inode
    BY <1>1 DEF BlobInv, TypeOK
  <2>2. CASE WriteFirst(w)
    BY <1>1, <2>1, <2>2 DEF WriteFirst, BlobInv, TypeOK
  <2>3. CASE WriteSecond(w)
    BY <1>1, <2>1, <2>3 DEF WriteSecond, BlobInv, TypeOK
  <2> QED BY <2>2, <2>3
<1>7. BlobInv'
  BY <1>1, <1>3, <1>4, <1>5, <1>6 DEF BlobInv, Whole
<1> QED BY <1>4, <1>7 DEF ReadBack, Whole, Torn

\* The rename makes the blob the whole of the writer's text.
LEMMA ReplaceKeeps ==
    ASSUME BlobInv, Serial, NEW w \in Writer, Replace(w)
    PROVE  BlobInv' /\ Blob!Commit(w)
<1>1. /\ tmp \in Inode /\ tmp # None /\ text[w] # None
      /\ data[tmp][1] = text[w] /\ data[tmp][2] = text[w]
  BY DEF Replace, BlobInv, TypeOK
<1>2. /\ final' = tmp /\ tmp' = None /\ data' = data
      /\ pc' = [pc EXCEPT ![w] = "idle"]
      /\ text' = [text EXCEPT ![w] = None]
  BY <1>1 DEF Replace
<1>3. \A v \in Writer : pc'[v] = "idle"
  BY <1>2 DEF Serial, Replace, BlobInv, TypeOK
<1>4. TypeOK'
  BY TypeStep DEF BlobInv, Next
<1>5. BlobInv'
  BY <1>1, <1>2, <1>3, <1>4 DEF BlobInv, Whole
<1>6. ReadBack' = text[w]
  BY <1>1, <1>2 DEF ReadBack, Whole
<1> QED BY <1>1, <1>2, <1>5, <1>6 DEF Blob!Commit

\* Every step keeps the invariant, and is a step of the atomic blob or leaves it alone.
LEMMA BlobStep ==
    BlobInv /\ Serial /\ [Next]_vars => BlobInv' /\ [Blob!Next]_<<ReadBack, text>>
<1> SUFFICES ASSUME BlobInv, Serial, [Next]_vars
             PROVE  BlobInv' /\ [Blob!Next]_<<ReadBack, text>>
  OBVIOUS
<1>1. TypeOK'
  BY TypeStep DEF BlobInv
<1>2. ASSUME UNCHANGED <<tmp, final, data>>
      PROVE  /\ UNCHANGED ReadBack
             /\ final # None => Whole(final)' 
  BY <1>2 DEF BlobInv, ReadBack, Whole, Torn
<1>3. ASSUME NEW w \in Writer, Call(w)
      PROVE  BlobInv' /\ Blob!Begin(w)
  <2>1. text[w] = None
    BY <1>3 DEF Call, BlobInv, TypeOK
  <2>2. \A v \in Writer : pc'[v] = IF v = w THEN "open" ELSE pc[v]
    BY <1>3 DEF Call, BlobInv, TypeOK
  <2>3. \A v \in Writer : v # w => text'[v] = text[v]
    BY <1>3 DEF Call, BlobInv, TypeOK
  <2>4. UNCHANGED <<tmp, final, data, fd>>
    BY <1>3 DEF Call
  <2>5. BlobInv'
    BY <1>1, <1>2, <2>2, <2>3, <2>4 DEF BlobInv
  <2> QED BY <1>2, <1>3, <2>1, <2>4, <2>5 DEF Call, Blob!Begin
<1>4. ASSUME NEW w \in Writer, WriteFails(w)
      PROVE  BlobInv' /\ Blob!Fail(w)
  <2>1. \A v \in Writer : pc'[v] = IF v = w THEN "idle" ELSE pc[v]
    BY <1>4 DEF WriteFails, BlobInv, TypeOK
  <2>2. \A v \in Writer : v # w => text'[v] = text[v] /\ fd'[v] = fd[v]
    BY <1>4 DEF WriteFails, BlobInv, TypeOK
  <2>3. UNCHANGED <<tmp, final, data>>
    BY <1>4 DEF WriteFails
  <2>4. BlobInv'
    BY <1>1, <1>2, <2>1, <2>2, <2>3 DEF BlobInv
  <2> QED BY <1>2, <1>4, <2>3, <2>4 DEF WriteFails, Blob!Fail
<1>5. CASE Crash
  <2>1. \A v \in Writer : pc'[v] = "idle"
    BY <1>5 DEF Crash
  <2>2. UNCHANGED <<tmp, final, data>>
    BY <1>5 DEF Crash
  <2>3. BlobInv'
    BY <1>1, <1>2, <2>1, <2>2 DEF BlobInv
  <2>4. Blob!Crash
    BY <1>2, <1>5, <2>2 DEF Crash, Blob!Crash
  <2> QED BY <2>3, <2>4 DEF Blob!Next
<1>6. CASE UNCHANGED vars
  BY <1>1, <1>2, <1>6 DEF vars, BlobInv
<1> QED
  BY <1>3, <1>4, <1>5, <1>6, OpenKeeps, WritesKeep, ReplaceKeeps DEF Next, Blob!Next

\* While calls do not overlap, what a writer has open is the temporary file and the
\* blob's own file is whole.
THEOREM BlobInvariant == Spec /\ []Serial => []BlobInv
<1>1. Init => BlobInv
  BY DEF Init, BlobInv, TypeOK, Empty
<1> QED BY <1>1, BlobStep, PTL DEF Spec

\* state.py:63, "a crash mid-write never leaves a truncated blob", holds of calls that
\* do not overlap.
THEOREM NeverTruncated == Spec /\ []Serial => []NoTruncatedBlob
<1>1. BlobInv => NoTruncatedBlob
  BY DEF BlobInv, NoTruncatedBlob
<1> QED BY <1>1, BlobInvariant, PTL

\* The backend implements the atomic blob as long as calls do not overlap: the rename
\* is the one step that changes what a read returns, and it changes it to the whole of
\* a text some call was given.
THEOREM BlobImplemented == Spec /\ []Serial => ImplementsAtomicBlob
<1>1. Init => Blob!Init
  BY DEF Init, Blob!Init, ReadBack
<1> QED
  BY <1>1, BlobInvariant, BlobStep, PTL DEF Spec, ImplementsAtomicBlob, Blob!Spec
=============================================================================
