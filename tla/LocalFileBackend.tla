-------------------------- MODULE LocalFileBackend --------------------------
(***************************************************************************)
(* The local-file backend (state.py, class LocalFileBackend): write() puts *)
(* the text in <name>.tmp and renames that file over <name>.  A directory  *)
(* entry names an inode; a file that is open stays the same inode when it  *)
(* is renamed.  The text is written in two pieces, so that a crash or      *)
(* another writer can come between them.                                   *)
(***************************************************************************)
EXTENDS Integers, FiniteSets

CONSTANTS
    Writer,     \* threads that may be in write() for this blob at once
    Text,       \* blob texts
    Inode,      \* files
    None

ASSUME SpaceAssumption ==
    /\ IsFiniteSet(Inode) /\ Cardinality(Inode) >= Cardinality(Writer) + 2
    /\ None \notin Inode /\ None \notin Text

VARIABLES
    tmp,        \* inode of <name>.tmp
    final,      \* inode of <name>
    data,       \* the two pieces of each inode
    pc,         \* where each writer is in write()
    fd,         \* the inode each writer has open
    text        \* the text each writer is writing

vars == <<tmp, final, data, pc, fd, text>>

Empty == [piece \in 1..2 |-> None]

Init ==
    /\ tmp = None /\ final = None
    /\ data = [i \in Inode |-> Empty]
    /\ pc = [w \in Writer |-> "idle"]
    /\ fd = [w \in Writer |-> None]
    /\ text = [w \in Writer |-> None]

\* Inodes without a name and without an open descriptor are free.
InUse == {tmp, final} \cup {fd[w] : w \in Writer}

Call(w) ==
    /\ pc[w] = "idle"
    /\ \E t \in Text : text' = [text EXCEPT ![w] = t]
    /\ pc' = [pc EXCEPT ![w] = "open"]
    /\ UNCHANGED <<tmp, final, data, fd>>

\* Fault: the text is written straight to the blob's own file.
OpenFinal(w) ==
    /\ pc[w] = "open"
    /\ \E i \in IF final = None THEN Inode \ InUse ELSE {final} :
          /\ final' = i
          /\ data' = [data EXCEPT ![i] = Empty]
          /\ fd' = [fd EXCEPT ![w] = i]
    /\ tmp' = None
    /\ pc' = [pc EXCEPT ![w] = "first"]
    /\ UNCHANGED text

\* open(tmp, "w"): truncate the file if it exists, create it otherwise.
Open(w) ==
    /\ pc[w] = "open"
    /\ \E i \in IF tmp = None THEN Inode \ InUse ELSE {tmp} :
          /\ tmp' = i
          /\ data' = [data EXCEPT ![i] = Empty]
          /\ fd' = [fd EXCEPT ![w] = i]
    /\ pc' = [pc EXCEPT ![w] = "first"]
    /\ UNCHANGED <<final, text>>

WriteFirst(w) ==
    /\ pc[w] = "first"
    /\ data' = [data EXCEPT ![fd[w]][1] = text[w]]
    /\ pc' = [pc EXCEPT ![w] = "second"]
    /\ UNCHANGED <<tmp, final, fd, text>>

\* The rest of the text, and close.
WriteSecond(w) ==
    /\ pc[w] = "second"
    /\ data' = [data EXCEPT ![fd[w]][2] = text[w]]
    /\ fd' = [fd EXCEPT ![w] = None]
    /\ pc' = [pc EXCEPT ![w] = "replace"]
    /\ UNCHANGED <<tmp, final, text>>

\* open, write, close or rename raises (a full disk): write() raises with the files
\* as they are.
WriteFails(w) ==
    /\ pc[w] # "idle"
    /\ pc' = [pc EXCEPT ![w] = "idle"]
    /\ fd' = [fd EXCEPT ![w] = None]
    /\ text' = [text EXCEPT ![w] = None]
    /\ UNCHANGED <<tmp, final, data>>

\* Fault: the temporary file is linked to the blob's name and not removed.
ReplaceByLink(w) ==
    /\ pc[w] = "replace"
    /\ final' = tmp
    /\ pc' = [pc EXCEPT ![w] = "idle"]
    /\ text' = [text EXCEPT ![w] = None]
    /\ UNCHANGED <<tmp, data, fd>>

\* tmp.replace(path): atomic; FileNotFoundError if another writer has renamed it.
Replace(w) ==
    /\ pc[w] = "replace"
    /\ IF tmp # None THEN final' = tmp /\ tmp' = None
                     ELSE UNCHANGED <<final, tmp>>
    /\ pc' = [pc EXCEPT ![w] = "idle"]
    /\ text' = [text EXCEPT ![w] = None]
    /\ UNCHANGED <<data, fd>>

\* The process dies; the files stay as they are.
Crash ==
    /\ \E w \in Writer : pc[w] # "idle"
    /\ pc' = [w \in Writer |-> "idle"]
    /\ fd' = [w \in Writer |-> None]
    /\ text' = [w \in Writer |-> None]
    /\ UNCHANGED <<tmp, final, data>>

Next ==
    \/ \E w \in Writer : \/ Call(w) \/ Open(w) \/ WriteFirst(w) \/ WriteSecond(w)
                         \/ WriteFails(w) \/ Replace(w)
    \/ Crash

Spec == Init /\ [][Next]_vars
-----------------------------------------------------------------------------
(* Properties *)

\* Every variable has its type; the two names never share a file.
TypeOK ==
    /\ tmp \in Inode \cup {None} /\ final \in Inode \cup {None}
    /\ tmp = final => tmp = None
    /\ data \in [Inode -> [1..2 -> Text \cup {None}]]
    /\ pc \in [Writer -> {"idle", "open", "first", "second", "replace"}]
    /\ fd \in [Writer -> Inode \cup {None}]
    /\ \A w \in Writer : fd[w] # None <=> pc[w] \in {"first", "second"}
    /\ text \in [Writer -> Text \cup {None}]
    /\ \A w \in Writer : text[w] # None <=> pc[w] # "idle"

Whole(i) == data[i][1] # None /\ data[i][1] = data[i][2]

\* What read() returns; a text no write was given when the file is torn.
Torn == data[final]
ReadBack == IF final = None THEN None
            ELSE IF Whole(final) THEN data[final][1] ELSE Torn

Blob == INSTANCE AtomicBlob WITH blob <- ReadBack, writing <- text

\* The calls of write() do not overlap, whichever threads make them.
Serial == \A v, w \in Writer : pc[v] # "idle" /\ pc[w] # "idle" => v = w

\* The inductive invariant of calls that do not overlap: the file a writer has open is
\* the temporary one, which holds what the writer has written of its text so far, and
\* the blob's own file is absent or whole.
BlobInv ==
    /\ TypeOK
    /\ final # None => Whole(final)
    /\ \A w \in Writer :
          /\ pc[w] \in {"first", "second"} => fd[w] = tmp
          /\ pc[w] \in {"second", "replace"} => tmp # None /\ data[tmp][1] = text[w]
          /\ pc[w] = "replace" => data[tmp][2] = text[w]

\* With one writer at a time the backend is an atomic blob: whatever step the
\* process dies in, a read returns all of the last text that was renamed.
ImplementsAtomicBlob == Blob!Spec

\* state.py:63: "so a crash mid-write never leaves a truncated blob": with no
\* write in progress the blob is absent or whole.
NoTruncatedBlob ==
    (\A w \in Writer : pc[w] = "idle") => final = None \/ Whole(final)
=============================================================================
