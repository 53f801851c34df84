------------------------- MODULE RollingWeekCounter -------------------------
(***************************************************************************)
(* The generic per-key weekly counter (counters.py, RollingWeekCounter):   *)
(* independent dimensions, each with a table of keys, a cap, and a bound   *)
(* on the number of keys.  An event passes enforce(), does its work and    *)
(* calls record() with its amount; threads do so concurrently.             *)
(***************************************************************************)
EXTENDS Integers, FiniteSetsExt

CONSTANTS
    Thread,
    Dim,        \* names of the declared dimensions
    Key,        \* identities, of whatever dimension
    NoKey,      \* a dimension's key is absent or None
    Cap,        \* [Dim -> Nat]
    MaxKeys,    \* [Dim -> Nat \ {0}]
    Week,       \* [Instant -> Nat], the calendar
    MaxAmount,  \* the largest amount of one event
    MaxClock,   \* bound on time
    MaxEvents   \* bound on the number of events

Instant == 0..MaxClock

ASSUME SizeAssumption ==
    /\ IsFiniteSet(Thread) /\ Thread # {}
    /\ MaxAmount \in Nat /\ MaxClock \in Nat /\ MaxEvents \in Nat
    /\ NoKey \notin Key
    /\ MaxKeys \in [Dim -> Nat \ {0}]

ASSUME CapAssumption == Cap \in [Dim -> Nat]

ASSUME CalendarAssumption ==
    /\ DOMAIN Week = Instant
    /\ \A s, t \in Instant : /\ Week[s] \in Nat
                             /\ s <= t => Week[s] <= Week[t]

VARIABLES
    enabled,    \* the constructor's `enabled` and `strict` flags
    strict,
    clock,
    table,      \* _tables: for each dimension, key -> its record
    pc,         \* where each thread is
    keys,       \* the keys of the event of each thread
    amount,     \* the amount of the event of each thread
    start,      \* the instant at which enforce() or record() began reading the clock
    events      \* number of events begun, for the bound

flags == <<enabled, strict>>
vars == <<flags, clock, table, pc, keys, amount, start, events>>

\* A key's record.  The rank orders the keys as the dict does, by insertion.
Stat == [amount : Nat, week : Nat, seen : Instant, rank : Nat]

KeyChoice == [Dim -> Key \cup {NoKey}]

-----------------------------------------------------------------------------
\* _current: the tally of a key in a week; a record of another week counts zero.
Current(d, k, week) ==
    IF k \in DOMAIN table[d] /\ table[d][k].week = week THEN table[d][k].amount ELSE 0

\* Fault: only what is recorded is compared, and a cap that is met does not refuse.
OverAbove(d, k, week, incoming) == Current(d, k, week) > Cap[d]

\* Dimension d refuses an event of the given amount.
Over(d, k, week, incoming) ==
    IF strict THEN Current(d, k, week) + incoming > Cap[d]
              ELSE Current(d, k, week) >= Cap[d]

Refused(event, week, incoming) ==
    enabled /\ \E d \in Dim : event[d] # NoKey /\ Over(d, event[d], week, incoming)

\* A new key comes after the keys of the table; one that is there keeps its place.
Rank(f, k) ==
    IF k \in DOMAIN f THEN f[k].rank
    ELSE Min({r \in 0..MaxEvents : \A j \in DOMAIN f : f[j].rank < r})

\* _add: increment the key's tally, or begin a new one on a new week.
Add(d, k, usd, week, now) ==
    IF k = NoKey THEN table[d]
    ELSE [j \in DOMAIN table[d] \cup {k} |->
            IF j # k THEN table[d][j]
            ELSE [amount |-> Current(d, k, week) + usd, week |-> week, seen |-> now,
                  rank |-> Rank(table[d], k)]]

\* In the order in which _trim_table (a stable sort by last_seen) drops records.
Before(r, s) == r.seen < s.seen \/ (r.seen = s.seen /\ r.rank < s.rank)

\* Fault: records are dropped in the order in which their keys were first seen.
TrimFirstSeen(f, n) ==
    [k \in {k \in DOMAIN f :
              Cardinality({j \in DOMAIN f : f[k].rank < f[j].rank}) < n} |-> f[k]]

\* Fault: one key too many is kept.
TrimOneMore(f, n) ==
    [k \in {k \in DOMAIN f :
              Cardinality({j \in DOMAIN f : Before(f[k], f[j])}) <= n} |-> f[k]]

\* _trim_table: keep the n records that come last.
Trim(f, n) ==
    [k \in {k \in DOMAIN f :
              Cardinality({j \in DOMAIN f : Before(f[k], f[j])}) < n} |-> f[k]]

-----------------------------------------------------------------------------
Init ==
    /\ enabled \in BOOLEAN /\ strict \in BOOLEAN
    /\ clock = 0
    /\ table = [d \in Dim |-> <<>>]
    /\ pc = [th \in Thread |-> "idle"]
    /\ keys = [th \in Thread |-> [d \in Dim |-> NoKey]]
    /\ amount = [th \in Thread |-> 0]
    /\ start = [th \in Thread |-> 0]
    /\ events = 0

Tick ==
    /\ clock < MaxClock
    /\ clock' = clock + 1
    /\ UNCHANGED <<flags, table, pc, keys, amount, start, events>>

\* An event arrives: enforce() is about to read the week.
BeginEnforce(th) ==
    /\ pc[th] = "idle"
    /\ events < MaxEvents
    /\ events' = events + 1
    /\ \E event \in KeyChoice : keys' = [keys EXCEPT ![th] = event]
    /\ \E usd \in 0..MaxAmount : amount' = [amount EXCEPT ![th] = usd]
    /\ start' = [start EXCEPT ![th] = clock]
    /\ pc' = [pc EXCEPT ![th] = "enforcing"]
    /\ UNCHANGED <<flags, clock, table>>

Forget(th) ==
    /\ pc' = [pc EXCEPT ![th] = "idle"]
    /\ keys' = [keys EXCEPT ![th] = [d \in Dim |-> NoKey]]
    /\ amount' = [amount EXCEPT ![th] = 0]
    /\ start' = [start EXCEPT ![th] = 0]

\* enforce() under the lock, with the week it read before taking it.
Enforce(th) ==
    /\ pc[th] = "enforcing"
    /\ \E t \in start[th]..clock :
          IF Refused(keys[th], Week[t], amount[th])
          THEN Forget(th)       \* CostCapExceeded
          ELSE /\ pc' = [pc EXCEPT ![th] = "working"]
               /\ start' = [start EXCEPT ![th] = 0]
               /\ UNCHANGED <<keys, amount>>
    /\ UNCHANGED <<flags, clock, table, events>>

\* The work of the admitted event fails and nothing is recorded.
Fail(th) ==
    /\ pc[th] = "working"
    /\ Forget(th)
    /\ UNCHANGED <<flags, clock, table, events>>

\* The event has been accepted: record() is about to read the week.
BeginRecord(th) ==
    /\ pc[th] = "working"
    /\ start' = [start EXCEPT ![th] = clock]
    /\ pc' = [pc EXCEPT ![th] = "recording"]
    /\ UNCHANGED <<flags, clock, table, keys, amount, events>>

\* record() under the lock, with the week and then the time it read before it.
Record(th) ==
    /\ pc[th] = "recording"
    /\ \E t \in start[th]..clock : \E now \in t..clock :
          table' = [d \in Dim |->
                      Trim(Add(d, keys[th][d], amount[th], Week[t], now), MaxKeys[d])]
    /\ Forget(th)
    /\ UNCHANGED <<flags, clock, events>>

Next ==
    \/ Tick
    \/ \E th \in Thread : \/ BeginEnforce(th) \/ Enforce(th) \/ Fail(th)
                          \/ BeginRecord(th) \/ Record(th)

Spec == Init /\ [][Next]_vars
-----------------------------------------------------------------------------
(* Properties *)

\* Every variable has its type; a dimension holds at most its max_keys records.
TypeOK ==
    /\ enabled \in BOOLEAN /\ strict \in BOOLEAN
    /\ clock \in Instant
    /\ DOMAIN table = Dim
    /\ \A d \in Dim :
          /\ DOMAIN table[d] \subseteq Key
          /\ \A k \in DOMAIN table[d] : table[d][k] \in Stat
          /\ IsFiniteSet(DOMAIN table[d])
          /\ Cardinality(DOMAIN table[d]) <= MaxKeys[d]
    /\ pc \in [Thread -> {"idle", "enforcing", "working", "recording"}]
    /\ keys \in [Thread -> KeyChoice]
    /\ amount \in [Thread -> 0..MaxAmount]
    /\ start \in [Thread -> Instant]
    /\ events \in 0..MaxEvents

\* Whatever the interleaving, the rollovers and the evictions, no weekly tally goes
\* beyond its cap by more than the events the other threads can have in flight
\* (strict), or than one event of every thread (lenient).
TallyBounded ==
    enabled => \A d \in Dim : \A k \in DOMAIN table[d] :
        IF strict
        THEN table[d][k].amount <= Cap[d] + MaxAmount * (Cardinality(Thread) - 1)
        ELSE table[d][k].amount < Cap[d] + MaxAmount * Cardinality(Thread)

\* A key's tally is of a week that has begun.
WeekHasBegun == \A d \in Dim : \A k \in DOMAIN table[d] : table[d][k].week <= Week[clock]

\* An admitted event was admitted alone: by itself it respects every cap it counts
\* against, in whatever week it comes to be recorded.
AdmittedAlone ==
    enabled => \A th \in Thread : \A d \in Dim :
        pc[th] \in {"working", "recording"} /\ keys[th][d] # NoKey
            => IF strict THEN amount[th] <= Cap[d] ELSE Cap[d] > 0

\* The threads whose event may yet be added to key k's tally of a week without being
\* compared with that tally: it was admitted, or enforce() may still read an earlier week.
MayAdd(d, k, week) ==
    {th \in Thread :
        /\ keys[th][d] = k
        /\ \/ pc[th] = "enforcing" /\ Week[start[th]] < week
           \/ pc[th] = "working" /\ Week[clock] <= week
           \/ pc[th] = "recording" /\ Week[start[th]] <= week}

\* A tally has room for the largest event of each thread of A, within the cap and the
\* overshoot; in strict mode one of them was compared with the tally, and is counted
\* as it is.
Room(isStrict, amounts, d, tally, A) ==
    LET overshoot(n) == Cap[d] + MaxAmount * (Cardinality(Thread) - n - Cardinality(A))
    IN  IF isStrict
        THEN \/ tally <= overshoot(1)
             \/ \E th \in A : tally + amounts[th] <= overshoot(0)
        ELSE tally < overshoot(0)

ReservedTally ==
    enabled => \A d \in Dim : \A k \in DOMAIN table[d] :
        Room(strict, amount, d, table[d][k].amount, MayAdd(d, k, table[d][k].week))

Busy == {th \in Thread : pc[th] # "idle"}

\* The insertion order is strict, and has a place for the key of every event begun.
RankedInOrder ==
    /\ Cardinality(Busy) <= events
    /\ \A d \in Dim : \A k \in DOMAIN table[d] :
          /\ table[d][k].rank + Cardinality(Busy) < events
          /\ \A j \in DOMAIN table[d] : table[d][j].rank = table[d][k].rank => j = k

\* The inductive invariant behind TallyBounded and EvictsLeastRecent.
WeekInv ==
    /\ TypeOK
    /\ WeekHasBegun
    /\ AdmittedAlone
    /\ ReservedTally
    /\ RankedInOrder

\* A key loses its tally, and with it the memory of what it has spent this week, only
\* in a full dimension and to keys all seen since (counters.py:959), also when the
\* record that evicts carries a time from before its wait for the lock.
EvictsLeastRecent ==
    [][\A d \in Dim : \A k \in DOMAIN table[d] \ DOMAIN table'[d] :
          /\ Cardinality(DOMAIN table'[d]) = MaxKeys[d]
          /\ \A j \in DOMAIN table'[d] : table'[d][j].seen >= table[d][k].seen]_vars
=============================================================================
