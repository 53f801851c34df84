------------------------- MODULE CostCounterProofs -------------------------
(***************************************************************************)
(* CostCounter and CounterRestart for every number of threads, calendar,   *)
(* cap, cost and number of restarts: the types, the exactness of the       *)
(* current totals, the bound on the overshoot of a cap, the alerts, the    *)
(* refinement of AdmissionGate, and what crashes and restarts lose.        *)
(***************************************************************************)
EXTENDS CounterRestart, FiniteSetTheorems, WellFoundedInduction, TLAPS

-----------------------------------------------------------------------------
(* Helpers on buckets *)

\* A nonempty set of naturals has a least element.
LEMMA LeastElement ==
    ASSUME NEW S, S \subseteq Nat, S # {}
    PROVE  \E m \in S : \A x \in S : m <= x
<1> DEFINE R == {ss \in Nat \X Nat : ss[1] < ss[2]}
<1>1. IsWellFoundedOn(R, Nat)
  BY NatLessThanWellFounded DEF OpToRel
<1>2. \A x, y \in Nat : x < y => <<x, y>> \in R
  OBVIOUS
<1> HIDE DEF R
<1>3. \E m \in S : \A x \in S : ~ (<<x, m>> \in R)
  BY <1>1, WFMin
<1>4. PICK m \in S : \A x \in S : ~ (<<x, m>> \in R)
  BY <1>3
<1>5. \A x \in S : ~ (x < m)
  <2>1. SUFFICES ASSUME NEW x \in S, x < m PROVE FALSE
    OBVIOUS
  <2>2. x \in Nat /\ m \in Nat
    OBVIOUS
  <2>3. <<x, m>> \in R
    BY <1>2, <2>1, <2>2, Zenon
  <2> QED BY <1>4, <2>3
<1> QED BY <1>5

\* Trim leaves at most n buckets (_trim).
LEMMA NewestBounded ==
    ASSUME NEW f, IsFiniteSet(DOMAIN f), DOMAIN f \subseteq Nat,
           NEW n \in Nat \ {0}
    PROVE  /\ IsFiniteSet(Newest(f, n))
           /\ Cardinality(Newest(f, n)) <= n
<1> DEFINE S == Newest(f, n)
<1>1. S \subseteq DOMAIN f
  BY DEF Newest
<1>2. IsFiniteSet(S) /\ Cardinality(S) \in Nat
  BY <1>1, FS_Subset, FS_CardinalityType
<1>3. CASE S = {}
  BY <1>3, <1>2, FS_EmptySet
<1>4. CASE S # {}
  <2>1. PICK m \in S : \A x \in S : m <= x
    BY <1>1, <1>4, LeastElement
  <2> DEFINE N == {x \in DOMAIN f : x > m}
  <2>2. IsFiniteSet(N) /\ Cardinality(N) \in Nat /\ Cardinality(N) < n
    <3>1. N \subseteq DOMAIN f  OBVIOUS
    <3>2. IsFiniteSet(N)  BY <3>1, FS_Subset
    <3>3. Cardinality(N) < n  BY <2>1 DEF Newest
    <3> QED BY <3>2, <3>3, FS_CardinalityType
  <2>3. S \ {m} \subseteq N
    BY <1>1, <2>1
  <2>4. Cardinality(S \ {m}) <= Cardinality(N)
    BY <2>2, <2>3, FS_Subset
  <2>5. Cardinality(S \ {m}) = Cardinality(S) - 1
    BY <1>2, <2>1, FS_RemoveElement
  <2> QED BY <1>2, <2>2, <2>4, <2>5
<1> QED BY <1>2, <1>3, <1>4

\* Crediting any bucket that is not in the future changes what is read of the
\* present bucket by exactly the cost credited to it, trimming included.
LEMMA CreditCurrent ==
    ASSUME NEW f, NEW b \in Nat, NEW now \in Nat, b <= now, NEW usd \in Nat,
           NEW n \in Nat \ {0},
           DOMAIN f \subseteq Nat, \A x \in DOMAIN f : f[x] \in Nat /\ x <= now
    PROVE  /\ Get(Trim(Add(f, b, usd), n), now)
                = Get(f, now) + (IF b = now THEN usd ELSE 0)
           /\ DOMAIN Trim(Add(f, b, usd), n) \subseteq DOMAIN f \cup {b}
           /\ \A x \in DOMAIN Trim(Add(f, b, usd), n) :
                 Trim(Add(f, b, usd), n)[x] \in Nat
<1> DEFINE g == Add(f, b, usd)
<1>1. /\ DOMAIN g = DOMAIN f \cup {b}
      /\ \A x \in DOMAIN g : g[x] \in Nat
      /\ \A x \in DOMAIN g : x \in Nat /\ x <= now
      /\ Get(g, now) = Get(f, now) + (IF b = now THEN usd ELSE 0)
  BY DEF Add, Get
<1> HIDE DEF g
<1>2. {x \in DOMAIN g : x > now} = {}
  BY <1>1
<1>3. Cardinality({x \in DOMAIN g : x > now}) < n
  BY <1>2, FS_EmptySet
<1>4. now \in DOMAIN g => now \in Newest(g, n)
  BY <1>3 DEF Newest
<1>5. Newest(g, n) \subseteq DOMAIN g
  BY DEF Newest
<1>6. Get(Trim(g, n), now) = Get(g, now)
  BY <1>4, <1>5 DEF Trim, Get
<1>7. /\ DOMAIN Trim(g, n) \subseteq DOMAIN f \cup {b}
      /\ \A x \in DOMAIN Trim(g, n) : Trim(g, n)[x] \in Nat
  BY <1>1, <1>5 DEF Trim
<1> QED BY <1>1, <1>6, <1>7 DEF g

-----------------------------------------------------------------------------
(* The locked part of record() *)

\* The buckets record() has read lie between its entry and the present.
LEMMA RecordBuckets ==
    ASSUME TypeOK, NEW th \in Thread, Record(th)
    PROVE  /\ pc[th] = "recording"
           /\ \E at \in [Window -> Nat], usd \in 0..MaxCost :
                /\ RecordLocked(th, at, usd)
                /\ \A w \in Window : /\ at[w] \in Buckets(w)
                                     /\ Bucket[w][start[th]] <= at[w]
                                     /\ at[w] <= Now(w)
<1>1. clock \in Instant /\ start[th] \in Instant /\ MaxClock \in Nat
  BY SizeAssumption DEF TypeOK
<1>2. PICK hour \in start[th]..clock, today \in start[th]..clock,
           week \in start[th]..clock, usd \in 0..MaxCost :
        RecordLocked(th, [hourly |-> Bucket["hourly"][hour],
                          daily  |-> Bucket["daily"][today],
                          weekly |-> Bucket["weekly"][week]], usd)
  BY <1>1 DEF Record, Instant
<1>3. hour \in Instant /\ today \in Instant /\ week \in Instant
  BY <1>1, <1>2 DEF Instant
<1> DEFINE at == [hourly |-> Bucket["hourly"][hour],
                  daily  |-> Bucket["daily"][today],
                  weekly |-> Bucket["weekly"][week]]
<1>4. \A w \in Window : \A t \in start[th]..clock :
         /\ Bucket[w][t] \in Buckets(w)
         /\ Bucket[w][t] \in Nat
         /\ Bucket[w][start[th]] <= Bucket[w][t]
         /\ Bucket[w][t] <= Now(w)
  <2> SUFFICES ASSUME NEW w \in Window, NEW t \in start[th]..clock
               PROVE  /\ Bucket[w][t] \in Buckets(w)
                      /\ Bucket[w][t] \in Nat
                      /\ Bucket[w][start[th]] <= Bucket[w][t]
                      /\ Bucket[w][t] <= Now(w)
    OBVIOUS
  <2>1. t \in Instant /\ start[th] <= t /\ t <= clock
    BY <1>1 DEF Instant
  <2> QED BY <1>1, <2>1, CalendarAssumption DEF Buckets, Now
<1>5. at \in [Window -> Nat]
  BY <1>2, <1>4 DEF Window
<1>6. \A w \in Window : /\ at[w] \in Buckets(w)
                        /\ Bucket[w][start[th]] <= at[w]
                        /\ at[w] <= Now(w)
  BY <1>2, <1>4 DEF Window
<1>7. pc[th] = "recording"
  BY DEF Record
<1> QED BY <1>2, <1>5, <1>6, <1>7

-----------------------------------------------------------------------------
(* Type correctness *)

\* The buckets of a window are numbers.
LEMMA BucketsType ==
    \A w \in Window : Buckets(w) \subseteq Nat
BY CalendarAssumption DEF Buckets

\* The present bucket of a window is a bucket, and a number.
LEMMA NowType ==
    ASSUME clock \in Instant
    PROVE  \A w \in Window : Now(w) \in Buckets(w) /\ Now(w) \in Nat
BY CalendarAssumption DEF Buckets, Now

\* A counter that has just been constructed is well-typed.
LEMMA InitType == Init => TypeOK
<1> SUFFICES ASSUME Init PROVE TypeOK
  OBVIOUS
<1>1. \A w \in Window : DOMAIN total[w] = {}
  BY DEF Init
<1>2. \A w \in Window : Cardinality(DOMAIN total[w]) <= Keep[w]
  BY <1>1, FS_EmptySet, CapAssumption
<1>3. clock \in Instant /\ calls \in 0..MaxCalls /\ start \in [Thread -> Instant]
  BY SizeAssumption DEF Init, Instant
<1> QED BY <1>1, <1>2, <1>3 DEF Init, TypeOK, Identity

\* Recording keeps the types, the bound on the history of each window included.
LEMMA RecordType ==
    ASSUME TypeOK, NEW th \in Thread, Record(th)
    PROVE  TypeOK'
<1>1. PICK at \in [Window -> Nat], usd \in 0..MaxCost :
        /\ RecordLocked(th, at, usd)
        /\ \A w \in Window : at[w] \in Buckets(w) /\ at[w] <= Now(w)
  BY RecordBuckets
<1>2. usd \in Nat
  BY SizeAssumption
<1>3. /\ DOMAIN total' = Window
      /\ \A w \in Window : total'[w] = Trim(Add(total[w], at[w], usd), Keep[w])
  BY <1>1 DEF RecordLocked, Credited
<1>4. ASSUME NEW w \in Window
      PROVE  /\ DOMAIN total'[w] \subseteq Buckets(w)
             /\ \A b \in DOMAIN total'[w] : total'[w][b] \in Nat
             /\ Cardinality(DOMAIN total'[w]) <= Keep[w]
  <2> DEFINE g == Add(total[w], at[w], usd)
  <2>1. /\ DOMAIN g = DOMAIN total[w] \cup {at[w]}
        /\ \A b \in DOMAIN g : g[b] \in Nat
    BY <1>2 DEF TypeOK, Add, Get
  <2>2. DOMAIN g \subseteq Buckets(w) /\ DOMAIN g \subseteq Nat
    BY <1>1, <2>1, BucketsType DEF TypeOK
  <2>3. IsFiniteSet(Instant)
    BY SizeAssumption, FS_Interval DEF Instant
  <2>4. IsFiniteSet(Buckets(w))
    <3> DEFINE bucketAt == [t \in Instant |-> Bucket[w][t]]
    <3>1. bucketAt \in Surjection(Instant, Buckets(w))
      BY DEF Surjection, Buckets
    <3> QED BY <2>3, <3>1, FS_Surjection
  <2>5. IsFiniteSet(DOMAIN g)
    BY <2>2, <2>4, FS_Subset
  <2>6. Keep[w] \in Nat \ {0}
    BY CapAssumption
  <2> HIDE DEF g
  <2>7. Cardinality(Newest(g, Keep[w])) <= Keep[w]
    BY <2>2, <2>5, <2>6, NewestBounded
  <2>8. total'[w] = [b \in Newest(g, Keep[w]) |-> g[b]]
    BY <1>3 DEF Trim, g
  <2> QED BY <2>1, <2>2, <2>7, <2>8 DEF Newest
<1>5. /\ DOMAIN stat' \subseteq Token
      /\ \A tk \in DOMAIN stat' : stat'[tk] \in [usd : Nat, week : Buckets("weekly")]
  <2>1. stat' = Stat(caller[th], at["weekly"], usd)
    BY <1>1 DEF RecordLocked
  <2>2. caller[th] \in Token \cup {NoToken}
    BY DEF TypeOK, Identity
  <2>3. Tally(caller[th], at["weekly"]) \in Nat
    BY DEF TypeOK, Tally
  <2>4. at["weekly"] \in Buckets("weekly")
    BY <1>1 DEF Window
  <2> QED BY <1>2, <2>1, <2>2, <2>3, <2>4 DEF TypeOK, Stat
<1>6. /\ alerted' \subseteq LatchKey
      /\ pending' \in [Thread -> SUBSET LatchKey]
  BY <1>1 DEF TypeOK, RecordLocked, Trips, Latch
<1>7. /\ DOMAIN guarded' = Window /\ DOMAIN outside' = Window
      /\ \A w \in Window : /\ guarded'[w] \in [Buckets(w) -> Nat]
                           /\ outside'[w] \in [Buckets(w) -> Nat]
  BY <1>1, <1>2 DEF TypeOK, RecordLocked, Plus
<1>8. start' \in [Thread -> Instant]
  BY <1>1, SizeAssumption DEF TypeOK, RecordLocked, Instant
<1>9. /\ clock' \in Instant
      /\ pc' \in [Thread -> {"idle", "calling", "recording", "delivering"}]
      /\ caller' \in [Thread -> Identity]
      /\ admitted' \subseteq Thread
      /\ attempted' \subseteq LatchKey
      /\ calls' \in 0..MaxCalls
  BY <1>1 DEF TypeOK, RecordLocked, Identity
<1> QED BY <1>3, <1>4, <1>5, <1>6, <1>7, <1>8, <1>9
        DEF TypeOK, Identity, Instant, LatchKey, Buckets

\* No step of the clock or of a thread breaks the types.
LEMMA NextType ==
    ASSUME TypeOK, [Next]_vars PROVE TypeOK'
<1>1. CASE Tick
  BY <1>1, SizeAssumption
  DEF TypeOK, Tick, Instant, counterVars, historyVars
<1>2. ASSUME NEW th \in Thread, NEW tk \in Identity, Enforce(th, tk)
      PROVE  TypeOK'
  <2>1. /\ pc' \in [Thread -> {"idle", "calling", "recording", "delivering"}]
        /\ caller' \in [Thread -> Identity]
        /\ admitted' \subseteq Thread
        /\ calls' \in 0..MaxCalls
    BY <1>2, SizeAssumption DEF TypeOK, Enforce
  <2>2. UNCHANGED <<clock, total, stat, alerted, start, pending, guarded, outside,
                    attempted>>
    BY <1>2 DEF Enforce, counterVars, historyVars
  <2> QED BY <2>1, <2>2 DEF TypeOK
<1>3. ASSUME NEW th \in Thread, NEW tk \in Identity, BeginRecordUsage(th, tk)
      PROVE  TypeOK'
  BY <1>3, SizeAssumption
  DEF TypeOK, BeginRecordUsage, Identity, counterVars,
      historyVars
<1>4. ASSUME NEW th \in Thread, Abandon(th)
      PROVE  TypeOK'
  BY <1>4 DEF TypeOK, Abandon, Identity, counterVars,
              historyVars
<1>5. ASSUME NEW th \in Thread, BeginRecord(th)
      PROVE  TypeOK'
  BY <1>5 DEF TypeOK, BeginRecord, Identity, counterVars,
              historyVars
<1>6. ASSUME NEW th \in Thread, Deliver(th)
      PROVE  TypeOK'
  BY <1>6 DEF TypeOK, Deliver, Identity, counterVars
<1>7. ASSUME NEW th \in Thread, Return(th)
      PROVE  TypeOK'
  BY <1>7 DEF TypeOK, Return, Identity, counterVars,
              historyVars
<1>8. CASE UNCHANGED vars
  BY <1>8 DEF TypeOK, vars, Identity, counterVars,
              historyVars
<1> QED
  BY <1>1, <1>2, <1>3, <1>4, <1>5, <1>6, <1>7, <1>8, RecordType
  DEF Next, Step, Refuse

\* Every variable keeps its type and every window its bounded history.
THEOREM TypeCorrect == Spec => []TypeOK
<1>1. Init => TypeOK
  BY InitType
<1>2. TypeOK /\ [Next]_vars => TypeOK'
  BY NextType
<1> QED BY <1>1, <1>2, PTL DEF Spec

-----------------------------------------------------------------------------
(* The inductive invariant of spend *)

\* More calls in flight set aside at least as much money.
LEMMA TimesMonotone ==
    ASSUME NEW m \in Nat, NEW a \in Nat, NEW b \in Nat, a <= b
    PROVE  m * a \in Nat /\ m * b \in Nat /\ m * a <= m * b
OBVIOUS

\* The money set aside for a calls is that for one fewer plus one call.
LEMMA TimesLess ==
    ASSUME NEW m \in Nat, NEW a \in Nat, a > 0
    PROVE  m * (a - 1) \in Nat /\ m * a \in Nat /\ m * (a - 1) + m = m * a
OBVIOUS

\* The number of calls in flight is a number, at most that of the threads.
LEMMA ThreadsFinite ==
    ASSUME TypeOK
    PROVE  /\ Cardinality(Thread) \in Nat
           /\ \A S \in SUBSET Thread :
                 /\ IsFiniteSet(S)
                 /\ Cardinality(S) \in Nat
                 /\ Cardinality(S) <= Cardinality(Thread)
BY SizeAssumption, FS_Subset, FS_CardinalityType

\* What the steps of the clock and the threads preserve whatever was lost before: the
\* types, where the calls are, and that the future is empty.
TimeInv == TypeOK /\ InFlight /\ FutureEmpty

\* The present totals, and m that memory does not hold, are all that was recorded.
Gap(m) ==
    \A w \in Window :
        Get(total[w], Now(w)) + m[w][Now(w)] = guarded[w][Now(w)] + outside[w][Now(w)]

\* The money set aside stays within the bound and s.
Held(s) ==
    Enabled => \A w \in Window : \A b \in Buckets(w) :
        guarded[w][b] + MaxCost * Cardinality(MayCredit(w, b))
            < Cap[w] + MaxCost * Cardinality(Thread) + s[w][b]

\* USD of a history are numbers.
LEMMA HistoryType ==
    ASSUME NEW m, IsHistory(m), NEW w \in Window, NEW b \in Buckets(w)
    PROVE  m[w][b] \in Nat
BY DEF IsHistory

LEMMA NothingType ==
    IsHistory(Nothing) /\ \A w \in Window : \A b \in Buckets(w) : Nothing[w][b] = 0
BY DEF Nothing, IsHistory

\* A counter that has lost nothing has the inductive invariant of spend.
LEMMA SpendIsLossless ==
    ASSUME TypeOK
    PROVE  SpendInv <=> TimeInv /\ Gap(Nothing) /\ Held(Nothing)
<1>1. CurrentTotalsExact <=> Gap(Nothing)
  <2> SUFFICES ASSUME NEW w \in Window
               PROVE  Get(total[w], Now(w)) + Nothing[w][Now(w)] = Get(total[w], Now(w))
    BY DEF CurrentTotalsExact, Gap
  <2>1. Nothing[w][Now(w)] = 0
    BY NothingType, NowType DEF TypeOK
  <2>2. Get(total[w], Now(w)) \in Nat
    BY DEF TypeOK, Get
  <2> QED BY <2>1, <2>2
<1>2. ReservedSpendBounded <=> Held(Nothing)
  <2> SUFFICES ASSUME NEW w \in Window, NEW b \in Buckets(w)
               PROVE  Cap[w] + MaxCost * Cardinality(Thread) + Nothing[w][b]
                         = Cap[w] + MaxCost * Cardinality(Thread)
    BY DEF ReservedSpendBounded, Held
  <2>1. Nothing[w][b] = 0
    BY NothingType
  <2>2. Cap[w] \in Nat /\ MaxCost * Cardinality(Thread) \in Nat
    BY CapAssumption, SizeAssumption, ThreadsFinite, TimesMonotone
  <2> QED BY <2>1, <2>2
<1> QED BY <1>1, <1>2 DEF SpendInv, TimeInv

\* If no call is admitted and nothing is credited to an admitted call, the money
\* set aside can only shrink.
LEMMA ReservedShrinks ==
    ASSUME TimeInv, TypeOK', guarded' = guarded, NEW s, IsHistory(s), Held(s),
           \A w \in Window : \A b \in Buckets(w) :
              MayCredit(w, b)' \subseteq MayCredit(w, b)
    PROVE  Held(s)'
<1> SUFFICES ASSUME Enabled, NEW w \in Window, NEW b \in Buckets(w)
             PROVE  guarded[w][b] + MaxCost * Cardinality(MayCredit(w, b)')
                       < Cap[w] + MaxCost * Cardinality(Thread) + s[w][b]
  BY DEF Held
<1>1. MayCredit(w, b) \in SUBSET Thread
  BY DEF MayCredit, TimeInv, TypeOK
<1>2. /\ Cardinality(MayCredit(w, b)) \in Nat
      /\ Cardinality(MayCredit(w, b)') \in Nat
      /\ Cardinality(MayCredit(w, b)') <= Cardinality(MayCredit(w, b))
      /\ Cardinality(Thread) \in Nat
  BY <1>1, ThreadsFinite, FS_Subset, FS_CardinalityType DEF TimeInv
<1>3. /\ MaxCost * Cardinality(MayCredit(w, b)') \in Nat
      /\ MaxCost * Cardinality(MayCredit(w, b)) \in Nat
      /\ MaxCost * Cardinality(MayCredit(w, b)')
           <= MaxCost * Cardinality(MayCredit(w, b))
      /\ MaxCost * Cardinality(Thread) \in Nat
  BY <1>2, SizeAssumption, TimesMonotone
<1>4. guarded[w][b] + MaxCost * Cardinality(MayCredit(w, b))
        < Cap[w] + MaxCost * Cardinality(Thread) + s[w][b]
  BY DEF Held
<1>5. guarded[w][b] \in Nat /\ Cap[w] \in Nat /\ s[w][b] \in Nat
  BY CapAssumption, HistoryType DEF TimeInv, TypeOK
<1> QED BY <1>3, <1>4, <1>5

\* Nothing is recorded and no call is in flight in a new counter.
LEMMA InitSpend == Init => SpendInv
<1> SUFFICES ASSUME Init PROVE SpendInv
  OBVIOUS
<1>1. TypeOK
  BY InitType
<1>2. InFlight /\ FutureEmpty
  BY DEF Init, InFlight, FutureEmpty
<1>3. CurrentTotalsExact
  BY <1>1, NowType DEF Init, CurrentTotalsExact, Get, TypeOK
<1>4. ReservedSpendBounded
  <2> SUFFICES ASSUME NEW w \in Window, NEW b \in Buckets(w)
               PROVE  guarded[w][b] + MaxCost * Cardinality(MayCredit(w, b))
                         < Cap[w] + MaxCost * Cardinality(Thread)
    BY DEF ReservedSpendBounded
  <2>1. MayCredit(w, b) = {}
    BY DEF Init, MayCredit
  <2>2. Cardinality(MayCredit(w, b)) = 0
    BY <2>1, FS_EmptySet
  <2>3. MaxCost * Cardinality(Thread) \in Nat /\ MaxCost * 0 = 0
    BY <1>1, ThreadsFinite, SizeAssumption, TimesMonotone
  <2>4. guarded[w][b] = 0 /\ Cap[w] \in Nat /\ Cap[w] > 0
    BY CapAssumption DEF Init
  <2> QED BY <2>2, <2>3, <2>4
<1> QED BY <1>1, <1>2, <1>3, <1>4 DEF SpendInv

\* The present bucket of every window moves on, or stays.
LEMMA TickNow ==
    ASSUME TypeOK, TypeOK', Tick
    PROVE  /\ clock \in Instant /\ clock' \in Instant
           /\ clock' = clock + 1 /\ clock \in Int
           /\ UNCHANGED <<total, guarded, outside, pc, start, admitted>>
           /\ \A w \in Window : /\ Now(w) \in Nat /\ Now(w)' \in Nat
                                /\ Now(w) <= Now(w)'
                                /\ Now(w)' \in Buckets(w)
<1>1. /\ clock \in Instant /\ clock' \in Instant
      /\ clock' = clock + 1 /\ clock \in Int
  BY DEF TypeOK, Tick, Instant
<1>2. \A w \in Window : /\ Now(w) \in Nat /\ Now(w)' \in Nat
                        /\ Now(w) <= Now(w)'
                        /\ Now(w)' \in Buckets(w)
  BY <1>1, CalendarAssumption DEF Now, Buckets
<1> QED BY <1>1, <1>2 DEF Tick, counterVars, historyVars

\* The clock moves on.
LEMMA TickTime == ASSUME TimeInv, TypeOK', Tick PROVE TimeInv'
<1>1. /\ clock \in Instant /\ clock' = clock + 1 /\ clock \in Int
      /\ UNCHANGED <<total, guarded, outside, pc, start, admitted>>
      /\ \A w \in Window : Now(w) \in Nat /\ Now(w)' \in Nat /\ Now(w) <= Now(w)'
  BY TickNow DEF TimeInv
<1>2. InFlight'
  BY <1>1, SizeAssumption DEF TimeInv, InFlight, TypeOK, Instant
<1>3. FutureEmpty'
  <2> SUFFICES ASSUME NEW w \in Window
               PROVE  /\ \A b \in DOMAIN total[w] : b <= Now(w)'
                      /\ \A b \in Buckets(w) :
                            b > Now(w)' => guarded[w][b] = 0 /\ outside[w][b] = 0
    BY <1>1 DEF FutureEmpty
  <2>1. Buckets(w) \subseteq Nat /\ DOMAIN total[w] \subseteq Nat
    BY BucketsType DEF TimeInv, TypeOK
  <2> QED BY <1>1, <2>1 DEF TimeInv, FutureEmpty
<1> QED BY <1>2, <1>3 DEF TimeInv

\* The buckets that become present are empty, and nothing of them is missing.
LEMMA TickGap ==
    ASSUME TimeInv, TypeOK', Tick, NEW m, IsHistory(m), Gap(m),
           \A w \in Window : \A b \in Buckets(w) : b > Now(w) => m[w][b] = 0
    PROVE  Gap(m)'
<1>1. /\ UNCHANGED <<total, guarded, outside>>
      /\ \A w \in Window : /\ Now(w) \in Nat /\ Now(w)' \in Nat
                           /\ Now(w) <= Now(w)' /\ Now(w)' \in Buckets(w)
  BY TickNow DEF TimeInv
<1> SUFFICES ASSUME NEW w \in Window
             PROVE  Get(total[w], Now(w)') + m[w][Now(w)']
                        = guarded[w][Now(w)'] + outside[w][Now(w)']
  BY <1>1 DEF Gap
<1>2. CASE Now(w)' = Now(w)
  BY <1>2 DEF Gap
<1>3. CASE Now(w)' > Now(w)
  <2>1. guarded[w][Now(w)'] = 0 /\ outside[w][Now(w)'] = 0 /\ m[w][Now(w)'] = 0
    BY <1>1, <1>3 DEF TimeInv, FutureEmpty
  <2>2. Now(w)' \notin DOMAIN total[w]
    BY <1>1, <1>3 DEF TimeInv, FutureEmpty
  <2> QED BY <2>1, <2>2 DEF Get
<1> QED BY <1>1, <1>2, <1>3

\* An admitted call that is still calling the provider will be credited later.
LEMMA TickHeld ==
    ASSUME TimeInv, TypeOK', Tick, NEW s, IsHistory(s), Held(s)
    PROVE  Held(s)'
<1>1. /\ clock \in Instant /\ clock' \in Instant
      /\ clock' = clock + 1 /\ clock \in Int
      /\ UNCHANGED <<guarded, pc, start, admitted>>
  BY TickNow DEF TimeInv
<1>2. ASSUME NEW w \in Window, NEW b \in Buckets(w), NEW th \in MayCredit(w, b)'
      PROVE  th \in MayCredit(w, b)
  <2>1. th \in admitted /\ th \in Thread /\ Bucket[w][Earliest(th)'] <= b
    BY <1>1, <1>2 DEF MayCredit, TimeInv, TypeOK
  <2>2. /\ Earliest(th) \in Instant /\ Earliest(th)' \in Instant
        /\ Earliest(th) <= Earliest(th)'
    BY <1>1, <2>1, SizeAssumption DEF Earliest, TimeInv, TypeOK, Instant
  <2>3. /\ Bucket[w][Earliest(th)] \in Nat /\ Bucket[w][Earliest(th)'] \in Nat
        /\ Bucket[w][Earliest(th)] <= Bucket[w][Earliest(th)'] /\ b \in Nat
    BY <2>2, CalendarAssumption, BucketsType
  <2> QED BY <2>1, <2>3 DEF MayCredit
<1> QED BY <1>1, <1>2, ReservedShrinks

\* What a call that enforce() lets pass finds: every current window under its cap, but
\* for what is missing of it.
LEMMA AdmissionWithin ==
    ASSUME TimeInv, NEW m, IsHistory(m), Gap(m), Enabled, NEW tk \in Identity, ~ Refused(tk),
           NEW w \in Window
    PROVE  guarded[w][Now(w)] < Cap[w] + m[w][Now(w)]
<1>1. Get(total[w], Now(w)) + m[w][Now(w)] = guarded[w][Now(w)] + outside[w][Now(w)]
  BY DEF Gap
<1>2. /\ guarded[w][Now(w)] \in Nat /\ outside[w][Now(w)] \in Nat /\ Cap[w] \in Nat
      /\ m[w][Now(w)] \in Nat /\ Get(total[w], Now(w)) \in Nat
  BY NowType, CapAssumption, HistoryType DEF TimeInv, TypeOK, Get
<1>3. ~ (Get(total[w], Now(w)) >= Cap[w])
  BY DEF Refused
<1> QED BY <1>1, <1>2, <1>3

LEMMA AdmissionUnderCap ==
    ASSUME SpendInv, Enabled, NEW tk \in Identity, ~ Refused(tk), NEW w \in Window
    PROVE  guarded[w][Now(w)] < Cap[w]
<1>1. TimeInv /\ Gap(Nothing)
  BY SpendIsLossless DEF SpendInv
<1>2. Nothing[w][Now(w)] = 0 /\ Cap[w] \in Nat
  BY NothingType, NowType, CapAssumption DEF SpendInv, TypeOK
<1>3. guarded[w][Now(w)] < Cap[w] + Nothing[w][Now(w)]
  BY <1>1, NothingType, AdmissionWithin
<1> QED BY <1>2, <1>3

\* Admission: the present bucket is under its cap, so the cap plus one call per
\* thread covers every call in flight; later buckets are still empty.
LEMMA EnforceHeld ==
    ASSUME TimeInv, TypeOK', NEW th \in Thread, NEW tk \in Identity, Enforce(th, tk),
           NEW s, IsHistory(s), Held(s),
           Enabled => \A w \in Window : guarded[w][Now(w)] < Cap[w] + s[w][Now(w)]
    PROVE  Held(s)'
<1>1. UNCHANGED <<clock, total, guarded, outside, start>>
  BY DEF Enforce, counterVars, historyVars
<1>2. /\ pc' = [pc EXCEPT ![th] = "calling"]
      /\ admitted' = admitted \cup {th}
      /\ pc[th] = "idle"
  BY DEF Enforce
<1> SUFFICES ASSUME Enabled, NEW w \in Window, NEW b \in Buckets(w)
             PROVE  guarded[w][b] + MaxCost * Cardinality(MayCredit(w, b)')
                       < Cap[w] + MaxCost * Cardinality(Thread) + s[w][b]
  BY <1>1 DEF Held
<1>3. /\ Now(w) \in Nat /\ b \in Nat /\ Now(w) \in Buckets(w) /\ s[w][b] \in Nat
      /\ guarded[w][b] \in Nat /\ Cap[w] \in Nat \ {0} /\ MaxCost \in Nat
  BY NowType, BucketsType, CapAssumption, SizeAssumption, HistoryType DEF TimeInv, TypeOK
<1>4. MayCredit(w, b)' \in SUBSET Thread
  BY DEF MayCredit, TypeOK
<1>5. /\ MaxCost * Cardinality(MayCredit(w, b)') \in Nat
      /\ MaxCost * Cardinality(Thread) \in Nat
      /\ MaxCost * Cardinality(MayCredit(w, b)') <= MaxCost * Cardinality(Thread)
  BY <1>3, <1>4, ThreadsFinite, TimesMonotone DEF TimeInv
<1>6. CASE b < Now(w)
  <2>1. MayCredit(w, b)' = MayCredit(w, b)
    <3>1. Earliest(th)' = clock
      BY <1>1, <1>2 DEF Earliest, TimeInv, TypeOK
    <3>2. ~ (Bucket[w][clock] <= b)
      BY <1>3, <1>6 DEF Now
    <3>3. \A u \in Thread \ {th} : Earliest(u)' = Earliest(u)
      BY <1>1, <1>2 DEF Earliest, TimeInv, TypeOK
    <3>4. th \notin admitted /\ admitted \subseteq Thread
      BY <1>2 DEF TimeInv, InFlight, TypeOK
    <3> QED BY <1>2, <3>1, <3>2, <3>3, <3>4 DEF MayCredit
  <2> QED BY <2>1 DEF Held
<1>7. CASE b = Now(w)
  BY <1>3, <1>5, <1>7
<1>8. CASE b > Now(w)
  BY <1>3, <1>5, <1>8 DEF TimeInv, FutureEmpty
<1> QED BY <1>3, <1>6, <1>7, <1>8

\* The steps of a thread that records nothing.
LEMMA QuietTime ==
    ASSUME TimeInv, TypeOK', NEW th \in Thread,
           \/ Abandon(th) \/ BeginRecord(th) \/ Deliver(th) \/ Return(th)
           \/ \E tk \in Identity : Enforce(th, tk) \/ BeginRecordUsage(th, tk)
    PROVE  TimeInv' /\ UNCHANGED <<clock, total, guarded, outside>>
<1>1. UNCHANGED <<clock, total, guarded, outside>>
  BY DEF Abandon, BeginRecord, Deliver, Return, Enforce, BeginRecordUsage, counterVars,
         historyVars
<1>2. clock \in Instant /\ clock \in Int
  BY DEF TimeInv, TypeOK, Instant
<1>3. InFlight'
  <2>1. CASE BeginRecord(th)
    BY <1>2, <2>1 DEF TimeInv, InFlight, TypeOK, BeginRecord, Instant
  <2>2. CASE \E tk \in Identity : BeginRecordUsage(th, tk)
    BY <1>2, <2>2 DEF TimeInv, InFlight, TypeOK, BeginRecordUsage, Instant
  <2>3. CASE Abandon(th)
    BY <2>3 DEF TimeInv, InFlight, TypeOK, Abandon
  <2>4. CASE Deliver(th)
    BY <2>4 DEF TimeInv, InFlight, TypeOK, Deliver
  <2>5. CASE Return(th)
    BY <2>5 DEF TimeInv, InFlight, TypeOK, Return
  <2>6. CASE \E tk \in Identity : Enforce(th, tk)
    BY <2>6 DEF TimeInv, InFlight, TypeOK, Enforce
  <2> QED BY <2>1, <2>2, <2>3, <2>4, <2>5, <2>6
<1>4. FutureEmpty'
  BY <1>1 DEF TimeInv, FutureEmpty, Now
<1> QED BY <1>1, <1>3, <1>4 DEF TimeInv

\* A call ends, enters record(), or is delivering: no total changes and no thread
\* can be credited earlier than before.
LEMMA QuietHeld ==
    ASSUME TimeInv, TypeOK', NEW th \in Thread,
           \/ Abandon(th) \/ BeginRecord(th) \/ Deliver(th) \/ Return(th)
           \/ \E tk \in Identity : BeginRecordUsage(th, tk),
           NEW s, IsHistory(s), Held(s)
    PROVE  Held(s)'
<1>1. UNCHANGED <<clock, total, guarded, outside>>
  BY DEF Abandon, BeginRecord, Deliver, Return, BeginRecordUsage, counterVars, historyVars
<1>2. ASSUME NEW u \in admitted'
      PROVE  u \in admitted /\ Earliest(u)' = Earliest(u)
  <2>1. u \in admitted /\ u \in Thread
    BY <1>2 DEF TimeInv, TypeOK, Abandon, BeginRecord, Deliver, Return, BeginRecordUsage
  <2>2. pc[u] \in {"calling", "recording"}
    BY <2>1 DEF TimeInv, InFlight
  <2>3. CASE u # th
    BY <1>1, <2>1, <2>3
    DEF Earliest, TimeInv, TypeOK, Abandon, BeginRecord, Deliver, Return,
        BeginRecordUsage
  <2>4. CASE u = th
    <3>1. BeginRecord(th)
      BY <1>2, <2>2, <2>4 DEF Abandon, Deliver, Return, BeginRecordUsage
    <3>2. pc[th] = "calling" /\ pc'[th] = "recording" /\ start'[th] = clock
      BY <3>1 DEF BeginRecord, TimeInv, TypeOK
    <3> QED BY <1>1, <2>1, <2>4, <3>2 DEF Earliest
  <2> QED BY <2>1, <2>3, <2>4
<1> QED BY <1>1, <1>2, ReservedShrinks DEF MayCredit

\* What the locked part of record() does to the totals and the histories, for a cost usd
\* in the buckets `at`, which are none of the future.
Recording(th, at, usd) ==
    /\ RecordLocked(th, at, usd)
    /\ \A w \in Window : /\ at[w] \in Buckets(w) /\ at[w] \in Nat
                         /\ Bucket[w][start[th]] <= at[w]
                         /\ at[w] <= Now(w)
    /\ usd \in Nat /\ usd <= MaxCost
    /\ pc[th] = "recording" /\ clock' = clock
    /\ \A w \in Window : \A b \in Buckets(w) :
          /\ guarded'[w][b] =
                guarded[w][b] + (IF th \in admitted /\ b = at[w] THEN usd ELSE 0)
          /\ outside'[w][b] =
                outside[w][b] + (IF th \notin admitted /\ b = at[w] THEN usd ELSE 0)
    /\ \A w \in Window :
          /\ Get(total'[w], Now(w))
                = Get(total[w], Now(w)) + (IF at[w] = Now(w) THEN usd ELSE 0)
          /\ DOMAIN total'[w] \subseteq DOMAIN total[w] \cup {at[w]}

LEMMA RecordStep ==
    ASSUME TimeInv, NEW th \in Thread, Record(th)
    PROVE  \E at \in [Window -> Nat], usd \in 0..MaxCost : Recording(th, at, usd)
<1>1. PICK at \in [Window -> Nat], usd \in 0..MaxCost :
        /\ RecordLocked(th, at, usd)
        /\ \A w \in Window : /\ at[w] \in Buckets(w)
                             /\ Bucket[w][start[th]] <= at[w]
                             /\ at[w] <= Now(w)
  BY RecordBuckets DEF TimeInv
<1>2. pc[th] = "recording" /\ clock' = clock
  BY <1>1 DEF Record, RecordLocked
<1>3. usd \in Nat /\ usd <= MaxCost /\ MaxCost \in Nat
  BY SizeAssumption
<1>4. \A w \in Window : Now(w) \in Nat /\ Now(w) \in Buckets(w)
  BY NowType DEF TimeInv, TypeOK
<1>5. \A w \in Window : \A b \in Buckets(w) :
        /\ guarded'[w][b] =
              guarded[w][b] + (IF th \in admitted /\ b = at[w] THEN usd ELSE 0)
        /\ outside'[w][b] =
              outside[w][b] + (IF th \notin admitted /\ b = at[w] THEN usd ELSE 0)
  BY <1>1, <1>3 DEF RecordLocked, Plus, TimeInv, TypeOK
<1>6. ASSUME NEW w \in Window
      PROVE  /\ Get(total'[w], Now(w))
                  = Get(total[w], Now(w)) + (IF at[w] = Now(w) THEN usd ELSE 0)
             /\ DOMAIN total'[w] \subseteq DOMAIN total[w] \cup {at[w]}
  <2>1. total'[w] = Trim(Add(total[w], at[w], usd), Keep[w])
    BY <1>1 DEF RecordLocked, Credited
  <2>2. /\ DOMAIN total[w] \subseteq Nat
        /\ \A x \in DOMAIN total[w] : total[w][x] \in Nat /\ x <= Now(w)
    BY BucketsType DEF TimeInv, TypeOK, FutureEmpty
  <2>3. Keep[w] \in Nat \ {0}
    BY CapAssumption
  <2>4. at[w] \in Nat /\ Now(w) \in Nat /\ at[w] <= Now(w)
    BY <1>1, <1>4
  <2>5. /\ Get(Trim(Add(total[w], at[w], usd), Keep[w]), Now(w))
              = Get(total[w], Now(w)) + (IF at[w] = Now(w) THEN usd ELSE 0)
        /\ DOMAIN Trim(Add(total[w], at[w], usd), Keep[w])
              \subseteq DOMAIN total[w] \cup {at[w]}
    <3> DEFINE f == total[w]  b == at[w]  now == Now(w)  n == Keep[w]
    <3> HIDE DEF f, b, now, n
    <3>1. /\ b \in Nat /\ now \in Nat /\ b <= now /\ n \in Nat \ {0}
          /\ DOMAIN f \subseteq Nat
          /\ \A x \in DOMAIN f : f[x] \in Nat /\ x <= now
      BY <2>2, <2>3, <2>4 DEF f, b, now, n
    <3>2. /\ Get(Trim(Add(f, b, usd), n), now)
                = Get(f, now) + (IF b = now THEN usd ELSE 0)
          /\ DOMAIN Trim(Add(f, b, usd), n) \subseteq DOMAIN f \cup {b}
      BY <1>3, <3>1, CreditCurrent
    <3> QED BY <3>2 DEF f, b, now, n
  <2> QED BY <2>1, <2>5
<1> QED BY <1>1, <1>2, <1>3, <1>5, <1>6 DEF Recording

LEMMA RecordTime ==
    ASSUME TimeInv, TypeOK', NEW th \in Thread, Record(th)
    PROVE  TimeInv'
<1>1. PICK at \in [Window -> Nat], usd \in 0..MaxCost : Recording(th, at, usd)
  BY RecordStep
<1>2. /\ admitted' = admitted \ {th}
      /\ pc' = [pc EXCEPT ![th] = "delivering"]
      /\ start' = [start EXCEPT ![th] = 0]
      /\ clock' = clock /\ pc[th] = "recording"
  BY <1>1 DEF RecordLocked, Recording
<1>3. InFlight'
  BY <1>2, SizeAssumption DEF TimeInv, InFlight, TypeOK, Instant
<1>4. FutureEmpty'
  <2> SUFFICES ASSUME NEW w \in Window
               PROVE  /\ \A b \in DOMAIN total'[w] : b <= Now(w)
                      /\ \A b \in Buckets(w) :
                            b > Now(w) => guarded'[w][b] = 0 /\ outside'[w][b] = 0
    BY <1>2 DEF FutureEmpty, Now
  <2>1. \A b \in DOMAIN total'[w] : b <= Now(w)
    BY <1>1 DEF Recording, TimeInv, FutureEmpty
  <2>2. \A b \in Buckets(w) : b > Now(w) => b # at[w]
    BY <1>1, NowType, BucketsType DEF Recording, TimeInv, TypeOK
  <2>3. \A b \in Buckets(w) : b > Now(w) => guarded[w][b] = 0 /\ outside[w][b] = 0
    BY DEF TimeInv, FutureEmpty
  <2> QED BY <1>1, <2>1, <2>2, <2>3 DEF Recording
<1> QED BY <1>3, <1>4 DEF TimeInv

LEMMA RecordGap ==
    ASSUME TimeInv, NEW th \in Thread, Record(th), NEW m, IsHistory(m), Gap(m)
    PROVE  Gap(m)'
<1>1. PICK at \in [Window -> Nat], usd \in 0..MaxCost : Recording(th, at, usd)
  BY RecordStep
<1> SUFFICES ASSUME NEW w \in Window
             PROVE  Get(total'[w], Now(w)) + m[w][Now(w)]
                      = guarded'[w][Now(w)] + outside'[w][Now(w)]
  BY <1>1 DEF Gap, Now, Recording
<1>2. Get(total[w], Now(w)) + m[w][Now(w)] = guarded[w][Now(w)] + outside[w][Now(w)]
  BY DEF Gap
<1>3. /\ guarded[w][Now(w)] \in Nat /\ outside[w][Now(w)] \in Nat /\ m[w][Now(w)] \in Nat
      /\ Get(total[w], Now(w)) \in Nat /\ usd \in Nat /\ Now(w) \in Buckets(w)
  BY <1>1, NowType, HistoryType DEF TimeInv, TypeOK, Recording, Get
<1>4. /\ guarded'[w][Now(w)]
            = guarded[w][Now(w)] + (IF th \in admitted /\ Now(w) = at[w] THEN usd ELSE 0)
      /\ outside'[w][Now(w)]
            = outside[w][Now(w)] + (IF th \notin admitted /\ Now(w) = at[w] THEN usd ELSE 0)
      /\ Get(total'[w], Now(w)) = Get(total[w], Now(w)) + (IF at[w] = Now(w) THEN usd ELSE 0)
  BY <1>1, <1>3 DEF Recording
<1> QED BY <1>2, <1>3, <1>4

\* Recording turns the money set aside for the call into money recorded.
LEMMA RecordHeld ==
    ASSUME TimeInv, TypeOK', NEW th \in Thread, Record(th), NEW s, IsHistory(s), Held(s)
    PROVE  Held(s)'
<1>1. PICK at \in [Window -> Nat], usd \in 0..MaxCost : Recording(th, at, usd)
  BY RecordStep
<1>2. /\ pc[th] = "recording" /\ clock' = clock
      /\ admitted' = admitted \ {th}
      /\ pc' = [pc EXCEPT ![th] = "delivering"]
      /\ start' = [start EXCEPT ![th] = 0]
  BY <1>1 DEF RecordLocked, Recording
<1>3. usd \in Nat /\ usd <= MaxCost /\ MaxCost \in Nat
  BY <1>1, SizeAssumption DEF Recording
<1>4. \A w \in Window : \A b \in Buckets(w) :
        MayCredit(w, b)' = MayCredit(w, b) \ {th}
  BY <1>2 DEF MayCredit, Earliest, TimeInv, TypeOK
<1>5. CASE th \notin admitted
  <2>1. guarded' = guarded
    BY <1>1, <1>5 DEF Recording, RecordLocked
  <2> QED BY <1>4, <2>1, ReservedShrinks
<1>6. CASE th \in admitted
  <2> SUFFICES ASSUME Enabled, NEW w \in Window, NEW b \in Buckets(w)
               PROVE  guarded'[w][b] + MaxCost * Cardinality(MayCredit(w, b)')
                         < Cap[w] + MaxCost * Cardinality(Thread) + s[w][b]
    BY DEF Held
  <2> DEFINE k == Cardinality(MayCredit(w, b))
  <2>1. /\ MayCredit(w, b) \in SUBSET Thread
        /\ IsFiniteSet(MayCredit(w, b)) /\ k \in Nat
        /\ Cardinality(Thread) \in Nat
    BY ThreadsFinite DEF MayCredit, TimeInv, TypeOK
  <2>2. guarded[w][b] + MaxCost * k < Cap[w] + MaxCost * Cardinality(Thread) + s[w][b]
    BY DEF Held
  <2>3. /\ guarded[w][b] \in Nat /\ Cap[w] \in Nat /\ s[w][b] \in Nat
        /\ MaxCost * k \in Nat /\ MaxCost * Cardinality(Thread) \in Nat
    BY <2>1, SizeAssumption, CapAssumption, TimesMonotone, HistoryType DEF TimeInv, TypeOK
  <2>4. CASE th \in MayCredit(w, b)
    <3>1. k > 0 /\ Cardinality(MayCredit(w, b)') = k - 1
      BY <1>4, <2>1, <2>4, FS_RemoveElement, FS_EmptySet
    <3>2. MaxCost * (k - 1) \in Nat /\ MaxCost * (k - 1) + MaxCost = MaxCost * k
      BY <2>1, <3>1, <1>3, TimesLess
    <3>3. guarded'[w][b] <= guarded[w][b] + MaxCost /\ guarded'[w][b] \in Nat
      BY <1>1, <1>3, <2>3 DEF Recording
    <3> QED BY <1>3, <2>2, <2>3, <3>1, <3>2, <3>3
  <2>5. CASE th \notin MayCredit(w, b)
    <3>1. b # at[w]
      BY <1>1, <1>2, <1>6, <2>5 DEF MayCredit, Earliest, Recording
    <3>2. MayCredit(w, b)' = MayCredit(w, b)
      BY <1>4, <2>5
    <3>3. guarded'[w][b] = guarded[w][b]
      BY <1>1, <2>3, <3>1 DEF Recording
    <3> QED BY <2>2, <2>3, <3>2, <3>3
  <2> QED BY <2>4, <2>5
<1> QED BY <1>5, <1>6

\* Every step keeps the types, the calls in flight and the empty future.
LEMMA NextTime ==
    ASSUME TimeInv, [Next]_vars PROVE TimeInv'
<1>1. TypeOK'
  BY NextType DEF TimeInv
<1>2. CASE UNCHANGED vars
  BY <1>1, <1>2 DEF vars, counterVars, historyVars, TimeInv, InFlight, FutureEmpty, Now
<1>3. CASE Tick
  BY <1>1, <1>3, TickTime
<1>4. ASSUME NEW th \in Thread, Step(th), ~ UNCHANGED vars
      PROVE  TimeInv'
  BY <1>1, <1>4, QuietTime, RecordTime DEF Step, Refuse
<1> QED BY <1>2, <1>3, <1>4 DEF Next

\* No step widens the gap between the totals and what was recorded.
LEMMA NextGap ==
    ASSUME TimeInv, [Next]_vars, NEW m, IsHistory(m), Gap(m),
           \A w \in Window : \A b \in Buckets(w) : b > Now(w) => m[w][b] = 0
    PROVE  Gap(m)'
<1>1. TypeOK'
  BY NextType DEF TimeInv
<1>2. ASSUME UNCHANGED <<clock, total, guarded, outside>> PROVE Gap(m)'
  BY <1>2 DEF Gap, Now
<1>3. CASE UNCHANGED vars
  BY <1>2, <1>3 DEF vars, counterVars, historyVars
<1>4. CASE Tick
  BY <1>1, <1>4, TickGap
<1>5. ASSUME NEW th \in Thread, Step(th), ~ UNCHANGED vars
      PROVE  Gap(m)'
  BY <1>1, <1>2, <1>5, QuietTime, RecordGap DEF Step, Refuse
<1> QED BY <1>3, <1>4, <1>5 DEF Next

\* Every step keeps within the bound, if admission is given below it.
LEMMA NextHeld ==
    ASSUME TimeInv, [Next]_vars, NEW s, IsHistory(s), Held(s),
           \A tk \in Identity : Enabled /\ ~ Refused(tk) =>
              \A w \in Window : guarded[w][Now(w)] < Cap[w] + s[w][Now(w)]
    PROVE  Held(s)'
<1>1. TypeOK'
  BY NextType DEF TimeInv
<1>2. CASE UNCHANGED vars
  BY <1>2 DEF vars, counterVars, historyVars, Held, MayCredit, Earliest
<1>3. CASE Tick
  BY <1>1, <1>3, TickHeld
<1>4. ASSUME NEW th \in Thread, NEW tk \in Identity, Enforce(th, tk)
      PROVE  Held(s)'
  <2>1. ~ Refused(tk)
    BY <1>4 DEF Enforce
  <2> QED BY <1>1, <1>4, <2>1, EnforceHeld
<1>5. ASSUME NEW th \in Thread, Step(th), ~ UNCHANGED vars
      PROVE  Held(s)'
  BY <1>1, <1>4, <1>5, QuietHeld, RecordHeld DEF Step, Refuse
<1> QED BY <1>2, <1>3, <1>5 DEF Next

\* Every step keeps the inductive invariant of spend.
LEMMA NextSpend ==
    ASSUME SpendInv, [Next]_vars PROVE SpendInv'
<1>1. TimeInv /\ Gap(Nothing) /\ Held(Nothing)
  BY SpendIsLossless DEF SpendInv
<1>2. PICK m : m = Nothing
  OBVIOUS
<1>3. IsHistory(m) /\ \A w \in Window : \A b \in Buckets(w) : m[w][b] = 0
  BY <1>2, NothingType
<1>4. TimeInv'
  BY <1>1, NextTime
<1>5. Gap(m)'
  BY <1>1, <1>2, <1>3, NextGap
<1>6. \A tk \in Identity : Enabled /\ ~ Refused(tk) =>
         \A w \in Window : guarded[w][Now(w)] < Cap[w] + m[w][Now(w)]
  BY <1>1, <1>2, <1>3, AdmissionWithin
<1>7. Held(m)'
  BY <1>1, <1>2, <1>3, <1>6, NextHeld
<1>8. Gap(Nothing)' /\ Held(Nothing)'
  BY <1>2, <1>5, <1>7
<1>9. TypeOK' /\ (SpendInv' <=> TimeInv' /\ Gap(Nothing)' /\ Held(Nothing)')
  <2>1. TypeOK'
    BY <1>4 DEF TimeInv
  <2> QED BY <2>1, SpendIsLossless, PTL
<1> QED BY <1>4, <1>8, <1>9

\* The inductive invariant holds of every behaviour.
THEOREM SpendInvariant == Spec => []SpendInv
<1>1. Init => SpendInv
  BY InitSpend
<1>2. SpendInv /\ [Next]_vars => SpendInv'
  BY NextSpend
<1> QED BY <1>1, <1>2, PTL DEF Spec

\* enforce() compares its caps with all that was recorded in the current windows.
THEOREM TotalsExact == Spec => []CurrentTotalsExact
<1>1. SpendInv => CurrentTotalsExact
  BY DEF SpendInv
<1> QED BY <1>1, SpendInvariant, PTL

\* The overshoot of every cap is less than one call per thread.
THEOREM OvershootBound == Spec => []GuardedSpendBounded
<1>1. SpendInv => GuardedSpendBounded
  <2> SUFFICES ASSUME SpendInv, Enabled, NEW w \in Window, NEW b \in Buckets(w)
               PROVE  guarded[w][b] < Cap[w] + MaxCost * Cardinality(Thread)
    BY DEF GuardedSpendBounded
  <2>1. MayCredit(w, b) \in SUBSET Thread
    BY DEF MayCredit, SpendInv, TypeOK
  <2>2. /\ MaxCost * Cardinality(MayCredit(w, b)) \in Nat
        /\ MaxCost * Cardinality(Thread) \in Nat
    BY <2>1, ThreadsFinite, SizeAssumption, TimesMonotone DEF SpendInv
  <2>3. guarded[w][b] \in Nat /\ Cap[w] \in Nat
    BY CapAssumption DEF SpendInv, TypeOK
  <2> QED BY <2>2, <2>3 DEF SpendInv, ReservedSpendBounded
<1> QED BY <1>1, SpendInvariant, PTL

-----------------------------------------------------------------------------
(* Alerts *)

\* Only a thread that is delivering holds alerts, so record() overwrites none.
PendingWhileDelivering ==
    \A th \in Thread : pc[th] # "delivering" => pending[th] = {}

AlertInv == TypeOK /\ AlertsDeliveredOnce /\ PendingWhileDelivering

\* A new counter has latched no alert.
LEMMA InitAlert == Init => AlertInv
BY InitType DEF Init, AlertInv, AlertsDeliveredOnce, PendingWhileDelivering

\* Recording hands the keys it latches first to the recording thread alone (_latch).
LEMMA RecordAlert ==
    ASSUME AlertInv, TypeOK', NEW th \in Thread, Record(th)
    PROVE  AlertInv'
<1>1. PICK at \in [Window -> Nat], usd \in 0..MaxCost : RecordLocked(th, at, usd)
  BY RecordBuckets DEF AlertInv
<1> DEFINE trips == Trips(total', stat', at, caller[th])
<1>2. /\ pc[th] = "recording" /\ pending[th] = {}
      /\ pending \in [Thread -> SUBSET LatchKey]
      /\ pc \in [Thread -> {"idle", "calling", "recording", "delivering"}]
  BY DEF Record, AlertInv, PendingWhileDelivering, TypeOK
<1>3. /\ alerted' = alerted \cup trips
      /\ pending' = [pending EXCEPT ![th] = trips \ alerted]
      /\ pc' = [pc EXCEPT ![th] = "delivering"]
      /\ attempted' = attempted
  BY <1>1 DEF RecordLocked, Latch
<1> HIDE DEF trips
<1>4. /\ pending'[th] = trips \ alerted
      /\ \A u \in Thread \ {th} : pending'[u] = pending[u]
  BY <1>2, <1>3
<1>5. PendingWhileDelivering'
  BY <1>2, <1>3 DEF AlertInv, PendingWhileDelivering
<1>6. AlertsDeliveredOnce'
  <2>1. alerted = attempted \cup UNION {pending[u] : u \in Thread}
    BY DEF AlertInv, AlertsDeliveredOnce
  <2>2. \A u \in Thread : pending[u] \subseteq alerted
    BY <2>1
  <2>3. UNION {pending'[u] : u \in Thread}
          = (trips \ alerted) \cup UNION {pending[u] : u \in Thread}
    BY <1>2, <1>4
  <2>4. alerted' = attempted' \cup UNION {pending'[u] : u \in Thread}
    BY <1>3, <2>1, <2>3
  <2>5. \A u \in Thread : pending'[u] \cap attempted' = {}
    BY <1>3, <1>4, <2>1 DEF AlertInv, AlertsDeliveredOnce
  <2>6. \A u, v \in Thread : u # v => pending'[u] \cap pending'[v] = {}
    BY <1>4, <2>2 DEF AlertInv, AlertsDeliveredOnce
  <2> QED BY <2>4, <2>5, <2>6 DEF AlertsDeliveredOnce
<1> QED BY <1>5, <1>6 DEF AlertInv

\* Delivering one alert moves its key from the thread to the delivered ones.
LEMMA DeliverAlert ==
    ASSUME AlertInv, TypeOK', NEW th \in Thread, Deliver(th)
    PROVE  AlertInv'
<1>1. PICK key \in pending[th] :
        /\ attempted' = attempted \cup {key}
        /\ pending' = [pending EXCEPT ![th] = @ \ {key}]
  BY DEF Deliver
<1>2. /\ pc' = pc /\ alerted' = alerted /\ pc[th] = "delivering"
      /\ pending \in [Thread -> SUBSET LatchKey]
  BY DEF Deliver, counterVars, AlertInv, TypeOK
<1>3. /\ pending'[th] = pending[th] \ {key}
      /\ \A u \in Thread \ {th} : pending'[u] = pending[u]
  BY <1>1, <1>2
<1>4. PendingWhileDelivering'
  BY <1>2, <1>3 DEF AlertInv, PendingWhileDelivering
<1>5. \A u \in Thread \ {th} : key \notin pending[u]
  BY <1>1 DEF AlertInv, AlertsDeliveredOnce
<1>6. UNION {pending[u] : u \in Thread} = {key} \cup UNION {pending'[u] : u \in Thread}
  BY <1>1, <1>3
<1>7. alerted' = attempted' \cup UNION {pending'[u] : u \in Thread}
  BY <1>1, <1>2, <1>6 DEF AlertInv, AlertsDeliveredOnce
<1>8. \A u \in Thread : pending'[u] \cap attempted' = {}
  BY <1>1, <1>3, <1>5 DEF AlertInv, AlertsDeliveredOnce
<1>9. \A u, v \in Thread : u # v => pending'[u] \cap pending'[v] = {}
  BY <1>3 DEF AlertInv, AlertsDeliveredOnce
<1> QED BY <1>4, <1>7, <1>8, <1>9 DEF AlertInv, AlertsDeliveredOnce

\* Every step keeps the invariant of the alerts.
LEMMA NextAlert ==
    ASSUME AlertInv, [Next]_vars PROVE AlertInv'
<1>1. TypeOK'
  BY NextType DEF AlertInv
<1>2. ASSUME UNCHANGED <<alerted, attempted, pending>>,
             \A th \in Thread : pc'[th] # "delivering"
                                  => pc[th] # "delivering" \/ pending[th] = {}
      PROVE  AlertInv'
  BY <1>1, <1>2 DEF AlertInv, AlertsDeliveredOnce, PendingWhileDelivering
<1>3. CASE UNCHANGED vars
  BY <1>2, <1>3 DEF vars, counterVars, historyVars
<1>4. CASE Tick
  BY <1>2, <1>4 DEF Tick, counterVars, historyVars
<1>5. ASSUME NEW th \in Thread, Step(th), ~ UNCHANGED vars
      PROVE  AlertInv'
  <2>1. CASE Record(th)
    BY <1>1, <2>1, RecordAlert
  <2>2. CASE Deliver(th)
    BY <1>1, <2>2, DeliverAlert
  <2>3. pc \in [Thread -> {"idle", "calling", "recording", "delivering"}]
    BY DEF AlertInv, TypeOK
  <2>4. CASE \E tk \in Identity : Enforce(th, tk)
    BY <1>2, <2>3, <2>4 DEF Enforce, counterVars, historyVars
  <2>5. CASE \E tk \in Identity : BeginRecordUsage(th, tk)
    BY <1>2, <2>3, <2>5 DEF BeginRecordUsage, counterVars, historyVars
  <2>6. CASE Abandon(th)
    BY <1>2, <2>3, <2>6 DEF Abandon, counterVars, historyVars
  <2>7. CASE BeginRecord(th)
    BY <1>2, <2>3, <2>7 DEF BeginRecord, counterVars, historyVars
  <2>8. CASE Return(th)
    BY <1>2, <2>3, <2>8 DEF Return, counterVars, historyVars
  <2> QED BY <1>5, <2>1, <2>2, <2>4, <2>5, <2>6, <2>7, <2>8 DEF Step, Refuse
<1> QED BY <1>3, <1>4, <1>5 DEF Next

\* Whichever threads cross a cap together, each latch key is handed to alert() by
\* exactly one of them, at most once.
THEOREM AlertsOnce == Spec => []AlertsDeliveredOnce
<1>1. Init => AlertInv
  BY InitAlert
<1>2. AlertInv /\ [Next]_vars => AlertInv'
  BY NextAlert
<1>3. AlertInv => AlertsDeliveredOnce
  BY DEF AlertInv
<1> QED BY <1>1, <1>2, <1>3, PTL DEF Spec

\* Recording: the bucket credited is tried against its trip point with its new
\* total; the other buckets keep theirs.
LEMMA RecordTrips ==
    ASSUME TypeOK, TypeOK', EveryTripLatched, NEW th \in Thread, Record(th)
    PROVE  EveryTripLatched'
<1> SUFFICES ASSUME Enabled PROVE EveryTripLatched'
  BY DEF EveryTripLatched
<1>1. PICK at \in [Window -> Nat], usd \in 0..MaxCost :
        /\ RecordLocked(th, at, usd)
        /\ \A w \in Window : at[w] \in Buckets(w)
  BY RecordBuckets
<1>2. /\ alerted' = alerted \cup Trips(total', stat', at, caller[th])
      /\ stat' = Stat(caller[th], at["weekly"], usd)
  BY <1>1 DEF RecordLocked
<1>3. ASSUME NEW w \in Window, NEW b \in DOMAIN total'[w], b # at[w]
      PROVE  b \in DOMAIN total[w] /\ total'[w][b] = total[w][b]
  <2>1. total'[w] = Trim(Add(total[w], at[w], usd), Keep[w])
    BY <1>1 DEF RecordLocked, Credited
  <2> QED BY <1>3, <2>1 DEF Trim, Newest, Add
<1>4. ASSUME NEW b \in DOMAIN total'["hourly"], total'["hourly"][b] >= Cap["hourly"]
      PROVE  <<"hourly", NoToken, b>> \in alerted'
  <2>1. CASE b = at["hourly"]
    <3>1. <<"hourly", NoToken, b>> \in LatchKey
      BY <1>1, <2>1 DEF LatchKey, Window
    <3> QED BY <1>2, <1>4, <2>1, <3>1 DEF Trips, Reached, Get
  <2>2. CASE b # at["hourly"]
    BY <1>2, <1>3, <1>4, <2>2 DEF EveryTripLatched, Window
  <2> QED BY <2>1, <2>2
<1>5. ASSUME NEW b \in DOMAIN total'["daily"], total'["daily"][b] >= Cap["daily"]
      PROVE  <<"daily", NoToken, b>> \in alerted'
  <2>1. CASE b = at["daily"]
    <3>1. <<"daily", NoToken, b>> \in LatchKey
      BY <1>1, <2>1 DEF LatchKey, Window
    <3> QED BY <1>2, <1>5, <2>1, <3>1 DEF Trips, Reached, Get
  <2>2. CASE b # at["daily"]
    BY <1>2, <1>3, <1>5, <2>2 DEF EveryTripLatched, Window
  <2> QED BY <2>1, <2>2
<1>6. ASSUME NEW b \in DOMAIN total'["weekly"],
             5 * total'["weekly"][b] >= 4 * Cap["weekly"]
      PROVE  <<"weekly80", NoToken, b>> \in alerted'
  <2>1. CASE b = at["weekly"]
    <3>1. <<"weekly80", NoToken, b>> \in LatchKey
      BY <1>1, <2>1 DEF LatchKey, Window
    <3> QED BY <1>2, <1>6, <2>1, <3>1 DEF Trips, Reached, Get
  <2>2. CASE b # at["weekly"]
    BY <1>2, <1>3, <1>6, <2>2 DEF EveryTripLatched, Window
  <2> QED BY <2>1, <2>2
<1>7. ASSUME NEW tk \in DOMAIN stat', stat'[tk].usd >= TokenCap
      PROVE  <<"per_token", tk, stat'[tk].week>> \in alerted'
  <2>1. CASE tk = caller[th] /\ caller[th] # NoToken
    <3>1. stat'[tk].week = at["weekly"] /\ tk \in Token
      BY <1>2, <2>1 DEF Stat, TypeOK
    <3>2. <<"per_token", tk, at["weekly"]>> \in LatchKey
      BY <1>1, <3>1 DEF LatchKey, Window
    <3> QED BY <1>2, <1>7, <2>1, <3>1, <3>2 DEF Trips, Reached
  <2>2. CASE tk # caller[th] \/ caller[th] = NoToken
    <3>1. tk \in DOMAIN stat /\ stat'[tk] = stat[tk]
      BY <1>2, <1>7, <2>2 DEF Stat
    <3> QED BY <1>2, <1>7, <3>1 DEF EveryTripLatched
  <2> QED BY <2>1, <2>2
<1> QED BY <1>4, <1>5, <1>6, <1>7 DEF EveryTripLatched

\* A window or an allowance that has reached its trip point has been latched.
THEOREM TripsLatched == Spec => []EveryTripLatched
<1>1. Init => EveryTripLatched
  BY DEF Init, EveryTripLatched, Window
<1>2. TypeOK /\ TypeOK' /\ EveryTripLatched /\ [Next]_vars => EveryTripLatched'
  <2> SUFFICES ASSUME TypeOK, TypeOK', EveryTripLatched, [Next]_vars
               PROVE  EveryTripLatched'
    OBVIOUS
  <2>1. ASSUME UNCHANGED counterVars PROVE EveryTripLatched'
    BY <2>1 DEF counterVars, EveryTripLatched
  <2>2. ASSUME NEW th \in Thread, Step(th), ~ Record(th)
        PROVE  UNCHANGED counterVars
    BY <2>2 DEF Step, Enforce, Refuse, BeginRecordUsage, Abandon, BeginRecord, Deliver,
                Return, vars
  <2> QED BY <2>1, <2>2, RecordTrips DEF Next, Tick, vars
<1> QED BY <1>1, <1>2, TypeCorrect, PTL DEF Spec

-----------------------------------------------------------------------------
(* Tallies *)

\* The week of a tally is never in the future.
TallyInv == TypeOK /\ InFlight /\ \A tk \in DOMAIN stat : stat[tk].week <= Now("weekly")

\* No step puts a tally in a future week.
LEMMA TallyInvariant == Spec => []TallyInv
<1>1. Init => TallyInv
  BY InitType, InitSpend DEF TallyInv, SpendInv, Init
<1>2. TallyInv /\ SpendInv /\ SpendInv' /\ [Next]_vars => TallyInv'
  <2> SUFFICES ASSUME TallyInv, SpendInv, SpendInv', [Next]_vars PROVE TallyInv'
    OBVIOUS
  <2>0. TypeOK' /\ InFlight'
    BY DEF SpendInv
  <2>1. CASE Tick
    <3>1. Now("weekly") <= Now("weekly")'
      BY <2>0, <2>1, CalendarAssumption DEF Tick, Now, TallyInv, TypeOK, Instant, Window
    <3>2. /\ stat' = stat /\ Now("weekly") \in Nat /\ Now("weekly")' \in Nat
          /\ \A tk \in DOMAIN stat : stat[tk].week \in Nat
      BY <2>0, <2>1, BucketsType, CalendarAssumption
      DEF Tick, counterVars, Now, TallyInv, TypeOK, Window
    <3> QED BY <2>0, <3>1, <3>2 DEF TallyInv
  <2>2. ASSUME NEW th \in Thread, Record(th) PROVE TallyInv'
    <3>1. PICK at \in [Window -> Nat], usd \in 0..MaxCost :
            /\ RecordLocked(th, at, usd)
            /\ \A w \in Window : at[w] <= Now(w)
      BY <2>2, RecordBuckets DEF TallyInv
    <3>2. stat' = Stat(caller[th], at["weekly"], usd) /\ clock' = clock
      BY <3>1 DEF RecordLocked
    <3>3. at["weekly"] <= Now("weekly")
      BY <3>1 DEF Window
    <3> QED BY <2>0, <3>2, <3>3 DEF TallyInv, Stat, Now
  <2>3. ASSUME stat' = stat, clock' = clock PROVE TallyInv'
    BY <2>0, <2>3 DEF TallyInv, Now
  <2>4. ASSUME NEW th \in Thread, Step(th), ~ Record(th)
        PROVE  stat' = stat /\ clock' = clock
    BY <2>4 DEF Step, Enforce, Refuse, Abandon, BeginRecord, BeginRecordUsage, Deliver,
       Return, vars, counterVars
  <2>5. CASE UNCHANGED vars
    BY <2>3, <2>5 DEF vars, counterVars
  <2> QED BY <2>1, <2>2, <2>3, <2>4, <2>5 DEF Next
<1> QED BY <1>1, <1>2, SpendInvariant, PTL DEF Spec

\* A tally is lost only when its week moves on or to a record() of that identity
\* that read the week before the rollover.
THEOREM TallyKept == Spec => TallyLostOnlyByStraggler
<1> DEFINE Kept ==
      \A tk \in DOMAIN stat :
          /\ tk \in DOMAIN stat'
          /\ \/ stat'[tk].usd >= stat[tk].usd
             \/ stat'[tk].week > stat[tk].week
             \/ \E th \in Thread :
                   /\ pc[th] = "recording" /\ caller[th] = tk
                   /\ Bucket["weekly"][start[th]] <= stat'[tk].week
                   /\ stat'[tk].week < stat[tk].week
<1>1. TallyInv /\ [Next]_vars => [Kept]_vars
  <2> SUFFICES ASSUME TallyInv, [Next]_vars PROVE [Kept]_vars
    OBVIOUS
  <2>0. \A tk \in DOMAIN stat : stat[tk].usd \in Nat /\ stat[tk].week \in Nat
    BY BucketsType DEF TallyInv, TypeOK, Window
  <2>1. ASSUME stat' = stat PROVE Kept
    BY <2>0, <2>1
  <2>2. ASSUME NEW th \in Thread, Record(th) PROVE Kept
    <3>1. PICK at \in [Window -> Nat], usd \in 0..MaxCost :
            /\ RecordLocked(th, at, usd)
            /\ \A w \in Window : Bucket[w][start[th]] <= at[w]
      BY <2>2, RecordBuckets DEF TallyInv
    <3> DEFINE week == at["weekly"]
    <3>2. stat' = Stat(caller[th], week, usd) /\ pc[th] = "recording"
      BY <2>2, <3>1 DEF RecordLocked, Record
    <3>3. week \in Nat /\ Bucket["weekly"][start[th]] <= week /\ usd \in Nat
      BY <3>1, SizeAssumption DEF Window
    <3> SUFFICES ASSUME NEW tk \in DOMAIN stat
                 PROVE  /\ tk \in DOMAIN stat'
                        /\ \/ stat'[tk].usd >= stat[tk].usd
                           \/ stat'[tk].week > stat[tk].week
                           \/ /\ caller[th] = tk
                              /\ Bucket["weekly"][start[th]] <= stat'[tk].week
                              /\ stat'[tk].week < stat[tk].week
      BY <3>2
    <3>4. CASE tk # caller[th] \/ caller[th] = NoToken
      BY <2>0, <3>2, <3>4, SizeAssumption DEF Stat, TallyInv, TypeOK
    <3>5. CASE tk = caller[th] /\ caller[th] # NoToken
      <4>1. /\ tk \in DOMAIN stat'
            /\ stat'[tk] = [usd |-> Tally(tk, week) + usd, week |-> week]
        BY <3>2, <3>5 DEF Stat
      <4>2. CASE stat[tk].week = week
        BY <2>0, <3>3, <4>1, <4>2 DEF Tally
      <4>3. CASE stat[tk].week # week
        BY <2>0, <3>3, <3>5, <4>1, <4>3
      <4> QED BY <4>2, <4>3
    <3> QED BY <3>4, <3>5
  <2>3. ASSUME NEW th \in Thread, Step(th), ~ Record(th)
        PROVE  stat' = stat
    BY <2>3 DEF Step, Enforce, Refuse, Abandon, BeginRecord, BeginRecordUsage, Deliver,
       Return, vars, counterVars
  <2>4. CASE Tick
    BY <2>1, <2>4 DEF Tick, counterVars
  <2> QED BY <2>1, <2>2, <2>3, <2>4 DEF Next
<1> QED BY <1>1, TallyInvariant, PTL DEF Spec, TallyLostOnlyByStraggler

-----------------------------------------------------------------------------
(* The refinement of AdmissionGate *)

\* The pots of the gates are the buckets of the windows.
LEMMA Pots ==
    /\ \A w \in Window : \A b \in Buckets(w) : <<w, b>> \in Pot
    /\ \A p \in Pot : p = <<p[1], p[2]>> /\ p[1] \in Window /\ p[2] \in Buckets(p[1])
BY DEF Pot

\* What a step may do to the gate of bucket b of window w.
MayAdmit(w, b, th) ==
    /\ Enabled => guarded[w][b] < Cap[w]
    /\ guarded'[w][b] = guarded[w][b]
    /\ MayCredit(w, b)' = MayCredit(w, b) \cup {th}

MayCharge(w, b, th) ==
    /\ th \in MayCredit(w, b)
    /\ \E usd \in 0..MaxCost : guarded'[w][b] = guarded[w][b] + usd
    /\ MayCredit(w, b)' = MayCredit(w, b) \ {th}

MayLeave(w, b) ==
    /\ guarded'[w][b] = guarded[w][b]
    /\ MayCredit(w, b)' \subseteq MayCredit(w, b)

\* Time takes callers out of the gates of the buckets it leaves behind.
LEMMA TickGate ==
    ASSUME SpendInv, SpendInv', Tick, NEW w \in Window, NEW b \in Buckets(w)
    PROVE  MayLeave(w, b)
<1>1. /\ guarded' = guarded /\ admitted' = admitted /\ pc' = pc /\ start' = start
      /\ clock' = clock + 1 /\ clock \in Instant /\ clock' \in Instant
  BY DEF Tick, historyVars, SpendInv, TypeOK
<1>2. ASSUME NEW u \in admitted, Bucket[w][Earliest(u)'] <= b
      PROVE  Bucket[w][Earliest(u)] <= b
  <2>1. CASE pc[u] = "recording"
    BY <1>1, <1>2, <2>1 DEF Earliest
  <2>2. CASE pc[u] # "recording"
    <3>1. Earliest(u) = clock /\ Earliest(u)' = clock'
      BY <1>1, <2>2 DEF Earliest
    <3>2. /\ Bucket[w][clock] \in Nat /\ Bucket[w][clock'] \in Nat /\ b \in Nat
          /\ Bucket[w][clock] <= Bucket[w][clock']
      BY <1>1, BucketsType, CalendarAssumption DEF Instant
    <3> QED BY <1>2, <3>1, <3>2
  <2> QED BY <2>1, <2>2
<1> QED BY <1>1, <1>2 DEF MayLeave, MayCredit

\* enforce() admits the call to the gates of the present bucket and of the later ones.
LEMMA EnforceGate ==
    ASSUME SpendInv, SpendInv', NEW th \in Thread, NEW tk \in Identity, Enforce(th, tk),
           NEW w \in Window, NEW b \in Buckets(w)
    PROVE  MayAdmit(w, b, th) \/ MayLeave(w, b)
<1>1. /\ UNCHANGED <<clock, guarded, start>>
      /\ pc' = [pc EXCEPT ![th] = "calling"] /\ admitted' = admitted \cup {th}
      /\ pc[th] = "idle" /\ ~ Refused(tk)
  BY DEF Enforce, historyVars
<1>2. /\ Now(w) \in Nat /\ b \in Nat /\ Cap[w] \in Nat \ {0}
  BY NowType, BucketsType, CapAssumption DEF SpendInv, TypeOK
<1>3. /\ Earliest(th)' = clock /\ th \notin admitted
      /\ \A u \in Thread \ {th} : Earliest(u)' = Earliest(u)
  BY <1>1 DEF Earliest, SpendInv, InFlight, TypeOK
<1>4. MayCredit(w, b)' = MayCredit(w, b) \cup {u \in {th} : Now(w) <= b}
  BY <1>1, <1>3 DEF MayCredit, Now, SpendInv, TypeOK
<1>5. CASE b < Now(w)
  BY <1>1, <1>2, <1>4, <1>5 DEF MayLeave
<1>6. CASE b = Now(w)
  <2>1. Enabled => guarded[w][b] < Cap[w]
    BY <1>1, <1>6, AdmissionUnderCap
  <2>2. MayCredit(w, b)' = MayCredit(w, b) \cup {th}
    BY <1>2, <1>4, <1>6
  <2> QED BY <1>1, <2>1, <2>2 DEF MayAdmit
<1>7. CASE b > Now(w)
  <2>1. guarded[w][b] < Cap[w]
    BY <1>2, <1>7 DEF SpendInv, FutureEmpty
  <2>2. MayCredit(w, b)' = MayCredit(w, b) \cup {th}
    BY <1>2, <1>4, <1>7
  <2> QED BY <1>1, <2>1, <2>2 DEF MayAdmit
<1> QED BY <1>2, <1>5, <1>6, <1>7

\* A call that ends or enters record() is in flight for no more gates than before.
LEMMA QuietGate ==
    ASSUME SpendInv, SpendInv', NEW th \in Thread,
           \/ Abandon(th) \/ BeginRecord(th) \/ Deliver(th) \/ Return(th)
           \/ \E tk \in Identity : BeginRecordUsage(th, tk),
           NEW w \in Window, NEW b \in Buckets(w)
    PROVE  MayLeave(w, b)
<1>1. UNCHANGED <<clock, guarded>>
  BY DEF Abandon, BeginRecord, Deliver, Return, BeginRecordUsage, historyVars
<1>2. ASSUME NEW u \in admitted'
      PROVE  u \in admitted /\ Earliest(u)' = Earliest(u)
  <2>1. u \in admitted /\ u \in Thread
    BY <1>2 DEF SpendInv, TypeOK, Abandon, BeginRecord, Deliver, Return, BeginRecordUsage
  <2>2. pc[u] \in {"calling", "recording"}
    BY <2>1 DEF SpendInv, InFlight
  <2>3. CASE u # th
    BY <1>1, <2>1, <2>3
    DEF Earliest, SpendInv, TypeOK, Abandon, BeginRecord, Deliver, Return,
        BeginRecordUsage
  <2>4. CASE u = th
    <3>1. BeginRecord(th)
      BY <1>2, <2>2, <2>4 DEF Abandon, Deliver, Return, BeginRecordUsage
    <3>2. pc[th] = "calling" /\ pc'[th] = "recording" /\ start'[th] = clock
      BY <3>1 DEF BeginRecord, SpendInv, TypeOK
    <3> QED BY <1>1, <2>1, <2>4, <3>2 DEF Earliest
  <2> QED BY <2>1, <2>3, <2>4
<1> QED BY <1>1, <1>2 DEF MayLeave, MayCredit

\* record() charges an admitted call to one bucket it was in flight for, and takes it
\* out of the gates of the others.
LEMMA RecordGate ==
    ASSUME SpendInv, SpendInv', NEW th \in Thread, Record(th),
           NEW w \in Window, NEW b \in Buckets(w)
    PROVE  MayCharge(w, b, th) \/ MayLeave(w, b)
<1>1. PICK at \in [Window -> Nat], usd \in 0..MaxCost :
        /\ RecordLocked(th, at, usd)
        /\ \A x \in Window : /\ at[x] \in Buckets(x)
                             /\ Bucket[x][start[th]] <= at[x]
  BY RecordBuckets DEF SpendInv
<1>2. pc[th] = "recording" /\ clock' = clock
  BY <1>1 DEF Record, RecordLocked
<1>3. /\ admitted' = admitted \ {th}
      /\ pc' = [pc EXCEPT ![th] = "delivering"]
      /\ start' = [start EXCEPT ![th] = 0]
  BY <1>1 DEF RecordLocked
<1>4. MayCredit(w, b)' = MayCredit(w, b) \ {th}
  BY <1>2, <1>3 DEF MayCredit, Earliest, SpendInv, TypeOK
<1>5. guarded'[w][b] = guarded[w][b] + (IF th \in admitted /\ b = at[w] THEN usd ELSE 0)
  BY <1>1, SizeAssumption DEF RecordLocked, Plus, SpendInv, TypeOK
<1>6. CASE th \in admitted /\ b = at[w]
  <2>1. th \in MayCredit(w, b)
    BY <1>1, <1>2, <1>6 DEF MayCredit, Earliest
  <2> QED BY <1>4, <1>5, <1>6, <2>1 DEF MayCharge
<1>7. CASE ~ (th \in admitted /\ b = at[w])
  <2>1. guarded[w][b] \in Nat
    BY DEF SpendInv, TypeOK
  <2> QED BY <1>4, <1>5, <1>7, <2>1 DEF MayLeave
<1> QED BY <1>6, <1>7

\* Every step of the counter is a step of all its gates, or leaves them alone.
LEMMA StepGate ==
    ASSUME SpendInv, SpendInv', [Next]_vars, NEW w \in Window, NEW b \in Buckets(w)
    PROVE  (\E th \in Thread : MayAdmit(w, b, th) \/ MayCharge(w, b, th)) \/ MayLeave(w, b)
<1>1. CASE Tick
  BY <1>1, TickGate
<1>2. CASE UNCHANGED vars
  BY <1>2 DEF vars, historyVars, MayLeave, MayCredit, Earliest
<1>3. ASSUME NEW th \in Thread, Step(th), ~ UNCHANGED vars
      PROVE  \/ MayAdmit(w, b, th) \/ MayCharge(w, b, th) \/ MayLeave(w, b)
  BY <1>3, EnforceGate, QuietGate, RecordGate DEF Step, Refuse
<1> QED BY <1>1, <1>2, <1>3 DEF Next

\* CostCounter implements AdmissionGate: its caps, hour by hour, day by day and week
\* by week, admit and charge as gates do.
THEOREM GateImplemented == Spec => ImplementsGate
<1>1. Init => Gate!Init
  <2> SUFFICES ASSUME Init PROVE Gate!Init
    OBVIOUS
  <2>1. \A w \in Window : \A b \in Buckets(w) : guarded[w][b] = 0 /\ MayCredit(w, b) = {}
    BY DEF Init, MayCredit
  <2> QED BY <2>1, Pots DEF Gate!Init
<1>2. SpendInv /\ SpendInv' /\ [Next]_vars => [Gate!Next]_(Gate!vars)
  <2> SUFFICES ASSUME SpendInv, SpendInv', [Next]_vars PROVE Gate!Next
    OBVIOUS
  <2>1. /\ [p \in Pot |-> guarded'[p[1]][p[2]]] \in [Pot -> Nat]
        /\ [p \in Pot |-> MayCredit(p[1], p[2])'] \in [Pot -> SUBSET Thread]
    BY Pots DEF SpendInv, TypeOK, MayCredit
  <2>2. ASSUME NEW p \in Pot
        PROVE  \/ \E th \in Thread : Gate!Admit(p, th) \/ Gate!Charge(p, th)
               \/ Gate!Leave(p)
    <3> DEFINE w == p[1]  b == p[2]
    <3>1. w \in Window /\ b \in Buckets(w)
      BY Pots
    <3>2. CASE MayLeave(w, b)
      BY <3>2 DEF MayLeave, Gate!Leave
    <3>3. ASSUME NEW th \in Thread, MayAdmit(w, b, th)
          PROVE  Gate!Admit(p, th)
      BY <3>3 DEF MayAdmit, Gate!Admit
    <3>4. ASSUME NEW th \in Thread, MayCharge(w, b, th)
          PROVE  Gate!Charge(p, th)
      BY <3>4 DEF MayCharge, Gate!Charge
    <3> QED BY <3>1, <3>2, <3>3, <3>4, StepGate
  <2> QED BY <2>1, <2>2 DEF Gate!Next
<1> QED BY <1>1, <1>2, SpendInvariant, PTL DEF Spec, ImplementsGate, Gate!Spec

-----------------------------------------------------------------------------
(* The overshoot of an admission gate, whatever its pots and caps *)

\* A gate by itself: any pots and caps, and its two variables.
CONSTANTS AnyPot, AnyCap
VARIABLES paid, waiting

AnyGate == INSTANCE AdmissionGate WITH
    Pot <- AnyPot, Cap <- AnyCap, Enforced <- Enabled,
    spent <- paid, inflight <- waiting

\* The gate counts its callers as this module does.
LEMMA GateCounts ==
    /\ \A S : AnyGate!IsFiniteSet(S) <=> IsFiniteSet(S)
    /\ \A S : AnyGate!Cardinality(S) = Cardinality(S)
BY Zenon DEF AnyGate!IsFiniteSet, IsFiniteSet, AnyGate!Cardinality, Cardinality

\* Callers in flight are finitely many, and what is set aside for them is within
\* what could be set aside for all.
LEMMA SetAside ==
    ASSUME AnyGate!GateAssumption, NEW S \in SUBSET Thread
    PROVE  /\ IsFiniteSet(S) /\ Cardinality(S) \in Nat /\ Cardinality(Thread) \in Nat
           /\ MaxCost * Cardinality(S) \in Nat
           /\ MaxCost * Cardinality(Thread) \in Nat
           /\ MaxCost * Cardinality(S) <= MaxCost * Cardinality(Thread)
<1>1. /\ IsFiniteSet(S) /\ Cardinality(S) \in Nat /\ Cardinality(Thread) \in Nat
      /\ Cardinality(S) <= Cardinality(Thread)
  BY GateCounts, FS_Subset, FS_CardinalityType DEF AnyGate!GateAssumption
<1>2. \A j, k, m \in Nat : j <= k => m * j \in Nat /\ m * k \in Nat /\ m * j <= m * k
  OBVIOUS
<1> QED BY <1>1, <1>2 DEF AnyGate!GateAssumption

\* A pot keeps its reserve in every step of its gate.
LEMMA PotKeepsReserve ==
    ASSUME AnyGate!GateAssumption, AnyGate!Reserved, AnyGate!Next, Enabled, NEW p \in AnyPot
    PROVE  paid'[p] + MaxCost * Cardinality(waiting'[p])
              < AnyCap[p] + MaxCost * Cardinality(Thread)
<1>1. /\ paid[p] \in Nat /\ paid'[p] \in Nat /\ AnyCap[p] \in Nat \ {0} /\ MaxCost \in Nat
      /\ waiting[p] \in SUBSET Thread /\ waiting'[p] \in SUBSET Thread
  BY DEF AnyGate!GateAssumption, AnyGate!Reserved, AnyGate!Next
<1>2. paid[p] + MaxCost * Cardinality(waiting[p]) < AnyCap[p] + MaxCost * Cardinality(Thread)
  BY GateCounts DEF AnyGate!Reserved
<1>3. /\ MaxCost * Cardinality(waiting[p]) \in Nat
      /\ MaxCost * Cardinality(waiting'[p]) \in Nat
      /\ MaxCost * Cardinality(Thread) \in Nat
      /\ MaxCost * Cardinality(waiting'[p]) <= MaxCost * Cardinality(Thread)
  BY <1>1, SetAside
<1>4. ASSUME NEW th \in Thread, AnyGate!Admit(p, th)
      PROVE  paid'[p] + MaxCost * Cardinality(waiting'[p])
                < AnyCap[p] + MaxCost * Cardinality(Thread)
  BY <1>1, <1>3, <1>4 DEF AnyGate!Admit
<1>5. ASSUME NEW th \in Thread, AnyGate!Charge(p, th)
      PROVE  paid'[p] + MaxCost * Cardinality(waiting'[p])
                < AnyCap[p] + MaxCost * Cardinality(Thread)
  <2>1. PICK usd \in 0..MaxCost : paid'[p] = paid[p] + usd
    BY <1>5 DEF AnyGate!Charge
  <2> DEFINE k == Cardinality(waiting[p])
  <2>2. /\ k \in Nat /\ k > 0 /\ Cardinality(waiting'[p]) = k - 1
    <3>1. IsFiniteSet(waiting[p]) /\ k \in Nat
      BY <1>1, SetAside
    <3>2. /\ th \in waiting[p] /\ waiting'[p] = waiting[p] \ {th}
      BY <1>5 DEF AnyGate!Charge
    <3>3. Cardinality(waiting'[p]) = k - 1
      BY <3>1, <3>2, FS_RemoveElement
    <3>4. k # 0
      BY <3>1, <3>2, FS_EmptySet
    <3> QED BY <3>1, <3>3, <3>4
  <2>3. MaxCost * (k - 1) + MaxCost = MaxCost * k
    <3>1. \A m, j \in Nat : j > 0 => m * (j - 1) + m = m * j
      OBVIOUS
    <3> QED BY <1>1, <2>2, <3>1
  <2> QED BY <1>1, <1>2, <1>3, <2>1, <2>2, <2>3
<1>6. CASE AnyGate!Leave(p)
  <2>1. Cardinality(waiting'[p]) <= Cardinality(waiting[p])
    BY <1>1, <1>6, SetAside, FS_Subset DEF AnyGate!Leave
  <2>2. MaxCost * Cardinality(waiting'[p]) <= MaxCost * Cardinality(waiting[p])
    <3>1. \A j, k, m \in Nat : j <= k => m * j <= m * k
      OBVIOUS
    <3> QED BY <1>1, <2>1, <3>1, SetAside
  <2> QED BY <1>1, <1>2, <1>3, <1>6, <2>2 DEF AnyGate!Leave
<1> QED BY <1>4, <1>5, <1>6 DEF AnyGate!Next

\* The reserve of every pot is an invariant.
THEOREM GateReserves ==
    ASSUME AnyGate!GateAssumption
    PROVE  AnyGate!Spec => []AnyGate!Reserved
<1>1. AnyGate!Init => AnyGate!Reserved
  <2> SUFFICES ASSUME AnyGate!Init PROVE AnyGate!Reserved
    OBVIOUS
  <2>1. paid \in [AnyPot -> Nat] /\ waiting \in [AnyPot -> SUBSET Thread]
    BY DEF AnyGate!Init
  <2>2. MaxCost * Cardinality({}) = 0
    BY FS_EmptySet DEF AnyGate!GateAssumption
  <2>3. MaxCost * Cardinality(Thread) \in Nat
    BY SetAside
  <2>4. \A p \in AnyPot : paid[p] + MaxCost * Cardinality(waiting[p])
                          < AnyCap[p] + MaxCost * Cardinality(Thread)
    BY <2>2, <2>3 DEF AnyGate!Init, AnyGate!GateAssumption
  <2> QED BY <2>1, <2>4, GateCounts DEF AnyGate!Reserved
<1>2. AnyGate!Reserved /\ [AnyGate!Next]_(AnyGate!vars) => AnyGate!Reserved'
  <2>1. CASE AnyGate!Next
    BY <2>1, PotKeepsReserve, GateCounts DEF AnyGate!Reserved, AnyGate!Next
  <2>2. CASE UNCHANGED AnyGate!vars
    BY <2>2 DEF AnyGate!Reserved, AnyGate!vars
  <2> QED BY <2>1, <2>2
<1> QED BY <1>1, <1>2, PTL DEF AnyGate!Spec

\* A gate overshoots the cap of a pot by less than one call for every caller.
THEOREM GateBound ==
    ASSUME AnyGate!GateAssumption
    PROVE  AnyGate!Spec => []AnyGate!OvershootBounded
<1>1. AnyGate!Reserved => AnyGate!OvershootBounded
  <2> SUFFICES ASSUME AnyGate!Reserved, Enabled, NEW p \in AnyPot
               PROVE  paid[p] < AnyCap[p] + MaxCost * Cardinality(Thread)
    BY GateCounts DEF AnyGate!OvershootBounded
  <2>1. /\ paid[p] \in Nat /\ AnyCap[p] \in Nat /\ waiting[p] \in SUBSET Thread
        /\ MaxCost * Cardinality(waiting[p]) \in Nat
        /\ MaxCost * Cardinality(Thread) \in Nat
    BY SetAside DEF AnyGate!Reserved, AnyGate!GateAssumption
  <2> QED BY <2>1, GateCounts DEF AnyGate!Reserved
<1> QED BY <1>1, GateReserves, PTL

-----------------------------------------------------------------------------
(* Crashes and restarts *)

\* The present totals of a saved state, and m that it does not hold, are all that was
\* recorded.
SavedGap(saved, m) ==
    \A w \in Window :
        Get(saved.total[w], Now(w)) + m[w][Now(w)]
            = guarded[w][Now(w)] + outside[w][Now(w)]

\* Nothing of m is of a bucket that time has not reached.
NoneAhead(m) ==
    \A w \in Window : \A b \in Buckets(w) : b > Now(w) => m[w][b] = 0

\* Time never goes back.
LEMMA NowGrows ==
    ASSUME TimeInv, [Next]_vars, NEW w \in Window
    PROVE  /\ Now(w) \in Nat /\ Now(w)' \in Nat /\ Now(w) <= Now(w)'
           /\ Now(w) \in Buckets(w) /\ Now(w)' \in Buckets(w)
<1>1. TypeOK' /\ Now(w) \in Nat /\ Now(w) \in Buckets(w)
  BY NextType, NowType DEF TimeInv, TypeOK
<1>2. CASE Tick
  BY <1>1, <1>2, TickNow DEF TimeInv
<1>3. ASSUME clock' = clock
      PROVE  Now(w)' = Now(w)
  BY <1>3 DEF Now
<1>4. CASE UNCHANGED vars
  BY <1>1, <1>3, <1>4 DEF vars
<1>5. ASSUME NEW th \in Thread, Step(th)
      PROVE  clock' = clock
  <2>1. CASE Record(th)
    BY <2>1, RecordStep DEF Recording
  <2> QED BY <1>5, <2>1 DEF Step, Enforce, Refuse, BeginRecordUsage, Abandon, BeginRecord,
             Deliver, Return, vars
<1> QED BY <1>1, <1>2, <1>3, <1>4, <1>5 DEF Next

\* What is saved, and what it lacks, stays of the past.
LEMMA LaterSaved ==
    ASSUME TimeInv, [Next]_vars, NEW saved, IsSaved(saved)
    PROVE  IsSaved(saved)'
<1>1. \A w \in Window : /\ Now(w) \in Nat /\ Now(w)' \in Nat /\ Now(w) <= Now(w)'
                        /\ Buckets(w) \subseteq Nat
  BY NowGrows, BucketsType
<1>2. ASSUME NEW w \in Window
      PROVE  {b \in Buckets(w) : b <= Now(w)} \subseteq {b \in Buckets(w) : b <= Now(w)'}
  BY <1>1
<1> QED BY <1>2 DEF IsSaved

LEMMA LaterAhead ==
    ASSUME TimeInv, [Next]_vars, NEW m, NoneAhead(m)
    PROVE  NoneAhead(m)'
BY NowGrows, BucketsType DEF NoneAhead

\* While nothing is recorded, a saved state lacks what it lacked.
LEMMA LaterGap ==
    ASSUME TimeInv, [Next]_vars, UNCHANGED <<guarded, outside>>,
           NEW saved, IsSaved(saved), NEW m, NoneAhead(m), SavedGap(saved, m)
    PROVE  SavedGap(saved, m)'
<1> SUFFICES ASSUME NEW w \in Window
             PROVE  Get(saved.total[w], Now(w)') + m[w][Now(w)']
                      = guarded[w][Now(w)'] + outside[w][Now(w)']
  BY DEF SavedGap
<1>1. /\ Now(w) \in Nat /\ Now(w)' \in Nat /\ Now(w) <= Now(w)'
      /\ Now(w)' \in Buckets(w)
  BY NowGrows
<1>2. CASE Now(w)' = Now(w)
  BY <1>2 DEF SavedGap
<1>3. CASE Now(w)' > Now(w)
  <2>1. guarded[w][Now(w)'] = 0 /\ outside[w][Now(w)'] = 0 /\ m[w][Now(w)'] = 0
    BY <1>1, <1>3 DEF TimeInv, FutureEmpty, NoneAhead
  <2>2. Now(w)' \notin DOMAIN saved.total[w]
    BY <1>1, <1>3 DEF IsSaved
  <2> QED BY <2>1, <2>2 DEF Get
<1> QED BY <1>1, <1>2, <1>3

\* What is recorded is missing of every saved state.
LEMMA RecordLost ==
    ASSUME TimeInv, NEW th \in Thread, Record(th), NEW m, IsHistory(m), NoneAhead(m),
           NEW n, n = [w \in Window |-> [b \in Buckets(w) |->
                         m[w][b] + (Ledger'[w][b] - Ledger[w][b])]]
    PROVE  /\ IsHistory(n)
           /\ NoneAhead(n)'
           /\ \A saved : IsSaved(saved) /\ SavedGap(saved, m) => SavedGap(saved, n)'
<1>1. PICK at \in [Window -> Nat], usd \in 0..MaxCost : Recording(th, at, usd)
  BY RecordStep
<1>2. clock' = clock
  BY <1>1 DEF Recording
<1>3. ASSUME NEW w \in Window, NEW b \in Buckets(w)
      PROVE  /\ guarded[w][b] \in Nat /\ outside[w][b] \in Nat /\ m[w][b] \in Nat
             /\ guarded'[w][b] + outside'[w][b]
                  = guarded[w][b] + outside[w][b] + (IF b = at[w] THEN usd ELSE 0)
             /\ n[w][b] = m[w][b] + (IF b = at[w] THEN usd ELSE 0)
  <2>1. guarded[w][b] \in Nat /\ outside[w][b] \in Nat /\ m[w][b] \in Nat /\ usd \in Nat
    BY <1>1, HistoryType DEF TimeInv, TypeOK, Recording
  <2>2. guarded'[w][b] + outside'[w][b]
          = guarded[w][b] + outside[w][b] + (IF b = at[w] THEN usd ELSE 0)
    BY <1>1, <2>1 DEF Recording
  <2>3. n[w][b] = m[w][b] + ((guarded'[w][b] + outside'[w][b])
                               - (guarded[w][b] + outside[w][b]))
    BY DEF Ledger
  <2> QED BY <2>1, <2>2, <2>3
<1>4. usd \in Nat /\ \A w \in Window : at[w] \in Nat /\ at[w] <= Now(w) /\ Now(w) \in Nat
                                       /\ Now(w) \in Buckets(w)
  BY <1>1, NowType DEF Recording, TimeInv, TypeOK
<1>5. IsHistory(n)
  <2>1. \A w \in Window : n[w] \in [Buckets(w) -> Nat]
    <3> SUFFICES ASSUME NEW w \in Window PROVE n[w] \in [Buckets(w) -> Nat]
      OBVIOUS
    <3>1. \A b \in Buckets(w) : n[w][b] \in Nat
      BY <1>3, <1>4
    <3> QED BY <3>1
  <2> QED BY <2>1 DEF IsHistory
<1>6. NoneAhead(n)'
  <2> SUFFICES ASSUME NEW w \in Window, NEW b \in Buckets(w), b > Now(w)
               PROVE  n[w][b] = 0
    BY <1>2 DEF NoneAhead, Now
  <2>1. b \in Nat /\ b # at[w]
    BY <1>4, BucketsType
  <2>2. m[w][b] = 0
    BY DEF NoneAhead
  <2> QED BY <1>3, <2>1, <2>2
<1>7. ASSUME NEW saved, IsSaved(saved), SavedGap(saved, m)
      PROVE  SavedGap(saved, n)'
  <2> SUFFICES ASSUME NEW w \in Window
               PROVE  Get(saved.total[w], Now(w)) + n[w][Now(w)]
                        = guarded'[w][Now(w)] + outside'[w][Now(w)]
    BY <1>2 DEF SavedGap, Now
  <2>1. Get(saved.total[w], Now(w)) + m[w][Now(w)]
          = guarded[w][Now(w)] + outside[w][Now(w)]
    BY <1>7 DEF SavedGap
  <2>2. Get(saved.total[w], Now(w)) \in Nat
    BY <1>7 DEF IsSaved, Get
  <2> QED BY <1>3, <1>4, <2>1, <2>2
<1> QED BY <1>5, <1>6, <1>7

\* from_dict trims what it reads to the newest buckets: the present one is among them.
LEMMA LoadedCurrent ==
    ASSUME TypeOK, NEW saved, IsSaved(saved), NEW w \in Window
    PROVE  /\ Get(Trim(saved.total[w], Keep[w]), Now(w)) = Get(saved.total[w], Now(w))
           /\ DOMAIN Trim(saved.total[w], Keep[w]) \subseteq {b \in Buckets(w) : b <= Now(w)}
           /\ \A b \in DOMAIN Trim(saved.total[w], Keep[w]) :
                 Trim(saved.total[w], Keep[w])[b] \in Nat
           /\ Cardinality(DOMAIN Trim(saved.total[w], Keep[w])) <= Keep[w]
<1> DEFINE f == saved.total[w]  n == Keep[w]  now == Now(w)
<1>1. /\ DOMAIN f \subseteq {b \in Buckets(w) : b <= now}
      /\ \A b \in DOMAIN f : f[b] \in Nat
      /\ DOMAIN f \subseteq Nat
  BY BucketsType DEF IsSaved
<1>2. n \in Nat \ {0} /\ now \in Nat
  BY NowType, CapAssumption DEF TypeOK
<1>3. IsFiniteSet(DOMAIN f)
  <2>1. IsFiniteSet(Instant)
    BY SizeAssumption, FS_Interval DEF Instant
  <2> DEFINE bucketAt == [t \in Instant |-> Bucket[w][t]]
  <2>2. bucketAt \in Surjection(Instant, Buckets(w))
    BY DEF Surjection, Buckets
  <2>3. IsFiniteSet(Buckets(w))
    BY <2>1, <2>2, FS_Surjection
  <2> QED BY <1>1, <2>3, FS_Subset
<1> HIDE DEF f, n, now
<1>4. Cardinality(Newest(f, n)) <= n
  BY <1>1, <1>2, <1>3, NewestBounded
<1>5. {x \in DOMAIN f : x > now} = {}
  BY <1>1, <1>2
<1>6. Cardinality({x \in DOMAIN f : x > now}) < n
  BY <1>2, <1>5, FS_EmptySet
<1>7. now \in DOMAIN f => now \in Newest(f, n)
  BY <1>6 DEF Newest
<1>8. Newest(f, n) \subseteq DOMAIN f
  BY DEF Newest
<1>9. /\ Get(Trim(f, n), now) = Get(f, now)
      /\ DOMAIN Trim(f, n) = Newest(f, n)
      /\ \A b \in Newest(f, n) : Trim(f, n)[b] = f[b]
  BY <1>7, <1>8 DEF Trim, Get
<1> QED BY <1>1, <1>4, <1>8, <1>9 DEF f, n, now

\* The state that load() leaves has the types, whatever parts it could read.
LEMMA RestartLoads ==
    ASSUME RestartInv, NEW parts, Restart(parts)
    PROVE  TimeInv'
<1> DEFINE read == IF Enabled THEN parts ELSE {}
<1>1. /\ total' = [w \in Window |-> IF w \in read THEN Trim(blob.total[w], Keep[w]) ELSE <<>>]
      /\ stat' = IF "per_token" \in read THEN blob.stat ELSE <<>>
      /\ UNCHANGED <<clock, guarded, outside, calls>>
      /\ alerted' = {} /\ attempted' = {} /\ admitted' = {}
      /\ pc' = [th \in Thread |-> "idle"]
      /\ caller' = [th \in Thread |-> NoToken]
      /\ start' = [th \in Thread |-> 0]
      /\ pending' = [th \in Thread |-> {}]
  BY DEF Restart, FromDict
<1>2. TypeOK /\ FutureEmpty /\ IsSaved(blob)
  BY DEF RestartInv, RestartTypeOK
<1> HIDE DEF read
<1>3. ASSUME NEW w \in Window
      PROVE  /\ DOMAIN total'[w] \subseteq {b \in Buckets(w) : b <= Now(w)}
             /\ \A b \in DOMAIN total'[w] : total'[w][b] \in Nat
             /\ Cardinality(DOMAIN total'[w]) <= Keep[w]
  <2>1. CASE w \in read
    BY <1>1, <1>2, <2>1, LoadedCurrent
  <2>2. CASE w \notin read
    <3>1. DOMAIN total'[w] = {}
      BY <1>1, <2>2
    <3> QED BY <3>1, FS_EmptySet, CapAssumption
  <2> QED BY <2>1, <2>2
<1>4. /\ DOMAIN stat' \subseteq Token
      /\ \A tk \in DOMAIN stat' : stat'[tk] \in [usd : Nat, week : Buckets("weekly")]
  BY <1>1, <1>2 DEF IsSaved
<1>5. 0 \in Instant /\ clock \in Instant /\ 0 <= clock
  BY <1>2, SizeAssumption DEF TypeOK, Instant
<1>6. TypeOK'
  <2>1. DOMAIN total' = Window
    BY <1>1
  <2>2. start' \in [Thread -> Instant]
    BY <1>1, <1>5
  <2>3. /\ clock' \in Instant /\ calls' \in 0..MaxCalls
        /\ DOMAIN guarded' = Window /\ DOMAIN outside' = Window
        /\ \A w \in Window : /\ guarded'[w] \in [Buckets(w) -> Nat]
                             /\ outside'[w] \in [Buckets(w) -> Nat]
    BY <1>1, <1>2 DEF TypeOK
  <2>4. /\ alerted' \subseteq LatchKey /\ attempted' \subseteq LatchKey
        /\ admitted' \subseteq Thread
        /\ pc' \in [Thread -> {"idle", "calling", "recording", "delivering"}]
        /\ caller' \in [Thread -> Identity]
        /\ pending' \in [Thread -> SUBSET LatchKey]
    BY <1>1 DEF Identity
  <2> QED BY <1>3, <1>4, <2>1, <2>2, <2>3, <2>4
          DEF TypeOK, Identity, Instant, LatchKey, Buckets
<1>7. InFlight'
  BY <1>1, <1>5 DEF InFlight
<1>8. FutureEmpty'
  BY <1>1, <1>2, <1>3 DEF FutureEmpty, Now
<1> QED BY <1>6, <1>7, <1>8 DEF TimeInv

\* The larger of two numbers.
LEMMA MaxOfTwo ==
    ASSUME NEW a \in Nat, NEW b \in Nat
    PROVE  Max({a, b}) \in Nat /\ a <= Max({a, b}) /\ b <= Max({a, b})
<1>1. \E x \in {a, b} : \A y \in {a, b} : x >= y
  OBVIOUS
<1> QED BY <1>1 DEF Max

\* After a crash memory lacks what the blob lacks, and all of the parts that could not
\* be read; no call is in flight.
LEMMA RestartLoses ==
    ASSUME RestartInv, NEW parts, Restart(parts)
    PROVE  RestartInv'
<1> DEFINE read == IF Enabled THEN parts ELSE {}
           Absent == [w \in Window |-> IF w \in read THEN blobMissing[w] ELSE Ledger[w]]
<1>1. /\ total' = [w \in Window |-> IF w \in read THEN Trim(blob.total[w], Keep[w]) ELSE <<>>]
      /\ UNCHANGED <<clock, guarded, outside, blob, blobMissing>>
      /\ restarts < MaxRestarts /\ restarts' = restarts + 1
      /\ dirty' = FALSE /\ writer' = "waiting" /\ snapshot' = Empty
      /\ missing' = Absent /\ snapMissing' = Nothing /\ admitted' = {}
      /\ peak' = [w \in Window |-> [b \in Buckets(w) |-> Max({peak[w][b], Absent[w][b]})]]
      /\ inherited' = TripsOf(total', stat')
  BY DEF Restart, FromDict
<1>2. /\ TypeOK /\ FutureEmpty /\ IsSaved(blob) /\ IsHistory(blobMissing) /\ IsHistory(peak)
      /\ restarts \in 0..MaxRestarts
  BY DEF RestartInv, RestartTypeOK
<1>3. TimeInv'
  BY RestartLoads
<1>4. \A w \in Window : Now(w)' = Now(w) /\ Now(w) \in Buckets(w) /\ Buckets(w) \subseteq Nat
                        /\ Now(w) \in Nat
  BY <1>1, <1>2, NowType, BucketsType DEF Now, TypeOK
<1>5. ASSUME NEW w \in Window, NEW b \in Buckets(w)
      PROVE  /\ Absent[w][b] = IF w \in read THEN blobMissing[w][b]
                                             ELSE guarded[w][b] + outside[w][b]
             /\ Absent[w][b] \in Nat
             /\ b > Now(w) => Absent[w][b] = 0
             /\ peak[w][b] \in Nat /\ peak'[w][b] \in Nat
             /\ peak[w][b] <= peak'[w][b] /\ Absent[w][b] <= peak'[w][b]
             /\ guarded[w][b] \in Nat /\ outside[w][b] \in Nat
  <2>1. Absent[w][b] = IF w \in read THEN blobMissing[w][b]
                                     ELSE guarded[w][b] + outside[w][b]
    BY DEF Ledger
  <2>2. /\ blobMissing[w][b] \in Nat /\ peak[w][b] \in Nat
        /\ guarded[w][b] \in Nat /\ outside[w][b] \in Nat
    BY <1>2, HistoryType DEF TypeOK
  <2>3. b > Now(w) => blobMissing[w][b] = 0 /\ guarded[w][b] = 0 /\ outside[w][b] = 0
    BY <1>2 DEF RestartInv, MissingBounded, FutureEmpty
  <2>4. Absent[w][b] \in Nat
    BY <2>1, <2>2
  <2>5. peak'[w][b] = Max({peak[w][b], Absent[w][b]})
    BY <1>1
  <2> HIDE DEF Absent
  <2> QED BY <2>1, <2>2, <2>3, <2>4, <2>5, MaxOfTwo
<1> HIDE DEF Absent
<1>6. IsHistory(Nothing) /\ \A w \in Window : \A b \in Buckets(w) : Nothing[w][b] = 0
  BY NothingType
<1>7. IsSaved(Empty)'
  <2>1. \A w \in Window : DOMAIN Empty.total[w] = {}
    BY DEF Empty
  <2>2. \A w \in Window : Cardinality(DOMAIN Empty.total[w]) <= Keep[w]
    BY <2>1, FS_EmptySet, CapAssumption
  <2>3. DOMAIN Empty.total = Window /\ DOMAIN Empty.stat = {}
    BY DEF Empty
  <2> QED BY <2>1, <2>2, <2>3 DEF IsSaved
<1>8. RestartTypeOK'
  <2>1. DOMAIN Absent = Window /\ \A w \in Window : DOMAIN Absent[w] = Buckets(w)
                                     /\ Absent[w] = [b \in Buckets(w) |-> Absent[w][b]]
    BY <1>2 DEF Absent, IsHistory, Ledger
  <2>2. IsHistory(Absent)
    <3>1. \A w \in Window : Absent[w] \in [Buckets(w) -> Nat]
      <4> SUFFICES ASSUME NEW w \in Window PROVE Absent[w] \in [Buckets(w) -> Nat]
        OBVIOUS
      <4>1. \A b \in Buckets(w) : Absent[w][b] \in Nat
        BY <1>5
      <4>2. Absent[w] = [b \in Buckets(w) |-> Absent[w][b]]
        BY <2>1
      <4> QED BY <4>1, <4>2
    <3> QED BY <2>1, <3>1 DEF IsHistory
  <2>3. IsHistory(peak')
    <3>1. \A w \in Window : peak'[w] \in [Buckets(w) -> Nat]
      <4> SUFFICES ASSUME NEW w \in Window PROVE peak'[w] \in [Buckets(w) -> Nat]
        OBVIOUS
      <4>1. \A b \in Buckets(w) : peak'[w][b] \in Nat
        BY <1>5
      <4>2. peak'[w] = [b \in Buckets(w) |-> Max({peak[w][b], Absent[w][b]})]
        BY <1>1
      <4> QED BY <4>1, <4>2
    <3> QED BY <1>1, <3>1 DEF IsHistory
  <2>4. inherited' \subseteq LatchKey'
    BY <1>1 DEF TripsOf
  <2>5. restarts' \in 0..MaxRestarts
    BY <1>1, <1>2, RestartAssumption
  <2>6. IsSaved(blob)'
    BY <1>1, <1>2 DEF IsSaved, Now
  <2>7. IsSaved(snapshot)'
    BY <1>1, <1>7 DEF IsSaved
  <2>8. \A history \in {missing', snapMissing', blobMissing', peak'} : IsHistory(history)
    BY <1>1, <1>2, <1>6, <2>2, <2>3
  <2>9. \A history \in {missing, snapMissing, blobMissing, peak}' : IsHistory(history)'
    BY <2>8 DEF IsHistory, Buckets
  <2>10. TypeOK' /\ dirty' \in BOOLEAN /\ writer' \in {"waiting", "debouncing", "writing"}
    BY <1>1, <1>3 DEF TimeInv
  <2>11. \A saved \in {snapshot, blob}' : IsSaved(saved)'
    BY <2>6, <2>7 DEF IsSaved
  <2> QED BY <2>4, <2>5, <2>8, <2>9, <2>10, <2>11 DEF RestartTypeOK, LatchKey
<1>9. LossIsUnsaved'
  <2> SUFFICES ASSUME NEW w \in Window
               PROVE  /\ Get(total'[w], Now(w)) + missing'[w][Now(w)]
                           = guarded[w][Now(w)] + outside[w][Now(w)]
                      /\ Get(blob.total[w], Now(w)) + blobMissing[w][Now(w)]
                           = guarded[w][Now(w)] + outside[w][Now(w)]
    BY <1>1, <1>4 DEF LossIsUnsaved, Ledger
  <2>1. Get(blob.total[w], Now(w)) + blobMissing[w][Now(w)]
          = guarded[w][Now(w)] + outside[w][Now(w)]
    BY <1>4 DEF RestartInv, LossIsUnsaved, Ledger
  <2>2. CASE w \in read
    <3>1. total'[w] = Trim(blob.total[w], Keep[w])
      BY <1>1, <2>2
    <3>2. Get(total'[w], Now(w)) = Get(blob.total[w], Now(w))
      BY <1>2, <3>1, LoadedCurrent
    <3>3. missing'[w][Now(w)] = blobMissing[w][Now(w)]
      BY <1>1, <1>4, <1>5, <2>2
    <3> QED BY <2>1, <3>2, <3>3
  <2>3. CASE w \notin read
    <3>1. Get(total'[w], Now(w)) = 0
      BY <1>1, <2>3 DEF Get
    <3>2. /\ missing'[w][Now(w)] = guarded[w][Now(w)] + outside[w][Now(w)]
          /\ missing'[w][Now(w)] \in Nat
      BY <1>1, <1>4, <1>5, <2>3
    <3> QED BY <2>1, <3>1, <3>2
  <2> QED BY <2>2, <2>3
<1>10. SnapshotLoss'
  BY <1>1 DEF SnapshotLoss
<1>11. MissingBounded'
  <2> SUFFICES ASSUME NEW w \in Window, NEW b \in Buckets(w)
               PROVE  /\ missing'[w][b] <= peak'[w][b]
                      /\ b > Now(w) => /\ missing'[w][b] = 0 /\ snapMissing'[w][b] = 0
                                       /\ blobMissing[w][b] = 0
    BY <1>1, <1>4 DEF MissingBounded
  <2>1. b > Now(w) => blobMissing[w][b] = 0
    BY DEF RestartInv, MissingBounded
  <2> QED BY <1>1, <1>5, <1>6, <2>1
<1>12. ReservedAcrossRestarts'
  <2> SUFFICES ASSUME Enabled, NEW w \in Window, NEW b \in Buckets(w)
               PROVE  guarded[w][b] + MaxCost * Cardinality(MayCredit(w, b)')
                         < Cap[w] + MaxCost * Cardinality(Thread) + peak'[w][b]
    BY <1>1 DEF ReservedAcrossRestarts
  <2>1. MayCredit(w, b)' = {} /\ MayCredit(w, b) \in SUBSET Thread
    BY <1>1, <1>2 DEF MayCredit, TypeOK
  <2>2. Cardinality(MayCredit(w, b)') = 0 /\ Cardinality(MayCredit(w, b)) \in Nat
    BY <1>2, <2>1, FS_EmptySet, ThreadsFinite
  <2>3. /\ MaxCost * 0 = 0 /\ MaxCost * Cardinality(MayCredit(w, b)) \in Nat
        /\ MaxCost * Cardinality(Thread) \in Nat /\ Cap[w] \in Nat
    BY <1>2, <2>2, SizeAssumption, CapAssumption, ThreadsFinite, TimesMonotone
  <2>4. guarded[w][b] + MaxCost * Cardinality(MayCredit(w, b))
          < Cap[w] + MaxCost * Cardinality(Thread) + peak[w][b]
    BY DEF RestartInv, ReservedAcrossRestarts
  <2> QED BY <1>5, <2>2, <2>3, <2>4
<1> QED BY <1>3, <1>8, <1>9, <1>10, <1>11, <1>12 DEF RestartInv, TimeInv

\* A process that has just been started for the first time has lost nothing.
LEMMA RestartStarts == RestartInit => RestartInv
<1> SUFFICES ASSUME RestartInit PROVE RestartInv
  OBVIOUS
<1>1. SpendInv /\ TimeInv
  BY InitSpend, SpendIsLossless DEF RestartInit, SpendInv, TimeInv
<1>2. TypeOK /\ Gap(Nothing) /\ Held(Nothing)
  BY <1>1, SpendIsLossless DEF SpendInv
<1>3. /\ missing = Nothing /\ snapMissing = Nothing /\ blobMissing = Nothing
      /\ peak = Nothing /\ snapshot = Empty /\ blob = Empty /\ dirty = FALSE
      /\ writer = "waiting" /\ inherited = {} /\ restarts = 0
  BY DEF RestartInit
<1>4. IsHistory(Nothing) /\ \A w \in Window : \A b \in Buckets(w) : Nothing[w][b] = 0
  BY NothingType
<1>5. IsSaved(Empty)
  <2>1. \A w \in Window : DOMAIN Empty.total[w] = {}
    BY DEF Empty
  <2>2. \A w \in Window : Cardinality(DOMAIN Empty.total[w]) <= Keep[w]
    BY <2>1, FS_EmptySet, CapAssumption
  <2>3. DOMAIN Empty.total = Window /\ DOMAIN Empty.stat = {}
    BY DEF Empty
  <2> QED BY <2>1, <2>2, <2>3 DEF IsSaved
<1>6. RestartTypeOK
  <2>1. \A saved \in {snapshot, blob} : IsSaved(saved)
    BY <1>3, <1>5
  <2>2. \A history \in {missing, snapMissing, blobMissing, peak} : IsHistory(history)
    BY <1>3, <1>4
  <2>3. restarts \in 0..MaxRestarts
    BY <1>3, RestartAssumption
  <2> QED BY <1>2, <1>3, <2>1, <2>2, <2>3 DEF RestartTypeOK
<1>7. LossIsUnsaved
  <2> SUFFICES ASSUME NEW w \in Window
               PROVE  /\ Get(total[w], Now(w)) + missing[w][Now(w)] = Ledger[w][Now(w)]
                      /\ Get(blob.total[w], Now(w)) + blobMissing[w][Now(w)]
                           = Ledger[w][Now(w)]
    BY DEF LossIsUnsaved
  <2>1. Now(w) \in Buckets(w)
    BY <1>2, NowType DEF TypeOK
  <2>2. Get(total[w], Now(w)) + missing[w][Now(w)] = Ledger[w][Now(w)]
    BY <1>2, <1>3, <2>1 DEF Gap, Ledger
  <2>3. Get(blob.total[w], Now(w)) = Get(total[w], Now(w))
    BY <1>3 DEF RestartInit, Init, Empty, Get
  <2> QED BY <1>3, <2>2, <2>3
<1>8. SnapshotLoss
  BY <1>3 DEF SnapshotLoss
<1>9. MissingBounded
  BY <1>3, <1>4 DEF MissingBounded
<1>10. ReservedAcrossRestarts
  BY <1>2, <1>3 DEF ReservedAcrossRestarts, Held
<1> QED BY <1>1, <1>6, <1>7, <1>8, <1>9, <1>10 DEF RestartInv, TimeInv

\* The accounts of what is missing, one by one.
LEMMA LossAccounts ==
    ASSUME TypeOK
    PROVE  /\ LossIsUnsaved <=> Gap(missing) /\ SavedGap(blob, blobMissing)
           /\ SnapshotLoss <=> (writer = "writing" => SavedGap(snapshot, snapMissing))
<1>1. \A w \in Window : Ledger[w][Now(w)] = guarded[w][Now(w)] + outside[w][Now(w)]
  BY NowType DEF TypeOK, Ledger
<1>2. LossIsUnsaved <=> Gap(missing) /\ SavedGap(blob, blobMissing)
  BY <1>1 DEF LossIsUnsaved, Gap, SavedGap
<1>3. SnapshotLoss <=> (writer = "writing" => SavedGap(snapshot, snapMissing))
  BY <1>1 DEF SnapshotLoss, SavedGap
<1> QED BY <1>2, <1>3

LEMMA RestartAccounts ==
    ASSUME RestartInv
    PROVE  /\ TimeInv /\ Gap(missing) /\ Held(peak) /\ SavedGap(blob, blobMissing)
           /\ writer = "writing" => SavedGap(snapshot, snapMissing)
           /\ NoneAhead(missing) /\ NoneAhead(snapMissing) /\ NoneAhead(blobMissing)
           /\ IsHistory(missing) /\ IsHistory(snapMissing) /\ IsHistory(blobMissing)
           /\ IsHistory(peak) /\ IsSaved(snapshot) /\ IsSaved(blob)
           /\ \A w \in Window : \A b \in Buckets(w) : missing[w][b] <= peak[w][b]
<1>1. TypeOK /\ TimeInv /\ LossIsUnsaved /\ SnapshotLoss
  BY DEF RestartInv, RestartTypeOK, TimeInv
<1>2. /\ IsHistory(missing) /\ IsHistory(snapMissing) /\ IsHistory(blobMissing)
      /\ IsHistory(peak) /\ IsSaved(snapshot) /\ IsSaved(blob)
  BY DEF RestartInv, RestartTypeOK
<1>3. /\ NoneAhead(missing) /\ NoneAhead(snapMissing) /\ NoneAhead(blobMissing)
      /\ \A w \in Window : \A b \in Buckets(w) : missing[w][b] <= peak[w][b]
  BY DEF RestartInv, MissingBounded, NoneAhead
<1>4. Held(peak)
  BY DEF RestartInv, ReservedAcrossRestarts, Held
<1> QED BY <1>1, <1>2, <1>3, <1>4, LossAccounts

\* The steps of the counter keep what memory lacks, and admit within it.
LEMMA ServeMemory ==
    ASSUME RestartInv, [Next]_vars, UNCHANGED <<missing, peak>>
    PROVE  /\ TimeInv' /\ Gap(missing)' /\ Held(peak)'
           /\ NoneAhead(missing)'
           /\ \A w \in Window : \A b \in Buckets(w) : missing'[w][b] <= peak'[w][b]
<1> PICK m : m = missing
  OBVIOUS
<1> PICK s : s = peak
  OBVIOUS
<1>1. TimeInv /\ IsHistory(m) /\ IsHistory(s) /\ Gap(m) /\ Held(s) /\ NoneAhead(m)
  BY RestartAccounts
<1>2. \A w \in Window : \A b \in Buckets(w) : m[w][b] <= s[w][b]
  BY RestartAccounts
<1>3. TimeInv'
  BY <1>1, NextTime
<1>4. Gap(m)'
  BY <1>1, NextGap DEF NoneAhead
<1>5. ASSUME NEW tk \in Identity, Enabled, ~ Refused(tk), NEW w \in Window
      PROVE  guarded[w][Now(w)] < Cap[w] + s[w][Now(w)]
  <2>1. guarded[w][Now(w)] < Cap[w] + m[w][Now(w)]
    BY <1>1, <1>5, AdmissionWithin
  <2>2. Now(w) \in Buckets(w) /\ Cap[w] \in Nat
    BY <1>1, NowType, CapAssumption DEF TimeInv, TypeOK
  <2>3. m[w][Now(w)] \in Nat /\ s[w][Now(w)] \in Nat /\ guarded[w][Now(w)] \in Nat
    BY <1>1, <2>2, HistoryType DEF TimeInv, TypeOK
  <2> QED BY <1>2, <2>1, <2>2, <2>3
<1>6. Held(s)'
  BY <1>1, <1>5, NextHeld
<1>7. NoneAhead(m)'
  BY <1>1, LaterAhead
<1>8. m = missing' /\ s = peak'
  OBVIOUS
<1> QED BY <1>2, <1>3, <1>4, <1>6, <1>7, <1>8 DEF Gap, Held, NoneAhead

\* The clock, and every step of a thread but record() under its lock, keep the saved states.
LEMMA QuietRestart ==
    ASSUME RestartInv, [Next]_vars, UNCHANGED <<guarded, outside>>,
           UNCHANGED <<writer, snapshot, blob, lossVars, inherited, restarts>>,
           dirty' \in BOOLEAN
    PROVE  RestartInv'
<1> USE DEF lossVars
<1> PICK sn : sn = snapshot
  OBVIOUS
<1> PICK bl : bl = blob
  OBVIOUS
<1> PICK sm : sm = snapMissing
  OBVIOUS
<1> PICK bm : bm = blobMissing
  OBVIOUS
<1>1. /\ TimeInv /\ IsSaved(sn) /\ IsSaved(bl) /\ NoneAhead(sm) /\ NoneAhead(bm)
      /\ SavedGap(bl, bm) /\ (writer = "writing" => SavedGap(sn, sm))
  BY RestartAccounts
<1>2. /\ TimeInv' /\ Gap(missing)' /\ Held(peak)' /\ NoneAhead(missing)'
      /\ \A w \in Window : \A b \in Buckets(w) : missing'[w][b] <= peak'[w][b]
  BY ServeMemory
<1>3. IsSaved(sn)' /\ IsSaved(bl)' /\ NoneAhead(sm)' /\ NoneAhead(bm)'
  BY <1>1, LaterSaved, LaterAhead
<1>4. SavedGap(bl, bm)'
  BY <1>1, LaterGap
<1>5. writer = "writing" => SavedGap(sn, sm)'
  BY <1>1, LaterGap
<1>6. RestartTypeOK'
  BY <1>2, <1>3 DEF RestartInv, RestartTypeOK, TimeInv, IsSaved, IsHistory, LatchKey, Buckets
<1>7. LossIsUnsaved' /\ SnapshotLoss'
  <2>1. TypeOK'
    BY <1>2 DEF TimeInv
  <2>2. SavedGap(blob, blobMissing)'
    BY <1>4 DEF SavedGap
  <2>3. (writer = "writing" => SavedGap(snapshot, snapMissing))'
    BY <1>5 DEF SavedGap
  <2> QED BY <1>2, <2>1, <2>2, <2>3, LossAccounts, PTL
<1>8. MissingBounded'
  BY <1>2, <1>3 DEF MissingBounded, NoneAhead
<1>9. ReservedAcrossRestarts'
  BY <1>2 DEF ReservedAcrossRestarts, Held
<1> QED BY <1>2, <1>6, <1>7, <1>8, <1>9 DEF RestartInv, TimeInv

\* What record() adds is in memory, and in neither the snapshot nor the blob.
LEMMA RecordRestart ==
    ASSUME RestartInv, NEW th \in Thread, RecordCall(th)
    PROVE  RestartInv'
<1> PICK sn : sn = snapshot
  OBVIOUS
<1> PICK bl : bl = blob
  OBVIOUS
<1> PICK sm : sm = snapMissing
  OBVIOUS
<1> PICK bm : bm = blobMissing
  OBVIOUS
<1> PICK sn2 : sn2 = [w \in Window |-> [b \in Buckets(w) |->
                         sm[w][b] + (Ledger'[w][b] - Ledger[w][b])]]
  OBVIOUS
<1> PICK bn2 : bn2 = [w \in Window |-> [b \in Buckets(w) |->
                         bm[w][b] + (Ledger'[w][b] - Ledger[w][b])]]
  OBVIOUS
<1>1. /\ TimeInv /\ IsSaved(sn) /\ IsSaved(bl) /\ NoneAhead(sm) /\ NoneAhead(bm)
      /\ IsHistory(sm) /\ IsHistory(bm)
      /\ SavedGap(bl, bm) /\ (writer = "writing" => SavedGap(sn, sm))
  BY RestartAccounts
<1>2. /\ Record(th) /\ snapMissing' = sn2 /\ blobMissing' = bn2
      /\ UNCHANGED <<dirty, writer, snapshot, blob, missing, peak, inherited, restarts>>
  BY DEF RecordCall, writerVars
<1>3. [Next]_vars
  BY <1>2 DEF Next, Step
<1>4. /\ TimeInv' /\ Gap(missing)' /\ Held(peak)' /\ NoneAhead(missing)'
      /\ \A w \in Window : \A b \in Buckets(w) : missing'[w][b] <= peak'[w][b]
  BY <1>2, <1>3, ServeMemory
<1>5. /\ IsHistory(sn2) /\ NoneAhead(sn2)'
      /\ writer = "writing" => SavedGap(sn, sn2)'
  BY <1>1, <1>2, RecordLost
<1>6. IsHistory(bn2) /\ NoneAhead(bn2)' /\ SavedGap(bl, bn2)'
  BY <1>1, <1>2, RecordLost
<1>7. IsSaved(sn)' /\ IsSaved(bl)'
  BY <1>1, <1>3, LaterSaved
<1>8. RestartTypeOK'
  BY <1>2, <1>4, <1>5, <1>6, <1>7
  DEF RestartInv, RestartTypeOK, TimeInv, IsSaved, IsHistory, LatchKey, Buckets
<1>9. LossIsUnsaved' /\ SnapshotLoss'
  <2>1. TypeOK'
    BY <1>4 DEF TimeInv
  <2>2. SavedGap(blob, blobMissing)'
    BY <1>2, <1>6 DEF SavedGap
  <2>3. (writer = "writing" => SavedGap(snapshot, snapMissing))'
    BY <1>2, <1>5 DEF SavedGap
  <2> QED BY <1>4, <2>1, <2>2, <2>3, LossAccounts, PTL
<1>10. MissingBounded'
  BY <1>2, <1>4, <1>5, <1>6 DEF MissingBounded, NoneAhead
<1>11. ReservedAcrossRestarts'
  BY <1>4 DEF ReservedAcrossRestarts, Held
<1> QED BY <1>4, <1>8, <1>9, <1>10, <1>11 DEF RestartInv, TimeInv

\* The writer's steps leave the counter alone: to_dict is all that memory holds, and
\* the blob becomes what was serialised.
LEMMA WriterRestart ==
    ASSUME RestartInv, Wake \/ Snapshot \/ Written \/ WriteFailed
    PROVE  RestartInv'
<1>1. UNCHANGED vars /\ UNCHANGED <<missing, peak, inherited, restarts>>
  BY DEF Wake, Snapshot, Written, WriteFailed, lossVars
<1>2. /\ UNCHANGED <<total, stat, clock, guarded, outside, admitted, pc, start>>
      /\ [Next]_vars
  BY <1>1 DEF vars, counterVars, historyVars
<1>3. /\ TimeInv' /\ Gap(missing)' /\ Held(peak)' /\ NoneAhead(missing)'
      /\ \A w \in Window : \A b \in Buckets(w) : missing'[w][b] <= peak'[w][b]
  BY <1>1, <1>2, ServeMemory
<1>4. IsSaved(Serialised) /\ IsSaved(Empty) /\ IsHistory(Nothing)
  <2>1. IsSaved(Serialised)
    BY DEF RestartInv, RestartTypeOK, TypeOK, FutureEmpty, IsSaved, Serialised
  <2>2. \A w \in Window : DOMAIN Empty.total[w] = {}
    BY DEF Empty
  <2>3. \A w \in Window : Cardinality(DOMAIN Empty.total[w]) <= Keep[w]
    BY <2>2, FS_EmptySet, CapAssumption
  <2>4. DOMAIN Empty.total = Window /\ DOMAIN Empty.stat = {}
    BY DEF Empty
  <2>5. IsSaved(Empty)
    BY <2>2, <2>3, <2>4 DEF IsSaved
  <2> QED BY <2>1, <2>5, NothingType
<1>5. /\ snapshot' \in {snapshot, Serialised, Empty} /\ blob' \in {blob, snapshot}
      /\ snapMissing' \in {snapMissing, missing, Nothing}
      /\ blobMissing' \in {blobMissing, snapMissing}
      /\ dirty' \in BOOLEAN /\ writer' \in {"waiting", "debouncing", "writing"}
  <2>1. dirty \in BOOLEAN /\ writer \in {"waiting", "debouncing", "writing"}
    BY DEF RestartInv, RestartTypeOK
  <2> QED BY <2>1 DEF Wake, Snapshot, Written, WriteFailed, lossVars
<1>6. RestartTypeOK'
  <2>1. IsSaved(snapshot') /\ IsSaved(blob')
    BY <1>4, <1>5 DEF RestartInv, RestartTypeOK
  <2>2. IsHistory(snapMissing') /\ IsHistory(blobMissing')
    BY <1>4, <1>5 DEF RestartInv, RestartTypeOK
  <2>3. IsSaved(snapshot)' /\ IsSaved(blob)'
    BY <1>2, <2>1 DEF IsSaved, Now
  <2> QED BY <1>1, <1>3, <1>5, <2>2, <2>3
      DEF RestartInv, RestartTypeOK, TimeInv, IsSaved, IsHistory, LatchKey, Buckets
<1>7. MissingBounded'
  <2>1. \A w \in Window : \A b \in Buckets(w) : b > Now(w) =>
           /\ missing[w][b] = 0 /\ snapMissing[w][b] = 0 /\ blobMissing[w][b] = 0
           /\ Nothing[w][b] = 0
    BY NothingType DEF RestartInv, MissingBounded
  <2>2. \A w \in Window : \A b \in Buckets(w) : b > Now(w) =>
           snapMissing'[w][b] = 0 /\ blobMissing'[w][b] = 0
    BY <1>5, <2>1
  <2> QED BY <1>2, <1>3, <2>2 DEF MissingBounded, NoneAhead, Now
<1>8. LossIsUnsaved' /\ SnapshotLoss'
  <2>1. LossIsUnsaved' <=> \A w \in Window :
          /\ Get(total[w], Now(w)) + missing[w][Now(w)] = Ledger[w][Now(w)]
          /\ Get(blob'.total[w], Now(w)) + blobMissing'[w][Now(w)] = Ledger[w][Now(w)]
    BY <1>1, <1>2 DEF LossIsUnsaved, Ledger, Now
  <2>2. SnapshotLoss' <=> (writer' = "writing" => \A w \in Window :
          Get(snapshot'.total[w], Now(w)) + snapMissing'[w][Now(w)] = Ledger[w][Now(w)])
    BY <1>1, <1>2 DEF SnapshotLoss, Ledger, Now
  <2>3. CASE Wake
    BY <2>1, <2>2, <2>3 DEF Wake, RestartInv, LossIsUnsaved, lossVars
  <2>4. CASE Snapshot
    BY <2>1, <2>2, <2>4 DEF Snapshot, Serialised, RestartInv, LossIsUnsaved
  <2>5. CASE Written
    BY <2>1, <2>2, <2>5 DEF Written, RestartInv, LossIsUnsaved, SnapshotLoss
  <2>6. CASE WriteFailed
    BY <2>1, <2>2, <2>6 DEF WriteFailed, RestartInv, LossIsUnsaved
  <2> QED BY <2>3, <2>4, <2>5, <2>6
<1>9. ReservedAcrossRestarts'
  BY <1>3 DEF ReservedAcrossRestarts, Held
<1> QED BY <1>3, <1>6, <1>7, <1>8, <1>9 DEF RestartInv, TimeInv

\* Every step is one of the counter, of its writer, or a restart.
LEMMA RestartSteps ==
    ASSUME RestartInv, [RestartNext]_allVars
    PROVE  \/ /\ [Next]_vars /\ UNCHANGED <<guarded, outside>> /\ dirty' \in BOOLEAN
              /\ UNCHANGED <<writer, snapshot, blob, lossVars, inherited, restarts>>
           \/ \E th \in Thread : RecordCall(th)
           \/ Wake \/ Snapshot \/ Written \/ WriteFailed
           \/ \E n \in 0..Len(Part) : Restart(LoadFirst(n))
<1>0. TimeInv /\ dirty \in BOOLEAN
  BY DEF RestartInv, RestartTypeOK, TimeInv
<1>1. CASE Serve
  <2>1. UNCHANGED <<dirty, writer, snapshot, blob, lossVars, inherited, restarts>>
    BY <1>1 DEF Serve, restartVars, writerVars
  <2>2. CASE Tick
    BY <1>0, <2>1, <2>2 DEF Next, Tick, historyVars
  <2>3. ASSUME NEW th \in Thread, NEW tk \in Identity,
               Enforce(th, tk) \/ Refuse(th, tk) \/ BeginRecordUsage(th, tk)
        PROVE  [Next]_vars /\ UNCHANGED <<guarded, outside>>
    BY <2>3 DEF Next, Step, Enforce, Refuse, BeginRecordUsage, historyVars, vars
  <2>4. ASSUME NEW th \in Thread, Abandon(th) \/ BeginRecord(th) \/ Deliver(th)
        PROVE  [Next]_vars /\ UNCHANGED <<guarded, outside>>
    BY <2>4 DEF Next, Step, Abandon, BeginRecord, Deliver, historyVars
  <2> QED BY <1>0, <1>1, <2>1, <2>2, <2>3, <2>4 DEF Serve
<1>2. ASSUME NEW th \in Thread, ReturnDirty(th)
      PROVE  /\ [Next]_vars /\ UNCHANGED <<guarded, outside>> /\ dirty' \in BOOLEAN
             /\ UNCHANGED <<writer, snapshot, blob, lossVars, inherited, restarts>>
  BY <1>2, SizeAssumption DEF ReturnDirty, Return, Next, Step, historyVars
<1>3. CASE UNCHANGED allVars
  BY <1>0, <1>3 DEF allVars, restartVars, writerVars, vars, historyVars
<1> QED BY <1>1, <1>2, <1>3 DEF RestartNext, RestartLoading

\* What memory, the snapshot and the blob hold and lack stays accounted for across every
\* interleaving of record(), the writer, crashes and loads (flush, load, from_dict).
THEOREM RestartInvariant == RestartSpec => []RestartInv
<1>1. RestartInit => RestartInv
  BY RestartStarts
<1>2. RestartInv /\ [RestartNext]_allVars => RestartInv'
  BY RestartSteps, QuietRestart, RecordRestart, WriterRestart, RestartLoses
<1> QED BY <1>1, <1>2, PTL DEF RestartSpec

\* A crash loses exactly what was recorded since the snapshot last written was taken.
THEOREM LossIsExact == RestartSpec => []LossIsUnsaved
<1>1. RestartInv => LossIsUnsaved
  BY DEF RestartInv
<1> QED BY <1>1, RestartInvariant, PTL

\* The caps bind across restarts, but for what a process of the window started without.
THEOREM OvershootAcrossRestarts == RestartSpec => []SpendBoundedAcrossRestarts
<1>1. RestartInv => SpendBoundedAcrossRestarts
  <2> SUFFICES ASSUME RestartInv, Enabled, NEW w \in Window, NEW b \in Buckets(w)
               PROVE  guarded[w][b]
                         < Cap[w] + MaxCost * Cardinality(Thread) + peak[w][b]
    BY DEF SpendBoundedAcrossRestarts
  <2>1. TypeOK /\ IsHistory(peak)
    BY DEF RestartInv, RestartTypeOK
  <2>2. MayCredit(w, b) \in SUBSET Thread
    BY <2>1 DEF MayCredit, TypeOK
  <2>3. /\ MaxCost * Cardinality(MayCredit(w, b)) \in Nat
        /\ MaxCost * Cardinality(Thread) \in Nat
    BY <2>1, <2>2, ThreadsFinite, SizeAssumption, TimesMonotone
  <2>4. guarded[w][b] \in Nat /\ Cap[w] \in Nat /\ peak[w][b] \in Nat
    BY <2>1, CapAssumption, HistoryType DEF TypeOK
  <2> QED BY <2>3, <2>4 DEF RestartInv, ReservedAcrossRestarts
<1> QED BY <1>1, RestartInvariant, PTL

\* Recording latches every trip point it reaches; what it does not credit stays as it was.
LEMMA RecordReaches ==
    ASSUME TypeOK, NEW th \in Thread, Record(th)
    PROVE  TripsOf(total', stat') \subseteq TripsOf(total, stat) \cup alerted'
<1>1. PICK at \in [Window -> Nat], usd \in 0..MaxCost : RecordLocked(th, at, usd)
  BY RecordBuckets
<1>2. /\ alerted' = alerted \cup Trips(total', stat', at, caller[th])
      /\ stat' = Stat(caller[th], at["weekly"], usd)
  BY <1>1 DEF RecordLocked
<1>3. ASSUME NEW w \in Window, NEW b \in DOMAIN total'[w], b # at[w]
      PROVE  b \in DOMAIN total[w] /\ total'[w][b] = total[w][b]
  <2>1. total'[w] = Trim(Add(total[w], at[w], usd), Keep[w])
    BY <1>1 DEF RecordLocked, Credited
  <2> QED BY <1>3, <2>1 DEF Trim, Newest, Add
<1>4. Cap \in [Window -> Nat \ {0}]
  BY CapAssumption
<1> SUFFICES ASSUME NEW key \in TripsOf(total', stat')
             PROVE  key \in TripsOf(total, stat) \cup alerted'
  OBVIOUS
<1>5. /\ key \in LatchKey /\ Enabled
      /\ Reached(key, total', stat', [w \in Window |-> key[3]], key[2])
  BY DEF TripsOf
<1>6. CASE key = <<"daily", NoToken, key[3]>> /\ Get(total'["daily"], key[3]) >= Cap["daily"]
  <2>1. CASE key[3] = at["daily"]
    BY <1>2, <1>5, <1>6, <2>1 DEF Trips, Reached
  <2>2. CASE key[3] # at["daily"]
    <3>1. key[3] \in DOMAIN total'["daily"]
      BY <1>4, <1>6 DEF Get, Window
    <3>2. Get(total["daily"], key[3]) >= Cap["daily"]
      BY <1>3, <1>6, <2>2, <3>1 DEF Get, Window
    <3> QED BY <1>5, <1>6, <3>2 DEF TripsOf, Reached, Window
  <2> QED BY <2>1, <2>2
<1>7. CASE key = <<"hourly", NoToken, key[3]>> /\ Get(total'["hourly"], key[3]) >= Cap["hourly"]
  <2>1. CASE key[3] = at["hourly"]
    BY <1>2, <1>5, <1>7, <2>1 DEF Trips, Reached
  <2>2. CASE key[3] # at["hourly"]
    <3>1. key[3] \in DOMAIN total'["hourly"]
      BY <1>4, <1>7 DEF Get, Window
    <3>2. Get(total["hourly"], key[3]) >= Cap["hourly"]
      BY <1>3, <1>7, <2>2, <3>1 DEF Get, Window
    <3> QED BY <1>5, <1>7, <3>2 DEF TripsOf, Reached, Window
  <2> QED BY <2>1, <2>2
<1>8. CASE /\ key = <<"weekly80", NoToken, key[3]>>
           /\ 5 * Get(total'["weekly"], key[3]) >= 4 * Cap["weekly"]
  <2>1. CASE key[3] = at["weekly"]
    BY <1>2, <1>5, <1>8, <2>1 DEF Trips, Reached
  <2>2. CASE key[3] # at["weekly"]
    <3>1. key[3] \in DOMAIN total'["weekly"]
      BY <1>4, <1>8 DEF Get, Window
    <3>2. 5 * Get(total["weekly"], key[3]) >= 4 * Cap["weekly"]
      BY <1>3, <1>8, <2>2, <3>1 DEF Get, Window
    <3> QED BY <1>5, <1>8, <3>2 DEF TripsOf, Reached, Window
  <2> QED BY <2>1, <2>2
<1>9. CASE /\ key[2] \in DOMAIN stat' /\ key = <<"per_token", key[2], key[3]>>
           /\ stat'[key[2]].week = key[3] /\ stat'[key[2]].usd >= TokenCap
  <2>1. CASE key[2] = caller[th] /\ caller[th] # NoToken
    <3>1. key[3] = at["weekly"]
      BY <1>2, <1>9, <2>1 DEF Stat
    <3> QED BY <1>2, <1>5, <1>9, <2>1, <3>1 DEF Trips, Reached
  <2>2. CASE key[2] # caller[th] \/ caller[th] = NoToken
    <3>1. key[2] \in DOMAIN stat /\ stat'[key[2]] = stat[key[2]]
      BY <1>2, <1>9, <2>2 DEF Stat
    <3>2. Reached(key, total, stat, [w \in Window |-> key[3]], key[2])
      BY <1>9, <3>1 DEF Reached, Window
    <3> QED BY <1>5, <3>2 DEF TripsOf
  <2> QED BY <2>1, <2>2
<1> QED BY <1>5, <1>6, <1>7, <1>8, <1>9 DEF Reached, Window

\* Whatever has reached its trip point was latched here, or was found reached at load.
THEOREM TripsAcrossRestarts == RestartSpec => []TripLatchedOrInherited
<1>1. RestartInit => TripLatchedOrInherited
  <2> SUFFICES ASSUME RestartInit PROVE TripsOf(total, stat) = {}
    BY DEF TripLatchedOrInherited
  <2>1. /\ \A w \in Window : DOMAIN total[w] = {}
        /\ DOMAIN stat = {}
        /\ Cap \in [Window -> Nat \ {0}]
    BY CapAssumption DEF RestartInit, Init
  <2> QED BY <2>1 DEF TripsOf, Reached, Get, Window
<1>2. RestartInv /\ TripLatchedOrInherited /\ [RestartNext]_allVars => TripLatchedOrInherited'
  <2> SUFFICES ASSUME RestartInv, TripLatchedOrInherited, [RestartNext]_allVars
               PROVE  TripLatchedOrInherited'
    OBVIOUS
  <2>0. TypeOK
    BY DEF RestartInv, RestartTypeOK
  <2>1. ASSUME UNCHANGED counterVars, inherited' = inherited
        PROVE  TripLatchedOrInherited'
    <3>1. TripsOf(total, stat)' = TripsOf(total, stat)
      BY <2>1 DEF counterVars, TripsOf, Reached, LatchKey
    <3> QED BY <2>1, <3>1 DEF counterVars, TripLatchedOrInherited
  <2>2. CASE Serve
    <3>1. inherited' = inherited
      BY <2>2 DEF Serve, restartVars
    <3>2. UNCHANGED counterVars
      BY <2>2 DEF Serve, Tick, Enforce, Refuse, BeginRecordUsage, Abandon, BeginRecord,
                  Deliver, vars
    <3> QED BY <2>1, <3>1, <3>2
  <2>3. ASSUME NEW th \in Thread, RecordCall(th)
        PROVE  TripLatchedOrInherited'
    <3>1. Record(th) /\ inherited' = inherited
      BY <2>3 DEF RecordCall
    <3>2. TripsOf(total', stat') \subseteq TripsOf(total, stat) \cup alerted'
      BY <2>0, <3>1, RecordReaches
    <3>3. alerted \subseteq alerted'
      BY <3>1 DEF Record, RecordLocked
    <3>4. TripsOf(total, stat)' = TripsOf(total', stat')
      BY DEF TripsOf, Reached, LatchKey
    <3> QED BY <3>1, <3>2, <3>3, <3>4 DEF TripLatchedOrInherited
  <2>4. ASSUME NEW th \in Thread, ReturnDirty(th)
        PROVE  TripLatchedOrInherited'
    BY <2>1, <2>4 DEF ReturnDirty, Return
  <2>5. CASE Wake \/ Snapshot \/ Written \/ WriteFailed
    BY <2>1, <2>5 DEF Wake, Snapshot, Written, WriteFailed, vars
  <2>6. ASSUME NEW n \in 0..Len(Part), Restart(LoadFirst(n))
        PROVE  TripLatchedOrInherited'
    <3>1. inherited' = TripsOf(total', stat')
      BY <2>6 DEF Restart
    <3>2. TripsOf(total, stat)' = TripsOf(total', stat')
      BY DEF TripsOf, Reached, LatchKey
    <3> QED BY <3>1, <3>2 DEF TripLatchedOrInherited
  <2>7. CASE UNCHANGED allVars
    BY <2>1, <2>7 DEF allVars, vars, restartVars
  <2> QED BY <2>2, <2>3, <2>4, <2>5, <2>6, <2>7 DEF RestartNext, RestartLoading
<1> QED BY <1>1, <1>2, RestartInvariant, PTL DEF RestartSpec
=============================================================================
