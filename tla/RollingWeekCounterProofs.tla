---------------------- MODULE RollingWeekCounterProofs ----------------------
(***************************************************************************)
(* The tables of RollingWeekCounter keep their bound and evict the least   *)
(* recently seen key, and no weekly tally goes beyond its cap by more than *)
(* the events in flight: for every number of threads, every set of         *)
(* dimensions and keys, every cap, calendar and amount.                    *)
(***************************************************************************)
EXTENDS RollingWeekCounter, FiniteSetTheorems, WellFoundedInduction, TLAPS

-----------------------------------------------------------------------------
(* Tables: _trim_table and the insertion order *)

\* A nonempty set of naturals has a least element.
LEMMA LeastElement ==
    ASSUME NEW S, S \subseteq Nat, S # {}
    PROVE  \E m \in S : \A x \in S : m <= x
<1> DEFINE R == {ss \in Nat \X Nat : ss[1] < ss[2]}
<1>1. IsWellFoundedOn(R, Nat)
  BY NatLessThanWellFounded DEF OpToRel
<1>2. \A x, y \in Nat : x < y => <<x, y>> \in R
  OBVIOUS
<1> HIDE DEF R
<1>3. PICK m \in S : \A x \in S : ~ (<<x, m>> \in R)
  BY <1>1, WFMin
<1>4. ASSUME NEW x \in S, x < m PROVE FALSE
  <2>1. x \in Nat /\ m \in Nat
    OBVIOUS
  <2>2. <<x, m>> \in R
    BY <1>2, <1>4, <2>1, Zenon
  <2> QED BY <1>3, <2>2
<1> QED BY <1>4

\* Of the records of a table, some record is dropped before every other.
LEMMA FirstRecord ==
    ASSUME NEW f, NEW S, S \subseteq DOMAIN f, S # {},
           \A k \in DOMAIN f : f[k].seen \in Nat /\ f[k].rank \in Nat,
           \A j, k \in DOMAIN f : f[j].rank = f[k].rank => j = k
    PROVE  \E m \in S : \A k \in S \ {m} : Before(f[m], f[k])
<1>1. PICK s \in {f[k].seen : k \in S} : \A x \in {f[k].seen : k \in S} : s <= x
  <2>1. {f[k].seen : k \in S} \subseteq Nat /\ {f[k].seen : k \in S} # {}
    OBVIOUS
  <2> HIDE DEF Before
  <2> QED BY <2>1, LeastElement
<1> DEFINE T == {k \in S : f[k].seen = s}
           Ranks == {f[k].rank : k \in T}
<1>2. PICK r \in Ranks : \A x \in Ranks : r <= x
  <2>1. Ranks \subseteq Nat /\ Ranks # {}
    OBVIOUS
  <2> HIDE DEF Ranks
  <2> QED BY <2>1, LeastElement
<1>3. PICK m \in T : f[m].rank = r
  OBVIOUS
<1>4. ASSUME NEW k \in S, k # m
      PROVE  Before(f[m], f[k])
  <2>1. s <= f[k].seen /\ f[m].seen = s
    BY <1>1
  <2>2. CASE f[k].seen = s
    <3>1. r <= f[k].rank
      BY <1>2, <2>2
    <3>2. f[k].rank # f[m].rank
      BY <1>4
    <3> QED BY <1>3, <2>1, <2>2, <3>1, <3>2 DEF Before
  <2>3. CASE f[k].seen # s
    BY <2>1, <2>3 DEF Before
  <2> QED BY <2>2, <2>3
<1> QED BY <1>4

\* The keys that _trim_table keeps.
Kept(f, n) == {k \in DOMAIN f : Cardinality({j \in DOMAIN f : Before(f[k], f[j])}) < n}

\* _trim_table leaves at most n records.
LEMMA TrimBounded ==
    ASSUME NEW f, IsFiniteSet(DOMAIN f), NEW n \in Nat \ {0},
           \A k \in DOMAIN f : f[k].seen \in Nat /\ f[k].rank \in Nat,
           \A j, k \in DOMAIN f : f[j].rank = f[k].rank => j = k
    PROVE  Cardinality(Kept(f, n)) <= n
<1> DEFINE S == Kept(f, n)
<1>1. S \subseteq DOMAIN f
  BY DEF Kept
<1>2. IsFiniteSet(S) /\ Cardinality(S) \in Nat
  BY <1>1, FS_Subset, FS_CardinalityType
<1>3. CASE S = {}
  BY <1>3, FS_EmptySet
<1>4. CASE S # {}
  <2>1. PICK m \in S : \A k \in S \ {m} : Before(f[m], f[k])
    BY <1>1, <1>4, FirstRecord
  <2> DEFINE Later == {j \in DOMAIN f : Before(f[m], f[j])}
  <2>2. Cardinality(Later) < n
    BY DEF Kept
  <2>3. IsFiniteSet(Later) /\ Cardinality(Later) \in Nat
    <3>1. Later \subseteq DOMAIN f  OBVIOUS
    <3> QED BY <3>1, FS_Subset, FS_CardinalityType
  <2>4. S \ {m} \subseteq Later
    BY <1>1, <2>1
  <2>5. Cardinality(S \ {m}) <= Cardinality(Later)
    BY <2>3, <2>4, FS_Subset
  <2>6. Cardinality(S \ {m}) = Cardinality(S) - 1
    BY <1>2, FS_RemoveElement
  <2> QED BY <1>2, <2>2, <2>3, <2>5, <2>6
<1> QED BY <1>3, <1>4

\* A key is dropped from a table only when the table has one key too many, and then
\* alone, and before every key that is kept.
LEMMA TrimEvicts ==
    ASSUME NEW f, IsFiniteSet(DOMAIN f), NEW n \in Nat \ {0},
           Cardinality(DOMAIN f) <= n + 1,
           \A k \in DOMAIN f : f[k].seen \in Nat /\ f[k].rank \in Nat,
           NEW k \in DOMAIN f, k \notin Kept(f, n)
    PROVE  /\ Cardinality(DOMAIN f) = n + 1 /\ Cardinality(Kept(f, n)) = n
           /\ \A j \in Kept(f, n) : f[j].seen >= f[k].seen
<1> DEFINE Others == DOMAIN f \ {k}
           Later(x) == {j \in DOMAIN f : Before(f[x], f[j])}
<1>1. /\ IsFiniteSet(Others) /\ Cardinality(Others) \in Nat
      /\ Cardinality(Others) = Cardinality(DOMAIN f) - 1
      /\ Cardinality(DOMAIN f) \in Nat
  BY FS_RemoveElement, FS_CardinalityType
<1>2. \A x \in DOMAIN f : /\ Later(x) \subseteq DOMAIN f
                          /\ IsFiniteSet(Later(x)) /\ Cardinality(Later(x)) \in Nat
  <2> SUFFICES ASSUME NEW x \in DOMAIN f
               PROVE  IsFiniteSet(Later(x)) /\ Cardinality(Later(x)) \in Nat
    OBVIOUS
  <2>1. Later(x) \subseteq DOMAIN f
    OBVIOUS
  <2> QED BY <2>1, FS_Subset, FS_CardinalityType
<1>3. Cardinality(Later(k)) \in Nat /\ Cardinality(Later(k)) >= n
  <2>1. ~ (Cardinality(Later(k)) < n)
    BY Zenon DEF Kept
  <2>2. Cardinality(Later(k)) \in Nat
    BY <1>2
  <2> QED BY <2>1, <2>2
<1>4. Later(k) \subseteq Others
  BY DEF Before
<1>5. Later(k) = Others /\ Cardinality(Others) = n
  <2>1. Cardinality(Later(k)) <= Cardinality(Others)
    BY <1>1, <1>4, FS_Subset
  <2>2. Cardinality(Later(k)) = n /\ Cardinality(Others) = n
    BY <1>1, <1>3, <2>1
  <2> QED BY <1>1, <1>4, <2>2, FS_Subset
<1>6. \A j \in Others : Before(f[k], f[j])
  BY <1>5
<1>7. ASSUME NEW j \in Others PROVE j \in Kept(f, n)
  <2>1. Later(j) \subseteq Others \ {j}
    <3>1. k \notin Later(j) /\ j \notin Later(j)
      BY <1>6 DEF Before
    <3> QED BY <3>1
  <2>2. /\ IsFiniteSet(Others \ {j})
        /\ Cardinality(Others \ {j}) = n - 1
    BY <1>1, <1>5, FS_RemoveElement
  <2>3. Cardinality(Later(j)) <= n - 1
    BY <2>1, <2>2, FS_Subset
  <2>4. j \in DOMAIN f /\ Cardinality(Later(j)) \in Nat
    BY <1>2
  <2>5. Cardinality(Later(j)) < n
    BY <2>3, <2>4
  <2> QED BY <2>4, <2>5, Zenon DEF Kept
<1>8. Kept(f, n) = Others
  BY <1>7 DEF Kept
<1>9. \A j \in Others : f[j].seen >= f[k].seen
  BY <1>6 DEF Before
<1> QED BY <1>1, <1>5, <1>8, <1>9

\* A new key's rank is the least above those of the table.
LEMMA RankLast ==
    ASSUME NEW f, NEW k, k \notin DOMAIN f, NEW r \in 0..MaxEvents,
           \A j \in DOMAIN f : f[j].rank \in Nat /\ f[j].rank < r
    PROVE  /\ Rank(f, k) \in Nat /\ Rank(f, k) <= r
           /\ \A j \in DOMAIN f : f[j].rank < Rank(f, k)
<1> DEFINE Free == {q \in 0..MaxEvents : \A j \in DOMAIN f : f[j].rank < q}
<1>1. Free \subseteq Nat /\ r \in Free
  BY SizeAssumption
<1>2. \A q \in Free : \A j \in DOMAIN f : f[j].rank < q
  OBVIOUS
<1>3. Rank(f, k) = Min(Free)
  BY DEF Rank
<1> HIDE DEF Free
<1>4. \E m \in Free : \A q \in Free : m <= q
  BY <1>1, LeastElement
<1>5. Min(Free) \in Free /\ \A q \in Free : Min(Free) <= q
  BY <1>4 DEF Min
<1> QED BY <1>1, <1>2, <1>3, <1>5
-----------------------------------------------------------------------------
(* Room: the arithmetic of the reservations *)

\* More threads set aside at least as much.
LEMMA TimesMonotone ==
    ASSUME NEW m \in Nat, NEW a \in Int, NEW b \in Int, a <= b
    PROVE  m * a \in Int /\ m * b \in Int /\ m * a <= m * b
OBVIOUS

\* One more thread sets one more largest amount aside.
LEMMA TimesOneMore ==
    ASSUME NEW m \in Nat, NEW a \in Int
    PROVE  m * a \in Int /\ m * (a + 1) = m * a + m
OBVIOUS

\* The number of any set of threads is a number, and all of them are the most.
LEMMA ThreadsFinite ==
    /\ Cardinality(Thread) \in Nat
    /\ \A S \in SUBSET Thread : /\ IsFiniteSet(S) /\ Cardinality(S) \in Nat
                                /\ Cardinality(S) <= Cardinality(Thread)
BY SizeAssumption, FS_Subset, FS_CardinalityType

\* A tally with room stays within the cap and the overshoot of TallyBounded.
LEMMA RoomBounds ==
    ASSUME NEW st \in BOOLEAN, NEW am \in [Thread -> 0..MaxAmount], NEW d \in Dim,
           NEW tally \in Nat, NEW A \in SUBSET Thread, Room(st, am, d, tally, A)
    PROVE  IF st THEN tally <= Cap[d] + MaxAmount * (Cardinality(Thread) - 1)
                 ELSE tally < Cap[d] + MaxAmount * Cardinality(Thread)
<1> DEFINE N == Cardinality(Thread)
           a == Cardinality(A)
<1>1. N \in Nat /\ a \in Nat /\ MaxAmount \in Nat /\ Cap[d] \in Nat
  BY ThreadsFinite, SizeAssumption, CapAssumption
<1>2. \A th \in A : am[th] \in Nat /\ a >= 1
  <2> SUFFICES ASSUME NEW th \in A PROVE am[th] \in Nat /\ a >= 1
    OBVIOUS
  <2>1. am[th] \in Nat
    BY <1>1
  <2>2. a # 0
    BY ThreadsFinite, FS_EmptySet
  <2> QED BY <1>1, <2>1, <2>2
<1> HIDE DEF N, a
<1>3. /\ MaxAmount * (N - 1 - a) \in Int /\ MaxAmount * (N - 1) \in Int
      /\ MaxAmount * (N - 1 - a) <= MaxAmount * (N - 1)
      /\ MaxAmount * (N - 0 - a) \in Int /\ MaxAmount * N \in Int
      /\ MaxAmount * (N - 0 - a) <= MaxAmount * N
  BY <1>1, TimesMonotone
<1>4. CASE ~ st
  BY <1>1, <1>3, <1>4 DEF Room, N, a
<1>5. CASE st /\ tally <= Cap[d] + MaxAmount * (N - 1 - a)
  BY <1>1, <1>3, <1>5 DEF N
<1>6. CASE st /\ \E th \in A : tally + am[th] <= Cap[d] + MaxAmount * (N - 0 - a)
  <2>1. PICK th \in A : tally + am[th] <= Cap[d] + MaxAmount * (N - 0 - a)
    BY <1>6
  <2>2. am[th] \in Nat /\ a >= 1
    BY <1>2
  <2>3. MaxAmount * (N - 0 - a) <= MaxAmount * (N - 1)
    BY <1>1, <2>2, TimesMonotone
  <2> QED BY <1>1, <1>3, <1>6, <2>1, <2>2, <2>3 DEF N
<1> QED BY <1>4, <1>5, <1>6 DEF Room, N, a

\* Threads that drop out leave room.
LEMMA RoomOfFewer ==
    ASSUME NEW st \in BOOLEAN,
           NEW am \in [Thread -> 0..MaxAmount], NEW am2 \in [Thread -> 0..MaxAmount],
           NEW d \in Dim, NEW tally \in Nat,
           NEW A \in SUBSET Thread, NEW B \in SUBSET A, \A th \in B : am2[th] = am[th],
           Room(st, am, d, tally, A)
    PROVE  Room(st, am2, d, tally, B)
<1> DEFINE N == Cardinality(Thread)
           a == Cardinality(A)
           b == Cardinality(B)
<1>1. /\ N \in Nat /\ a \in Nat /\ b \in Nat /\ b <= a
      /\ MaxAmount \in Nat /\ Cap[d] \in Nat
  BY ThreadsFinite, FS_Subset, SizeAssumption, CapAssumption
<1>2. \A th \in A : am[th] \in Nat
  BY <1>1
<1>3. \A th \in A \ B : b + 1 <= a
  <2> SUFFICES ASSUME NEW th \in A, th \notin B PROVE b + 1 <= a
    OBVIOUS
  <2>1. a # b
    BY ThreadsFinite, FS_Subset
  <2> QED BY <1>1, <2>1
<1> HIDE DEF N, a, b
<1>4. /\ MaxAmount * (N - 1 - a) \in Int /\ MaxAmount * (N - 1 - b) \in Int
      /\ MaxAmount * (N - 1 - a) <= MaxAmount * (N - 1 - b)
      /\ MaxAmount * (N - 0 - a) \in Int /\ MaxAmount * (N - 0 - b) \in Int
      /\ MaxAmount * (N - 0 - a) <= MaxAmount * (N - 0 - b)
  BY <1>1, TimesMonotone
<1>5. CASE ~ st
  BY <1>1, <1>4, <1>5 DEF Room, N, a, b
<1>6. CASE st /\ tally <= Cap[d] + MaxAmount * (N - 1 - a)
  BY <1>1, <1>4, <1>6 DEF Room, N, b
<1>7. CASE st /\ \E th \in A : tally + am[th] <= Cap[d] + MaxAmount * (N - 0 - a)
  <2>1. PICK th \in A : tally + am[th] <= Cap[d] + MaxAmount * (N - 0 - a)
    BY <1>7
  <2>2. CASE th \in B
    <3>1. tally + am2[th] <= Cap[d] + MaxAmount * (N - 0 - b)
      BY <1>1, <1>2, <1>4, <2>1, <2>2
    <3> QED BY <1>7, <2>2, <3>1 DEF Room, N, b
  <2>3. CASE th \notin B
    <3>1. MaxAmount * (N - 0 - a) <= MaxAmount * (N - 1 - b)
      BY <1>1, <1>3, <2>3, TimesMonotone
    <3>2. tally <= Cap[d] + MaxAmount * (N - 1 - b)
      BY <1>1, <1>2, <1>4, <2>1, <3>1
    <3> QED BY <1>7, <3>2 DEF Room, N, b
  <2> QED BY <2>2, <2>3
<1> QED BY <1>5, <1>6, <1>7 DEF Room, N, a

\* A tally that admits an event has room for it and all others.
LEMMA RoomOfAdmitted ==
    ASSUME NEW st \in BOOLEAN, NEW am \in [Thread -> 0..MaxAmount], NEW d \in Dim,
           NEW tally \in Nat, NEW A \in SUBSET Thread, NEW th \in A,
           IF st THEN tally + am[th] <= Cap[d] ELSE tally < Cap[d]
    PROVE  Room(st, am, d, tally, A)
<1> DEFINE N == Cardinality(Thread)
           a == Cardinality(A)
<1>1. /\ N \in Nat /\ a \in Nat /\ a <= N
      /\ MaxAmount \in Nat /\ Cap[d] \in Nat /\ am[th] \in Nat
  BY ThreadsFinite, SizeAssumption, CapAssumption
<1> HIDE DEF N, a
<1>2. MaxAmount * (N - 0 - a) \in Int /\ 0 <= MaxAmount * (N - 0 - a)
  BY <1>1, TimesMonotone
<1>3. CASE st
  <2>1. tally + am[th] <= Cap[d] + MaxAmount * (N - 0 - a)
    BY <1>1, <1>2, <1>3
  <2> QED BY <1>3, <2>1 DEF Room, N, a
<1>4. CASE ~ st
  BY <1>1, <1>2, <1>4 DEF Room, N, a
<1> QED BY <1>3, <1>4

\* A recorded event takes the room that was set aside for its thread.
LEMMA RoomOfRecorded ==
    ASSUME NEW st \in BOOLEAN,
           NEW am \in [Thread -> 0..MaxAmount], NEW am2 \in [Thread -> 0..MaxAmount],
           NEW d \in Dim, NEW tally \in Nat, NEW A \in SUBSET Thread, NEW th \in A,
           \A x \in A \ {th} : am2[x] = am[x], Room(st, am, d, tally, A)
    PROVE  Room(st, am2, d, tally + am[th], A \ {th})
<1> DEFINE N == Cardinality(Thread)
           a == Cardinality(A)
           b == Cardinality(A \ {th})
           usd == am[th]
<1>1. /\ N \in Nat /\ a \in Nat /\ b \in Nat /\ b = a - 1
      /\ MaxAmount \in Nat /\ Cap[d] \in Nat
      /\ usd \in Nat /\ usd <= MaxAmount
  BY ThreadsFinite, FS_RemoveElement, SizeAssumption, CapAssumption
<1>2. \A x \in A : am[x] \in Nat
  BY <1>1
<1>3. /\ MaxAmount * (N - 1 - a) \in Int /\ MaxAmount * (N - 0 - a) \in Int
      /\ MaxAmount * (N - 1 - b) \in Int /\ MaxAmount * (N - 0 - b) \in Int
      /\ MaxAmount * (N - 1 - b) = MaxAmount * (N - 0 - a)
      /\ MaxAmount * (N - 1 - b) = MaxAmount * (N - 1 - a) + MaxAmount
      /\ MaxAmount * (N - 0 - b) = MaxAmount * (N - 0 - a) + MaxAmount
  <2> HIDE DEF N, a, b
  <2>1. /\ N - 1 - b = N - 0 - a /\ N - 1 - b = (N - 1 - a) + 1
        /\ N - 0 - b = (N - 0 - a) + 1 /\ N - 1 - a \in Int /\ N - 0 - a \in Int
    BY <1>1
  <2> QED BY <1>1, <2>1, TimesOneMore
<1> HIDE DEF N, a, b, usd
<1>4. CASE ~ st
  BY <1>1, <1>3, <1>4 DEF Room, N, a, b, usd
<1>5. CASE st /\ tally <= Cap[d] + MaxAmount * (N - 1 - a)
  <2>1. tally + usd <= Cap[d] + MaxAmount * (N - 1 - b)
    BY <1>1, <1>3, <1>5
  <2> QED BY <1>5, <2>1 DEF Room, N, b, usd
<1>6. CASE st /\ \E x \in A : tally + am[x] <= Cap[d] + MaxAmount * (N - 0 - a)
  <2>1. PICK x \in A : tally + am[x] <= Cap[d] + MaxAmount * (N - 0 - a)
    BY <1>6
  <2>2. CASE x = th
    <3>1. tally + usd <= Cap[d] + MaxAmount * (N - 1 - b)
      BY <1>1, <1>3, <2>1, <2>2 DEF usd
    <3> QED BY <1>6, <3>1 DEF Room, N, b, usd
  <2>3. CASE x # th
    <3>1. am2[x] = am[x] /\ am[x] \in Nat /\ x \in A \ {th}
      BY <1>2, <2>3
    <3>2. (tally + usd) + am2[x] <= Cap[d] + MaxAmount * (N - 0 - b)
      BY <1>1, <1>3, <2>1, <3>1
    <3> QED BY <1>6, <3>1, <3>2 DEF Room, N, b, usd
  <2> QED BY <2>2, <2>3
<1> QED BY <1>4, <1>5, <1>6 DEF Room, N, a

\* A tally that begins with one event that was admitted alone has room for all others.
LEMMA RoomOfFirst ==
    ASSUME NEW st \in BOOLEAN, NEW am \in [Thread -> 0..MaxAmount], NEW d \in Dim,
           NEW usd \in 0..MaxAmount, IF st THEN usd <= Cap[d] ELSE Cap[d] > 0,
           NEW th \in Thread, NEW A \in SUBSET (Thread \ {th})
    PROVE  Room(st, am, d, usd, A)
<1> DEFINE N == Cardinality(Thread)
           a == Cardinality(A)
<1>1. /\ N \in Nat /\ a \in Nat /\ a <= N - 1
      /\ MaxAmount \in Nat /\ Cap[d] \in Nat /\ usd \in Nat /\ usd <= MaxAmount
  <2>1. Cardinality(Thread \ {th}) = N - 1 /\ IsFiniteSet(Thread \ {th})
    BY SizeAssumption, FS_RemoveElement
  <2>2. a <= N - 1
    BY <2>1, FS_Subset
  <2>3. a \in Nat
    BY ThreadsFinite
  <2> QED BY <2>2, <2>3, ThreadsFinite, SizeAssumption, CapAssumption
<1> HIDE DEF N, a
<1>2. /\ MaxAmount * (N - 1 - a) \in Int /\ 0 <= MaxAmount * (N - 1 - a)
      /\ MaxAmount * (N - 0 - a) \in Int
      /\ MaxAmount * (N - 0 - a) = MaxAmount * (N - 1 - a) + MaxAmount
  <2>1. N - 0 - a = (N - 1 - a) + 1 /\ N - 1 - a \in Int /\ 0 <= N - 1 - a
    BY <1>1
  <2> QED BY <1>1, <2>1, TimesOneMore, TimesMonotone
<1>3. CASE st
  BY <1>1, <1>2, <1>3 DEF Room, N, a
<1>4. CASE ~ st
  BY <1>1, <1>2, <1>4 DEF Room, N, a
<1> QED BY <1>3, <1>4
-----------------------------------------------------------------------------
(* What record() does to the tables *)

\* The weeks of two instants are in their order.
LEMMA WeekGrows ==
    \A s, t \in Instant : Week[s] \in Nat /\ (s <= t => Week[s] <= Week[t])
BY CalendarAssumption

\* The instants between a thread's entry and the present.
LEMMA InstantsSince ==
    ASSUME TypeOK, NEW th \in Thread, NEW t \in start[th]..clock
    PROVE  t \in Instant /\ start[th] \in Instant /\ clock \in Instant
           /\ start[th] <= t /\ t <= clock
BY SizeAssumption DEF TypeOK, Instant

\* A record added to a table: the key's own, and the others as they were.
LEMMA AddEffect ==
    ASSUME TypeOK, RankedInOrder, NEW d \in Dim, NEW k \in Key \cup {NoKey},
           NEW usd \in 0..MaxAmount, NEW week \in Nat, NEW now \in Instant, Busy # {}
    PROVE  LET g == Add(d, k, usd, week, now)
           IN  /\ DOMAIN g = DOMAIN table[d] \cup ({k} \ {NoKey})
               /\ \A j \in DOMAIN g :
                     /\ g[j] \in Stat
                     /\ j # k => g[j] = table[d][j]
                     /\ j = k => /\ g[j].week = week
                                 /\ g[j].amount = Current(d, k, week) + usd
                     /\ g[j].rank + Cardinality(Busy) <= events
                     /\ \A i \in DOMAIN g : g[i].rank = g[j].rank => i = j
               /\ IsFiniteSet(DOMAIN g)
               /\ Cardinality(DOMAIN g) <= MaxKeys[d] + 1
<1> DEFINE f == table[d]
           g == Add(d, k, usd, week, now)
           busy == Cardinality(Busy)
<1>1. /\ DOMAIN f \subseteq Key /\ NoKey \notin DOMAIN f
      /\ \A j \in DOMAIN f : f[j] \in Stat /\ f[j].rank \in Nat
      /\ Cardinality(DOMAIN f) <= MaxKeys[d]
      /\ events \in 0..MaxEvents /\ MaxEvents \in Nat /\ MaxAmount \in Nat
      /\ MaxKeys[d] \in Nat
  BY SizeAssumption DEF TypeOK, Stat
<1>2. /\ busy \in Nat /\ busy >= 1 /\ busy <= events
  <2>1. Busy \in SUBSET Thread
    BY DEF Busy
  <2>2. busy \in Nat /\ busy # 0
    BY <2>1, ThreadsFinite, FS_EmptySet
  <2> QED BY <2>2 DEF RankedInOrder
<1>3. \A j \in DOMAIN f : /\ f[j].rank < events - busy
                          /\ \A i \in DOMAIN f : f[i].rank = f[j].rank => i = j
  <2>1. \A j \in DOMAIN f : /\ f[j].rank + busy < events
                            /\ \A i \in DOMAIN f : f[i].rank = f[j].rank => i = j
    BY DEF RankedInOrder
  <2> HIDE DEF f, busy
  <2> QED BY <1>1, <1>2, <2>1
<1>4. k # NoKey => /\ Rank(f, k) \in Nat /\ Rank(f, k) <= events - busy
                   /\ \A j \in DOMAIN f : j # k => f[j].rank # Rank(f, k)
  <2>1. CASE k \in DOMAIN f
    <3>1. Rank(f, k) = f[k].rank
      BY <2>1 DEF Rank
    <3> HIDE DEF f, busy
    <3> QED BY <1>1, <1>2, <1>3, <2>1, <3>1
  <2>2. CASE k \notin DOMAIN f
    <3>1. events - busy \in 0..MaxEvents
      BY <1>1, <1>2
    <3> HIDE DEF f, busy
    <3>2. /\ Rank(f, k) \in Nat /\ Rank(f, k) <= events - busy
          /\ \A j \in DOMAIN f : f[j].rank < Rank(f, k)
      BY <1>1, <1>3, <2>2, <3>1, RankLast
    <3> QED BY <1>1, <3>2
  <2> QED BY <2>1, <2>2
<1>5. Current(d, k, week) + usd \in Nat
  <2>1. Current(d, k, week) \in Nat
    BY <1>1 DEF Current, Stat
  <2> QED BY <1>1, <2>1
<1>6. CASE k = NoKey
  <2>1. g = f
    BY <1>6 DEF Add
  <2>2. IsFiniteSet(DOMAIN f) /\ Cardinality(DOMAIN f) <= MaxKeys[d] + 1
    <3>1. IsFiniteSet(DOMAIN f) /\ Cardinality(DOMAIN f) \in Nat
      BY FS_CardinalityType DEF TypeOK
    <3> QED BY <1>1, <3>1
  <2> HIDE DEF f, g, busy
  <2>3. \A j \in DOMAIN f : f[j].rank + busy <= events
    BY <1>1, <1>2, <1>3
  <2> QED BY <1>1, <1>3, <1>6, <2>1, <2>2, <2>3 DEF f, g, busy
<1>7. CASE k # NoKey
  <2>1. /\ DOMAIN g = DOMAIN f \cup {k}
        /\ \A j \in DOMAIN g : j # k => j \in DOMAIN f /\ g[j] = f[j]
        /\ g[k] = [amount |-> Current(d, k, week) + usd, week |-> week, seen |-> now,
                   rank |-> Rank(f, k)]
    BY <1>7 DEF Add
  <2>2. /\ g[k] \in Stat /\ g[k].week = week
        /\ g[k].amount = Current(d, k, week) + usd /\ g[k].rank = Rank(f, k)
    BY <1>4, <1>5, <1>7, <2>1 DEF Stat
  <2>3. IsFiniteSet(DOMAIN g) /\ Cardinality(DOMAIN g) <= MaxKeys[d] + 1
    <3>1. IsFiniteSet(DOMAIN f) /\ Cardinality(DOMAIN f) \in Nat
      BY FS_CardinalityType DEF TypeOK
    <3>2. /\ IsFiniteSet(DOMAIN f \cup {k})
          /\ \/ Cardinality(DOMAIN f \cup {k}) = Cardinality(DOMAIN f)
             \/ Cardinality(DOMAIN f \cup {k}) = Cardinality(DOMAIN f) + 1
      BY <3>1, FS_AddElement
    <3> HIDE DEF f, g
    <3> QED BY <1>1, <2>1, <3>1, <3>2
  <2> HIDE DEF f, g, busy
  <2>4. \A j \in DOMAIN g : g[j].rank + busy <= events
    BY <1>1, <1>2, <1>3, <1>4, <1>7, <2>1, <2>2
  <2>5. \A j \in DOMAIN g : \A i \in DOMAIN g : g[i].rank = g[j].rank => i = j
    BY <1>3, <1>4, <1>7, <2>1, <2>2
  <2> QED BY <1>1, <1>7, <2>1, <2>2, <2>3, <2>4, <2>5 DEF f, g, busy
<1> QED BY <1>6, <1>7

\* The tables after record(): the key of each dimension has its amount added in the week
\* the thread read, some keys are dropped, and the others keep their records.
LEMMA RecordEffect ==
    ASSUME TypeOK, RankedInOrder, NEW th \in Thread, Record(th)
    PROVE  /\ DOMAIN table' = Dim
           /\ \A d \in Dim : /\ DOMAIN table'[d] \subseteq Key
                             /\ IsFiniteSet(DOMAIN table'[d])
                             /\ Cardinality(DOMAIN table'[d]) <= MaxKeys[d]
           /\ \E t \in start[th]..clock : \A d \in Dim : \A k \in DOMAIN table'[d] :
                 /\ table'[d][k] \in Stat
                 /\ k # keys[th][d] => k \in DOMAIN table[d] /\ table'[d][k] = table[d][k]
                 /\ k = keys[th][d] =>
                       /\ table'[d][k].week = Week[t]
                       /\ table'[d][k].amount = Current(d, k, Week[t]) + amount[th]
                 /\ table'[d][k].rank + Cardinality(Busy) <= events
                 /\ \A j \in DOMAIN table'[d] :
                       table'[d][j].rank = table'[d][k].rank => j = k
<1>0. PICK t \in start[th]..clock : \E now \in t..clock :
        table' = [d \in Dim |->
                    Trim(Add(d, keys[th][d], amount[th], Week[t], now), MaxKeys[d])]
  BY DEF Record
<1>1. PICK now \in t..clock :
        table' = [d \in Dim |->
                    Trim(Add(d, keys[th][d], amount[th], Week[t], now), MaxKeys[d])]
  BY <1>0
<1>2. t \in Instant /\ Week[t] \in Nat /\ now \in Instant
  BY InstantsSince, WeekGrows, SizeAssumption DEF Instant
<1>3. Busy # {}
  BY DEF Busy, Record
<1>4. ASSUME NEW d \in Dim
      PROVE  /\ DOMAIN table'[d] \subseteq Key
             /\ IsFiniteSet(DOMAIN table'[d])
             /\ Cardinality(DOMAIN table'[d]) <= MaxKeys[d]
             /\ \A k \in DOMAIN table'[d] :
                   /\ table'[d][k] \in Stat
                   /\ k # keys[th][d] => /\ k \in DOMAIN table[d]
                                         /\ table'[d][k] = table[d][k]
                   /\ k = keys[th][d] =>
                         /\ table'[d][k].week = Week[t]
                         /\ table'[d][k].amount = Current(d, k, Week[t]) + amount[th]
                   /\ table'[d][k].rank + Cardinality(Busy) <= events
                   /\ \A j \in DOMAIN table'[d] :
                         table'[d][j].rank = table'[d][k].rank => j = k
  <2> DEFINE own == keys[th][d]
             g == Add(d, own, amount[th], Week[t], now)
  <2>1. own \in Key \cup {NoKey} /\ amount[th] \in 0..MaxAmount
    BY DEF TypeOK, KeyChoice
  <2>2. /\ DOMAIN g = DOMAIN table[d] \cup ({own} \ {NoKey})
        /\ \A j \in DOMAIN g :
              /\ g[j] \in Stat
              /\ j # own => g[j] = table[d][j]
              /\ j = own => /\ g[j].week = Week[t]
                            /\ g[j].amount = Current(d, own, Week[t]) + amount[th]
              /\ g[j].rank + Cardinality(Busy) <= events
              /\ \A i \in DOMAIN g : g[i].rank = g[j].rank => i = j
        /\ IsFiniteSet(DOMAIN g)
    BY <1>2, <1>3, <2>1, AddEffect
  <2>3. table'[d] = Trim(g, MaxKeys[d])
    BY <1>1
  <2> HIDE DEF own, g
  <2>4. table'[d] = [k \in Kept(g, MaxKeys[d]) |-> g[k]]
    BY <2>3, Zenon DEF Trim, Kept
  <2>5. /\ \A k \in DOMAIN g : g[k].seen \in Nat /\ g[k].rank \in Nat
        /\ \A i, j \in DOMAIN g : g[i].rank = g[j].rank => i = j
    BY <2>2, SizeAssumption DEF Stat, Instant
  <2>6. Cardinality(Kept(g, MaxKeys[d])) <= MaxKeys[d]
    BY <2>2, <2>5, TrimBounded, SizeAssumption
  <2>7. /\ DOMAIN table'[d] = Kept(g, MaxKeys[d])
        /\ Kept(g, MaxKeys[d]) \subseteq DOMAIN g
        /\ \A k \in DOMAIN table'[d] : table'[d][k] = g[k]
    BY <2>4 DEF Kept
  <2>8. DOMAIN g \subseteq Key /\ IsFiniteSet(DOMAIN table'[d])
    BY <2>1, <2>2, <2>7, FS_Subset DEF TypeOK
  <2> QED BY <2>2, <2>6, <2>7, <2>8 DEF own
<1>5. DOMAIN table' = Dim
  BY <1>1
<1> QED BY <1>4, <1>5

\* A key that record() drops is the least recently seen of a dimension that stays full.
LEMMA RecordEvicts ==
    ASSUME TypeOK, RankedInOrder, NEW th \in Thread, Record(th),
           NEW d \in Dim, NEW k \in DOMAIN table[d] \ DOMAIN table'[d]
    PROVE  /\ Cardinality(DOMAIN table'[d]) = MaxKeys[d]
           /\ \A j \in DOMAIN table'[d] : table'[d][j].seen >= table[d][k].seen
<1>0. PICK t \in start[th]..clock : \E now \in t..clock :
        table' = [e \in Dim |->
                    Trim(Add(e, keys[th][e], amount[th], Week[t], now), MaxKeys[e])]
  BY DEF Record
<1>1. PICK now \in t..clock :
        table' = [e \in Dim |->
                    Trim(Add(e, keys[th][e], amount[th], Week[t], now), MaxKeys[e])]
  BY <1>0
<1>2. t \in Instant /\ Week[t] \in Nat /\ now \in Instant /\ t <= now
  BY InstantsSince, WeekGrows, SizeAssumption DEF Instant
<1>3. Busy # {}
  BY DEF Busy, Record
<1> DEFINE own == keys[th][d]
           g == Add(d, own, amount[th], Week[t], now)
<1>4. own \in Key \cup {NoKey} /\ amount[th] \in 0..MaxAmount
  BY DEF TypeOK, KeyChoice
<1>5. /\ DOMAIN g = DOMAIN table[d] \cup ({own} \ {NoKey})
      /\ \A j \in DOMAIN g : g[j] \in Stat /\ (j # own => g[j] = table[d][j])
      /\ IsFiniteSet(DOMAIN g)
      /\ Cardinality(DOMAIN g) <= MaxKeys[d] + 1
  <2>1. /\ DOMAIN g = DOMAIN table[d] \cup ({own} \ {NoKey})
        /\ \A j \in DOMAIN g :
              /\ g[j] \in Stat
              /\ j # own => g[j] = table[d][j]
              /\ j = own => /\ g[j].week = Week[t]
                            /\ g[j].amount = Current(d, own, Week[t]) + amount[th]
              /\ g[j].rank + Cardinality(Busy) <= events
              /\ \A i \in DOMAIN g : g[i].rank = g[j].rank => i = j
        /\ IsFiniteSet(DOMAIN g)
        /\ Cardinality(DOMAIN g) <= MaxKeys[d] + 1
    BY <1>2, <1>3, <1>4, AddEffect
  <2> HIDE DEF own, g
  <2> QED BY <2>1
<1>6. \A j \in DOMAIN g : g[j].seen \in Nat /\ g[j].rank \in Nat
  BY <1>5, SizeAssumption DEF Stat, Instant
<1>7. table'[d] = Trim(g, MaxKeys[d])
  BY <1>1
<1>8. k \in DOMAIN g /\ Cardinality(DOMAIN table[d]) <= MaxKeys[d]
  BY <1>5 DEF TypeOK
<1> HIDE DEF own, g
<1>9. table'[d] = [j \in Kept(g, MaxKeys[d]) |-> g[j]]
  BY <1>7, Zenon DEF Trim, Kept
<1>10. /\ DOMAIN table'[d] = Kept(g, MaxKeys[d])
       /\ Kept(g, MaxKeys[d]) \subseteq DOMAIN g
       /\ \A j \in DOMAIN table'[d] : table'[d][j] = g[j]
  BY <1>9 DEF Kept
<1>11. /\ Cardinality(DOMAIN g) = MaxKeys[d] + 1
       /\ Cardinality(Kept(g, MaxKeys[d])) = MaxKeys[d]
       /\ \A j \in Kept(g, MaxKeys[d]) : g[j].seen >= g[k].seen
  BY <1>5, <1>6, <1>8, <1>10, SizeAssumption, TrimEvicts
<1>12. k # own
  <2>1. DOMAIN g # DOMAIN table[d]
    BY <1>8, <1>11, SizeAssumption
  <2> QED BY <1>5, <2>1
<1> QED BY <1>5, <1>8, <1>10, <1>11, <1>12
-----------------------------------------------------------------------------
(* Every step keeps WeekInv *)

\* A counter that has just been constructed.
LEMMA InitWeek == Init => WeekInv
<1> SUFFICES ASSUME Init PROVE WeekInv
  OBVIOUS
<1>1. \A d \in Dim : DOMAIN table[d] = {}
  BY DEF Init
<1>2. TypeOK
  <2>1. \A d \in Dim : IsFiniteSet(DOMAIN table[d]) /\ Cardinality(DOMAIN table[d]) = 0
    BY <1>1, FS_EmptySet
  <2>2. start \in [Thread -> Instant] /\ clock \in Instant
    BY SizeAssumption DEF Init, Instant
  <2> QED BY <1>1, <2>1, <2>2, SizeAssumption DEF Init, TypeOK, KeyChoice
<1>3. AdmittedAlone
  BY DEF Init, AdmittedAlone
<1>4. RankedInOrder
  <2>1. Busy = {}
    BY DEF Init, Busy
  <2>2. Cardinality(Busy) = 0
    BY <2>1, FS_EmptySet
  <2> QED BY <1>1, <2>2 DEF Init, RankedInOrder
<1> QED BY <1>1, <1>2, <1>3, <1>4 DEF WeekInv, WeekHasBegun, ReservedTally

\* The steps of a thread, those of enforce() by its outcome: every one but Record leaves
\* the tables alone, and none changes another thread.
Refuse(th) ==
    /\ pc[th] = "enforcing"
    /\ Forget(th)
    /\ UNCHANGED <<flags, clock, table, events>>

Admit(th, t) ==
    /\ pc[th] = "enforcing"
    /\ ~ Refused(keys[th], Week[t], amount[th])
    /\ pc' = [pc EXCEPT ![th] = "working"]
    /\ start' = [start EXCEPT ![th] = 0]
    /\ UNCHANGED <<keys, amount, flags, clock, table, events>>

LEMMA EnforceOutcome ==
    ASSUME NEW th \in Thread, Enforce(th)
    PROVE  Refuse(th) \/ \E t \in start[th]..clock : Admit(th, t)
BY DEF Enforce, Refuse, Admit

\* The thread that forgets its event.
LEMMA ForgetType ==
    ASSUME TypeOK, NEW th \in Thread, Forget(th)
    PROVE  /\ pc' \in [Thread -> {"idle", "enforcing", "working", "recording"}]
           /\ keys' \in [Thread -> KeyChoice]
           /\ amount' \in [Thread -> 0..MaxAmount]
           /\ start' \in [Thread -> Instant]
<1>1. 0 \in Instant /\ 0 \in 0..MaxAmount
  BY SizeAssumption DEF Instant
<1>2. [d \in Dim |-> NoKey] \in KeyChoice
  BY DEF KeyChoice
<1> QED BY <1>1, <1>2 DEF Forget, TypeOK

\* The types, and the bound on each table, by every step.
LEMMA TypeKept ==
    ASSUME WeekInv, [Next]_vars
    PROVE  TypeOK'
<1> USE DEF WeekInv
<1>1. CASE Tick
  BY <1>1, SizeAssumption DEF Tick, TypeOK, flags, Instant
<1>2. ASSUME NEW th \in Thread, BeginEnforce(th) PROVE TypeOK'
  <2>1. events' \in 0..MaxEvents
    BY <1>2, SizeAssumption DEF BeginEnforce, TypeOK
  <2>2. PICK event \in KeyChoice : keys' = [keys EXCEPT ![th] = event]
    BY <1>2 DEF BeginEnforce
  <2>3. PICK usd \in 0..MaxAmount : amount' = [amount EXCEPT ![th] = usd]
    BY <1>2 DEF BeginEnforce
  <2>4. keys' \in [Thread -> KeyChoice] /\ amount' \in [Thread -> 0..MaxAmount]
    BY <2>2, <2>3 DEF TypeOK
  <2>5. /\ pc' \in [Thread -> {"idle", "enforcing", "working", "recording"}]
        /\ start' \in [Thread -> Instant]
        /\ UNCHANGED <<enabled, strict, clock, table>>
    BY <1>2 DEF BeginEnforce, TypeOK, flags
  <2> QED BY <2>1, <2>4, <2>5 DEF TypeOK
<1>3. ASSUME NEW th \in Thread, Refuse(th) \/ Fail(th) PROVE TypeOK'
  <2>1. Forget(th) /\ UNCHANGED <<enabled, strict, clock, table, events>>
    BY <1>3 DEF Refuse, Fail, flags
  <2> QED BY <2>1, ForgetType DEF TypeOK
<1>4. ASSUME NEW th \in Thread, NEW t \in start[th]..clock, Admit(th, t) PROVE TypeOK'
  <2>1. 0 \in Instant
    BY SizeAssumption DEF Instant
  <2> QED BY <1>4, <2>1 DEF Admit, TypeOK, flags
<1>5. ASSUME NEW th \in Thread, BeginRecord(th) PROVE TypeOK'
  BY <1>5 DEF BeginRecord, TypeOK, flags
<1>6. ASSUME NEW th \in Thread, Record(th) PROVE TypeOK'
  <2>2. Forget(th) /\ UNCHANGED <<enabled, strict, clock, events>>
    BY <1>6 DEF Record, flags
  <2>3. /\ DOMAIN table' = Dim
        /\ \A d \in Dim : /\ DOMAIN table'[d] \subseteq Key
                          /\ \A k \in DOMAIN table'[d] : table'[d][k] \in Stat
                          /\ IsFiniteSet(DOMAIN table'[d])
                          /\ Cardinality(DOMAIN table'[d]) <= MaxKeys[d]
    BY <1>6, RecordEffect
  <2> QED BY <2>2, <2>3, ForgetType DEF TypeOK
<1>7. CASE UNCHANGED vars
  BY <1>7 DEF vars, TypeOK, flags
<1> QED BY <1>1, <1>2, <1>3, <1>4, <1>5, <1>6, <1>7, EnforceOutcome DEF Next

\* A key's tally is of a week that has begun, since no thread reads a time to come.
LEMMA WeekKept ==
    ASSUME WeekInv, [Next]_vars
    PROVE  WeekHasBegun'
<1> USE DEF WeekInv
<1>1. TypeOK'
  BY TypeKept
<1>2. clock \in Instant /\ clock' \in Instant /\ clock <= clock'
  BY <1>1, SizeAssumption
  DEF TypeOK, Instant, Next, Tick, BeginEnforce, Enforce, Fail, BeginRecord, Record, vars
<1>3. Week[clock] \in Nat /\ Week[clock'] \in Nat /\ Week[clock] <= Week[clock']
  BY <1>2, WeekGrows
<1>4. CASE UNCHANGED table
  BY <1>3, <1>4 DEF WeekHasBegun, TypeOK, Stat
<1>5. ASSUME NEW th \in Thread, Record(th) PROVE WeekHasBegun'
  <2>1. PICK t \in start[th]..clock : \A d \in Dim : \A k \in DOMAIN table'[d] :
          /\ k # keys[th][d] => k \in DOMAIN table[d] /\ table'[d][k] = table[d][k]
          /\ k = keys[th][d] => table'[d][k].week = Week[t]
    BY <1>5, RecordEffect
  <2>2. Week[t] <= Week[clock] /\ Week[t] \in Nat
    BY InstantsSince, WeekGrows
  <2>3. clock' = clock
    BY <1>5 DEF Record
  <2> QED BY <2>1, <2>2, <2>3 DEF WeekHasBegun
<1> QED BY <1>4, <1>5
        DEF Next, Tick, BeginEnforce, Enforce, Fail, BeginRecord, vars

\* An admitted event is alone within the caps it counts against: enforce() compared it
\* with a tally, or with none.
LEMMA AloneKept ==
    ASSUME WeekInv, [Next]_vars
    PROVE  AdmittedAlone'
<1> USE DEF WeekInv
<1>1. ASSUME UNCHANGED flags,
             \A x \in Thread : pc'[x] \in {"working", "recording"} =>
                /\ pc[x] \in {"working", "recording"}
                /\ keys'[x] = keys[x] /\ amount'[x] = amount[x]
      PROVE  AdmittedAlone'
  BY <1>1 DEF AdmittedAlone, flags
<1>2. CASE Tick \/ UNCHANGED vars
  BY <1>1, <1>2 DEF Tick, vars
<1>3. ASSUME NEW th \in Thread, BeginEnforce(th) PROVE AdmittedAlone'
  <2>1. \A x \in Thread \ {th} : keys'[x] = keys[x] /\ amount'[x] = amount[x]
    BY <1>3 DEF BeginEnforce, TypeOK
  <2>2. pc' = [pc EXCEPT ![th] = "enforcing"] /\ UNCHANGED flags
    BY <1>3 DEF BeginEnforce
  <2> QED BY <1>1, <2>1, <2>2 DEF TypeOK
<1>4. ASSUME NEW th \in Thread, Refuse(th) \/ Fail(th) \/ Record(th)
      PROVE  AdmittedAlone'
  <2>1. \A x \in Thread \ {th} : keys'[x] = keys[x] /\ amount'[x] = amount[x]
    BY <1>4 DEF Refuse, Fail, Record, Forget, TypeOK
  <2>2. pc' = [pc EXCEPT ![th] = "idle"] /\ UNCHANGED flags
    BY <1>4 DEF Refuse, Fail, Record, Forget
  <2> QED BY <1>1, <2>1, <2>2 DEF TypeOK
<1>5. ASSUME NEW th \in Thread, BeginRecord(th) PROVE AdmittedAlone'
  BY <1>1, <1>5 DEF BeginRecord, TypeOK
<1>6. ASSUME NEW th \in Thread, NEW t \in start[th]..clock, Admit(th, t)
      PROVE  AdmittedAlone'
  <2> SUFFICES ASSUME enabled', NEW x \in Thread, NEW d \in Dim,
                      pc'[x] \in {"working", "recording"}, keys'[x][d] # NoKey
               PROVE  IF strict' THEN amount'[x] <= Cap[d] ELSE Cap[d] > 0
    BY DEF AdmittedAlone
  <2>1. UNCHANGED <<enabled, strict, keys, amount>>
    BY <1>6 DEF Admit, flags
  <2>2. CASE x # th
    <3>1. pc'[x] = pc[x]
      BY <1>6, <2>2 DEF Admit, TypeOK
    <3> QED BY <2>1, <3>1 DEF AdmittedAlone
  <2>3. CASE x = th
    <3>1. ~ Over(d, keys[th][d], Week[t], amount[th])
      BY <1>6, <2>1, <2>3 DEF Admit, Refused
    <3>2. Current(d, keys[th][d], Week[t]) \in Nat
      BY DEF Current, TypeOK, Stat
    <3>3. Cap[d] \in Nat /\ amount[th] \in Nat
      BY CapAssumption, SizeAssumption DEF TypeOK
    <3> QED BY <2>1, <2>3, <3>1, <3>2, <3>3 DEF Over
  <2> QED BY <2>2, <2>3
<1> QED BY <1>2, <1>3, <1>4, <1>5, <1>6, EnforceOutcome DEF Next

\* The insertion order stays strict and within the events begun: only a busy thread
\* records, and it is idle afterwards.
LEMMA RankKept ==
    ASSUME WeekInv, [Next]_vars
    PROVE  RankedInOrder'
<1> USE DEF WeekInv
<1> DEFINE busy == Cardinality(Busy)
<1>1. /\ Busy \in SUBSET Thread /\ IsFiniteSet(Busy) /\ busy \in Nat
      /\ events \in Nat /\ busy <= events
  <2>1. Busy \in SUBSET Thread
    BY DEF Busy
  <2> QED BY <2>1, ThreadsFinite, SizeAssumption DEF TypeOK, RankedInOrder
<1>2. \A d \in Dim : \A k \in DOMAIN table[d] : table[d][k].rank \in Nat
  BY DEF TypeOK, Stat
<1>3. ASSUME UNCHANGED <<table, events>>, Busy' = Busy PROVE RankedInOrder'
  BY <1>3 DEF RankedInOrder
<1>4. CASE Tick \/ UNCHANGED vars
  BY <1>3, <1>4 DEF Tick, vars, Busy
<1>5. ASSUME NEW th \in Thread, BeginEnforce(th) PROVE RankedInOrder'
  <2>1. Busy' = Busy \cup {th} /\ th \notin Busy
    BY <1>5 DEF BeginEnforce, Busy, TypeOK
  <2>2. Cardinality(Busy') = busy + 1
    BY <1>1, <2>1, FS_AddElement
  <2>3. events' = events + 1 /\ UNCHANGED table
    BY <1>5 DEF BeginEnforce
  <2> QED BY <1>1, <1>2, <2>2, <2>3 DEF RankedInOrder
<1>6. ASSUME NEW th \in Thread, Refuse(th) \/ Fail(th) \/ Record(th)
      PROVE  Cardinality(Busy') = busy - 1 /\ events' = events
  <2>1. Busy' = Busy \ {th} /\ th \in Busy
    BY <1>6 DEF Refuse, Fail, Record, Forget, Busy, TypeOK
  <2>2. events' = events
    BY <1>6 DEF Refuse, Fail, Record
  <2> QED BY <1>1, <2>1, <2>2, FS_RemoveElement
<1>7. ASSUME NEW th \in Thread, Refuse(th) \/ Fail(th) PROVE RankedInOrder'
  <2>1. UNCHANGED table
    BY <1>7 DEF Refuse, Fail
  <2>2. Cardinality(Busy') = busy - 1 /\ events' = events
    BY <1>6, <1>7
  <2> QED BY <1>1, <1>2, <2>1, <2>2 DEF RankedInOrder
<1>8. ASSUME NEW th \in Thread, Record(th) PROVE RankedInOrder'
  <2>1. \A d \in Dim : \A k \in DOMAIN table'[d] :
          /\ table'[d][k] \in Stat
          /\ table'[d][k].rank + busy <= events
          /\ \A j \in DOMAIN table'[d] : table'[d][j].rank = table'[d][k].rank => j = k
    <3>1. PICK t \in start[th]..clock : \A d \in Dim : \A k \in DOMAIN table'[d] :
            /\ table'[d][k] \in Stat
            /\ table'[d][k].rank + Cardinality(Busy) <= events
            /\ \A j \in DOMAIN table'[d] :
                  table'[d][j].rank = table'[d][k].rank => j = k
      BY <1>8, RecordEffect
    <3> QED BY <3>1
  <2>2. Cardinality(Busy') = busy - 1 /\ events' = events
    BY <1>6, <1>8
  <2>3. \A d \in Dim : \A k \in DOMAIN table'[d] : table'[d][k].rank \in Nat
    BY <2>1 DEF Stat
  <2> QED BY <1>1, <2>1, <2>2, <2>3 DEF RankedInOrder
<1>9. ASSUME NEW th \in Thread, NEW t \in start[th]..clock, Admit(th, t)
      PROVE  RankedInOrder'
  <2>1. Busy' = Busy /\ UNCHANGED <<table, events>>
    BY <1>9 DEF Admit, Busy, TypeOK
  <2> QED BY <1>3, <2>1
<1>10. ASSUME NEW th \in Thread, BeginRecord(th) PROVE RankedInOrder'
  <2>1. Busy' = Busy /\ UNCHANGED <<table, events>>
    BY <1>10 DEF BeginRecord, Busy, TypeOK
  <2> QED BY <1>3, <2>1
<1> QED BY <1>4, <1>5, <1>7, <1>8, <1>9, <1>10, EnforceOutcome DEF Next

\* The reservation of one tally, after a step.
LEMMA ReservedAfter ==
    ASSUME \A d \in Dim : \A k \in DOMAIN table'[d] : \A w \in Nat :
              enabled' /\ w = table'[d][k].week
                => Room(strict', amount', d, table'[d][k].amount, MayAdd(d, k, w)'),
           TypeOK'
    PROVE  ReservedTally'
<1> SUFFICES ASSUME enabled', NEW d \in Dim, NEW k \in DOMAIN table'[d]
             PROVE  Room(strict, amount, d, table[d][k].amount,
                         MayAdd(d, k, table[d][k].week))'
  BY DEF ReservedTally
<1>1. table'[d][k] \in Stat
  BY DEF TypeOK
<1>2. PICK w \in Nat : w = table'[d][k].week
  BY <1>1 DEF Stat
<1>3. Room(strict', amount', d, table'[d][k].amount, MayAdd(d, k, w)')
  BY <1>2
<1>4. MayAdd(d, k, table[d][k].week)' = MayAdd(d, k, w)'
  BY <1>2 DEF MayAdd
<1> QED BY <1>3, <1>4

\* While the tables stay, the reservations hold if every thread that joins those of a
\* tally was compared with it.
LEMMA ReservedByAdmission ==
    ASSUME WeekInv, TypeOK', UNCHANGED <<enabled, strict, table>>, NEW th \in Thread,
           \A d \in Dim : \A k \in DOMAIN table[d] : \A w \in Nat : w = table[d][k].week =>
              /\ \A x \in MayAdd(d, k, w)' \ {th} :
                    x \in MayAdd(d, k, w) /\ amount'[x] = amount[x]
              /\ th \in MayAdd(d, k, w)' =>
                    /\ amount'[th] = amount[th]
                    /\ \/ th \in MayAdd(d, k, w)
                       \/ enabled => IF strict THEN table[d][k].amount + amount[th] <= Cap[d]
                                     ELSE table[d][k].amount < Cap[d]
    PROVE  ReservedTally'
<1> SUFFICES ASSUME NEW d \in Dim, NEW k \in DOMAIN table'[d], NEW w \in Nat,
                    enabled', w = table'[d][k].week
             PROVE  Room(strict', amount', d, table'[d][k].amount, MayAdd(d, k, w)')
  BY ReservedAfter
<1> DEFINE tally == table[d][k].amount
           A == MayAdd(d, k, w)
           B == MayAdd(d, k, w)'
<1>1. /\ strict \in BOOLEAN /\ tally \in Nat /\ enabled
      /\ amount \in [Thread -> 0..MaxAmount] /\ amount' \in [Thread -> 0..MaxAmount]
      /\ k \in DOMAIN table[d] /\ w = table[d][k].week
  BY DEF WeekInv, TypeOK, Stat
<1>2. A \in SUBSET Thread /\ B \in SUBSET Thread
  BY DEF MayAdd
<1>3. Room(strict, amount, d, tally, A)
  BY <1>1 DEF WeekInv, ReservedTally
<1>4. /\ \A x \in B \ {th} : x \in A /\ amount'[x] = amount[x]
      /\ th \in B =>
           /\ amount'[th] = amount[th]
           /\ \/ th \in A
              \/ IF strict THEN tally + amount[th] <= Cap[d] ELSE tally < Cap[d]
  BY <1>1
<1> HIDE DEF tally, A, B
<1>5. Room(strict, amount', d, tally, B)
  <2>1. CASE th \in B => th \in A
    <3>1. B \in SUBSET A /\ \A x \in B : amount'[x] = amount[x]
      BY <1>4, <2>1
    <3> QED BY <1>1, <1>2, <1>3, <3>1, RoomOfFewer
  <2>2. CASE th \in B /\ th \notin A
    <3>1. IF strict THEN tally + amount'[th] <= Cap[d] ELSE tally < Cap[d]
      BY <1>4, <2>2
    <3> QED BY <1>1, <1>2, <2>2, <3>1, RoomOfAdmitted
  <2> QED BY <2>1, <2>2
<1> QED BY <1>5 DEF tally, B

\* A record takes the room of its thread, or begins a tally that has room for the rest.
LEMMA ReservedByRecord ==
    ASSUME WeekInv, TypeOK', NEW th \in Thread, Record(th)
    PROVE  ReservedTally'
<1> SUFFICES ASSUME NEW d \in Dim, NEW k \in DOMAIN table'[d], NEW w \in Nat,
                    enabled', w = table'[d][k].week
             PROVE  Room(strict', amount', d, table'[d][k].amount, MayAdd(d, k, w)')
  BY ReservedAfter
<1>1. PICK t \in start[th]..clock : \A e \in Dim : \A j \in DOMAIN table'[e] :
        /\ table'[e][j] \in Stat
        /\ j # keys[th][e] => j \in DOMAIN table[e] /\ table'[e][j] = table[e][j]
        /\ j = keys[th][e] => /\ table'[e][j].week = Week[t]
                              /\ table'[e][j].amount = Current(e, j, Week[t]) + amount[th]
  BY RecordEffect DEF WeekInv
<1> DEFINE tally == table'[d][k].amount
           B == MayAdd(d, k, w)'
<1>2. /\ strict \in BOOLEAN /\ strict' = strict /\ enabled
      /\ amount \in [Thread -> 0..MaxAmount] /\ amount' \in [Thread -> 0..MaxAmount]
      /\ tally \in Nat /\ k \in Key
  BY <1>1 DEF WeekInv, TypeOK, Stat, Record, flags
<1>3. \A x \in Thread \ {th} : /\ pc'[x] = pc[x] /\ keys'[x] = keys[x]
                               /\ amount'[x] = amount[x] /\ start'[x] = start[x]
  BY DEF WeekInv, TypeOK, Record, Forget
<1>4. pc'[th] = "idle" /\ clock' = clock
  BY DEF WeekInv, TypeOK, Record, Forget
<1>5. \A v \in Nat : MayAdd(d, k, v)' = MayAdd(d, k, v) \ {th}
  BY <1>3, <1>4 DEF MayAdd
<1>6. B = MayAdd(d, k, w) \ {th}
  BY <1>2, <1>5
<1>7. MayAdd(d, k, w) \in SUBSET Thread
  BY DEF MayAdd
<1>8. CASE k # keys[th][d]
  <2>1. k \in DOMAIN table[d] /\ table'[d][k] = table[d][k]
    BY <1>1, <1>8
  <2>2. Room(strict, amount, d, tally, MayAdd(d, k, w))
    BY <1>2, <2>1 DEF WeekInv, ReservedTally
  <2>3. \A x \in B : amount'[x] = amount[x]
    BY <1>3, <1>6, <1>7
  <2> HIDE DEF tally, B
  <2>4. Room(strict, amount', d, tally, B)
    BY <1>2, <1>6, <1>7, <2>2, <2>3, RoomOfFewer
  <2> QED BY <1>2, <2>4 DEF tally, B
<1>9. CASE k = keys[th][d]
  <2>1. w = Week[t] /\ tally = Current(d, k, Week[t]) + amount[th]
    BY <1>1, <1>9
  <2>2. pc[th] = "recording" /\ keys[th][d] # NoKey
    BY <1>2, <1>9, SizeAssumption DEF Record
  <2>3. \A x \in B : amount'[x] = amount[x]
    BY <1>3, <1>6, <1>7
  <2>4. CASE k \in DOMAIN table[d] /\ table[d][k].week = w
    <3>1. th \in MayAdd(d, k, w)
      <4>1. Week[start[th]] <= w
        BY <2>1, InstantsSince, WeekGrows DEF WeekInv
      <4> QED BY <1>9, <2>2, <4>1 DEF MayAdd
    <3> DEFINE before == table[d][k].amount
    <3>2. Room(strict, amount, d, before, MayAdd(d, k, w))
      BY <1>2, <2>4 DEF WeekInv, ReservedTally
    <3>3. tally = before + amount[th]
      BY <2>1, <2>4 DEF Current
    <3>4. before \in Nat
      BY <2>4 DEF WeekInv, TypeOK, Stat
    <3> HIDE DEF tally, B, before
    <3>5. Room(strict, amount', d, before + amount[th], B)
      BY <1>2, <1>6, <1>7, <2>3, <3>1, <3>2, <3>4, RoomOfRecorded
    <3> QED BY <1>2, <3>3, <3>5 DEF tally, B
  <2>5. CASE ~ (k \in DOMAIN table[d] /\ table[d][k].week = w)
    <3>1. tally = amount[th] /\ amount[th] \in 0..MaxAmount
      BY <1>2, <2>1, <2>5, SizeAssumption DEF Current
    <3>2. IF strict THEN amount[th] <= Cap[d] ELSE Cap[d] > 0
      BY <1>2, <2>2 DEF WeekInv, AdmittedAlone
    <3>3. B \in SUBSET (Thread \ {th})
      BY <1>6, <1>7
    <3> HIDE DEF tally, B
    <3>4. Room(strict, amount', d, tally, B)
      BY <1>2, <3>1, <3>2, <3>3, RoomOfFirst
    <3> QED BY <1>2, <3>4 DEF tally, B
  <2> QED BY <2>4, <2>5
<1> QED BY <1>8, <1>9

\* The reservations, by every step.
LEMMA ReservedKept ==
    ASSUME WeekInv, [Next]_vars
    PROVE  ReservedTally'
<1> USE DEF WeekInv
<1>1. TypeOK'
  BY TypeKept
<1>2. \A d \in Dim : \A k \in DOMAIN table[d] : table[d][k].week <= Week[clock]
  BY DEF WeekHasBegun
<1>3. clock \in Instant /\ clock' \in Instant /\ Week[clock] \in Nat /\ start' \in [Thread -> Instant]
  BY <1>1, WeekGrows DEF TypeOK
<1>4. CASE Tick \/ UNCHANGED vars
  <2>1. clock <= clock' /\ UNCHANGED <<enabled, strict, table, pc, keys, amount, start>>
    BY <1>3, <1>4 DEF Tick, vars, flags, Instant
  <2>2. Week[clock] <= Week[clock'] /\ Week[clock'] \in Nat
    BY <1>3, <2>1, WeekGrows
  <2>3. PICK th \in Thread : TRUE
    BY SizeAssumption
  <2>4. \A d \in Dim : \A k \in DOMAIN table[d] : \A w \in Nat :
          MayAdd(d, k, w)' \subseteq MayAdd(d, k, w)
    BY <1>3, <2>1, <2>2 DEF MayAdd
  <2> QED BY <1>1, <2>1, <2>4, ReservedByAdmission
<1>5. ASSUME NEW th \in Thread, BeginEnforce(th) PROVE ReservedTally'
  <2>1. \A x \in Thread \ {th} : /\ pc'[x] = pc[x] /\ keys'[x] = keys[x]
                                 /\ amount'[x] = amount[x] /\ start'[x] = start[x]
    BY <1>5 DEF BeginEnforce, TypeOK
  <2>2. /\ pc'[th] = "enforcing" /\ start'[th] = clock /\ clock' = clock
        /\ UNCHANGED <<enabled, strict, table>>
    BY <1>5 DEF BeginEnforce, TypeOK, flags
  <2>3. \A d \in Dim : \A k \in DOMAIN table[d] : \A w \in Nat : w = table[d][k].week =>
          /\ th \notin MayAdd(d, k, w)'
          /\ MayAdd(d, k, w)' \ {th} \subseteq MayAdd(d, k, w)
    BY <1>2, <1>3, <2>1, <2>2 DEF MayAdd
  <2>4. \A d \in Dim : \A k \in DOMAIN table[d] : \A w \in Nat :
          MayAdd(d, k, w)' \subseteq Thread
    BY DEF MayAdd
  <2> QED BY <1>1, <2>1, <2>2, <2>3, <2>4, ReservedByAdmission
<1>6. ASSUME NEW th \in Thread, Refuse(th) \/ Fail(th) PROVE ReservedTally'
  <2>1. \A x \in Thread \ {th} : /\ pc'[x] = pc[x] /\ keys'[x] = keys[x]
                                 /\ amount'[x] = amount[x] /\ start'[x] = start[x]
    BY <1>6 DEF Refuse, Fail, Forget, TypeOK
  <2>2. pc'[th] = "idle" /\ clock' = clock /\ UNCHANGED <<enabled, strict, table>>
    BY <1>6 DEF Refuse, Fail, Forget, TypeOK, flags
  <2>3. \A d \in Dim : \A k \in DOMAIN table[d] : \A w \in Nat : w = table[d][k].week =>
          /\ th \notin MayAdd(d, k, w)'
          /\ MayAdd(d, k, w)' \ {th} \subseteq MayAdd(d, k, w)
    BY <2>1, <2>2 DEF MayAdd
  <2>4. \A d \in Dim : \A k \in DOMAIN table[d] : \A w \in Nat :
          MayAdd(d, k, w)' \subseteq Thread
    BY DEF MayAdd
  <2> QED BY <1>1, <2>1, <2>2, <2>3, <2>4, ReservedByAdmission
<1>7. ASSUME NEW th \in Thread, NEW t \in start[th]..clock, Admit(th, t)
      PROVE  ReservedTally'
  <2>1. \A x \in Thread \ {th} : pc'[x] = pc[x] /\ start'[x] = start[x]
    BY <1>7 DEF Admit, TypeOK
  <2>2. /\ pc[th] = "enforcing" /\ pc'[th] = "working"
        /\ UNCHANGED <<enabled, strict, table, clock, keys, amount>>
    BY <1>7 DEF Admit, TypeOK, flags
  <2>3. \A d \in Dim : \A k \in DOMAIN table[d] : \A w \in Nat :
          /\ MayAdd(d, k, w)' \subseteq Thread
          /\ MayAdd(d, k, w)' \ {th} \subseteq MayAdd(d, k, w)
    BY <2>1, <2>2 DEF MayAdd
  <2>4. ASSUME NEW d \in Dim, NEW k \in DOMAIN table[d], NEW w \in Nat,
               w = table[d][k].week, th \in MayAdd(d, k, w)', th \notin MayAdd(d, k, w),
               enabled
        PROVE  IF strict THEN table[d][k].amount + amount[th] <= Cap[d]
                         ELSE table[d][k].amount < Cap[d]
    <3>1. /\ Week[start[th]] <= Week[t] /\ Week[t] <= Week[clock]
          /\ Week[start[th]] \in Nat /\ Week[t] \in Nat
      BY InstantsSince, WeekGrows
    <3>2. keys[th][d] = k /\ Week[clock] <= w
      BY <2>2, <2>4 DEF MayAdd
    <3>3. ~ (Week[start[th]] < w)
      BY <2>2, <2>4, <3>2 DEF MayAdd
    <3>4. Week[t] = w
      BY <1>3, <3>1, <3>2, <3>3
    <3>5. k # NoKey
      BY SizeAssumption DEF TypeOK
    <3>6. ~ Over(d, k, Week[t], amount[th])
      BY <1>7, <2>4, <3>2, <3>5 DEF Admit, Refused
    <3>7. Current(d, k, Week[t]) = table[d][k].amount
      BY <2>4, <3>4 DEF Current
    <3>8. table[d][k].amount \in Nat /\ amount[th] \in Nat /\ Cap[d] \in Nat
      BY CapAssumption, SizeAssumption DEF TypeOK, Stat
    <3> QED BY <3>6, <3>7, <3>8 DEF Over
  <2> QED BY <1>1, <2>2, <2>3, <2>4, ReservedByAdmission
<1>8. ASSUME NEW th \in Thread, BeginRecord(th) PROVE ReservedTally'
  <2>1. \A x \in Thread \ {th} : pc'[x] = pc[x] /\ start'[x] = start[x]
    BY <1>8 DEF BeginRecord, TypeOK
  <2>2. /\ pc[th] = "working" /\ pc'[th] = "recording" /\ start'[th] = clock
        /\ UNCHANGED <<enabled, strict, table, clock, keys, amount>>
    BY <1>8 DEF BeginRecord, TypeOK, flags
  <2>3. \A d \in Dim : \A k \in DOMAIN table[d] : \A w \in Nat :
          MayAdd(d, k, w)' \subseteq MayAdd(d, k, w)
    BY <2>1, <2>2 DEF MayAdd
  <2> QED BY <1>1, <2>2, <2>3, ReservedByAdmission
<1>9. ASSUME NEW th \in Thread, Record(th) PROVE ReservedTally'
  BY <1>1, <1>9, ReservedByRecord
<1> QED BY <1>4, <1>5, <1>6, <1>7, <1>8, <1>9, EnforceOutcome DEF Next

-----------------------------------------------------------------------------
(* The theorems *)

\* Every step keeps the inductive invariant.
LEMMA NextWeek ==
    ASSUME WeekInv, [Next]_vars PROVE WeekInv'
BY TypeKept, WeekKept, AloneKept, ReservedKept, RankKept DEF WeekInv

\* The inductive invariant of the weekly tallies holds in every state.
THEOREM WeekInvariant == Spec => []WeekInv
<1>1. WeekInv /\ [Next]_vars => WeekInv'
  BY NextWeek
<1> QED BY InitWeek, <1>1, PTL DEF Spec

\* Whatever the interleaving of enforce() and record(), the rollovers and the evictions,
\* no weekly tally goes beyond its cap by more than the events in flight.
THEOREM TalliesBounded == Spec => []TallyBounded
<1>1. WeekInv => TallyBounded
  <2> SUFFICES ASSUME WeekInv, enabled, NEW d \in Dim, NEW k \in DOMAIN table[d]
               PROVE  IF strict
                      THEN table[d][k].amount <= Cap[d] + MaxAmount * (Cardinality(Thread) - 1)
                      ELSE table[d][k].amount < Cap[d] + MaxAmount * Cardinality(Thread)
    BY DEF TallyBounded
  <2>1. Room(strict, amount, d, table[d][k].amount, MayAdd(d, k, table[d][k].week))
    BY DEF WeekInv, ReservedTally
  <2>2. /\ strict \in BOOLEAN /\ amount \in [Thread -> 0..MaxAmount]
        /\ table[d][k].amount \in Nat
        /\ MayAdd(d, k, table[d][k].week) \in SUBSET Thread
    BY DEF WeekInv, TypeOK, Stat, MayAdd
  <2> QED BY <2>1, <2>2, RoomBounds
<1> QED BY WeekInvariant, <1>1, PTL

\* A dimension forgets a key only when it is full, and then the one seen least recently
\* (_trim_table), whatever times the records carry.
THEOREM LeastRecentEvicted == Spec => EvictsLeastRecent
<1>1. ASSUME WeekInv, [Next]_vars, NEW d \in Dim,
             NEW k \in DOMAIN table[d] \ DOMAIN table'[d]
      PROVE  /\ Cardinality(DOMAIN table'[d]) = MaxKeys[d]
             /\ \A j \in DOMAIN table'[d] : table'[d][j].seen >= table[d][k].seen
  <2>1. table' # table
    OBVIOUS
  <2>2. PICK th \in Thread : Record(th)
    BY <1>1, <2>1 DEF Next, Tick, BeginEnforce, Enforce, Fail, BeginRecord, vars
  <2> QED BY <1>1, <2>2, RecordEvicts DEF WeekInv
<1>2. WeekInv /\ [Next]_vars =>
        [\A d \in Dim : \A k \in DOMAIN table[d] \ DOMAIN table'[d] :
            /\ Cardinality(DOMAIN table'[d]) = MaxKeys[d]
            /\ \A j \in DOMAIN table'[d] : table'[d][j].seen >= table[d][k].seen]_vars
  BY <1>1
<1> QED BY WeekInvariant, <1>2, PTL DEF Spec, EvictsLeastRecent
=============================================================================
