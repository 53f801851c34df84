------------------------ MODULE IPRateLimiterProofs ------------------------
(***************************************************************************)
(* The windows, bursts and refusals of the request limiter, for any        *)
(* threads, clients, limits, window length and clock resolution.           *)
(***************************************************************************)
EXTENDS IPRateLimiter, FiniteSetTheorems, TLAPS

\* The largest limit is one of the limits, and no limit exceeds it.
LEMMA LargestLimit ==
    /\ MaxLimit \in Nat
    /\ \A n \in Limit \cup {0} : n \in Nat /\ n <= MaxLimit
<1>1. PICK n \in Limit : \A m \in Limit : n >= m
  BY LimiterAssumption
<1>2. MaxLimit \in Limit /\ \A m \in Limit : MaxLimit >= m
  BY <1>1 DEF MaxLimit, Max
<1> QED BY <1>2, LimiterAssumption

\* The sizes, and instants, are numbers.
LEMMA Numbers ==
    /\ Window \in Nat /\ Window > 0
    /\ TicksPerSecond \in Nat /\ TicksPerSecond > 0
    /\ MaxClock \in Nat /\ MaxRequests \in Nat
    /\ 0 \in Instant
    /\ \A t \in Instant : t \in Int /\ t >= 0
BY LimiterAssumption DEF Instant

\* The client a request is counted for.
LEMMA Clients ==
    ASSUME NEW request \in Request
    PROVE  ClientOf(request) \in Client
BY DEF Request, ClientOf, Client

\* The window a request is counted in has counted fewer requests than the largest
\* limit, or as many.
LEMMA WindowTypes ==
    ASSUME TypeOK, NEW c \in Client, NEW t \in Instant
    PROVE  CurrentWindow(c, t) \in [start : Instant, count : 0..MaxLimit]
<1>1. CASE c \in DOMAIN windows /\ t - windows[c].start < Window
  <2>1. windows[c] \in [start : Instant, count : 1..MaxLimit]
    BY <1>1 DEF TypeOK
  <2> QED BY <1>1, <2>1, LargestLimit DEF CurrentWindow
<1>2. CASE ~ (c \in DOMAIN windows /\ t - windows[c].start < Window)
  BY <1>2, LargestLimit DEF CurrentWindow
<1> QED BY <1>1, <1>2

\* retry_after is a natural number; for the window it is computed from it ends no
\* earlier than the window, and less than a second later.
LEMMA RetryRounds ==
    ASSUME NEW left \in Nat, left > 0
    PROVE  LET wait == (left \div TicksPerSecond + 1) * TicksPerSecond
           IN  /\ left \div TicksPerSecond \in Nat
               /\ left < wait /\ wait <= left + TicksPerSecond
<1>1. TicksPerSecond \in Nat /\ TicksPerSecond > 0
  BY LimiterAssumption
<1> DEFINE q == left \div TicksPerSecond
<1>2. q \in Nat
  BY <1>1
<1>3. TicksPerSecond * q <= left /\ left < TicksPerSecond * (q + 1)
  BY <1>1
<1>4. \A m, k \in Nat : m * (k + 1) = m * k + m /\ (k + 1) * m = m * k + m
  OBVIOUS
<1> QED BY <1>1, <1>2, <1>3, <1>4

LEMMA RetryType ==
    ASSUME TypeOK, NEW c \in Client, NEW t \in Instant
    PROVE  RetryAfter(c, t) \in Nat
<1> DEFINE start == IF c \in DOMAIN windows THEN windows[c].start ELSE t
           left  == Window - (t - start)
<1>1. start \in Instant
  BY DEF TypeOK
<1>2. left \in Int
  BY <1>1, LimiterAssumption DEF Instant
<1>3. CASE left > 0
  BY <1>2, <1>3, RetryRounds DEF RetryAfter
<1>4. CASE ~ (left > 0)
  BY <1>2, <1>4 DEF RetryAfter
<1> QED BY <1>3, <1>4

-----------------------------------------------------------------------------
(* WindowInv is inductive, one action at a time *)

LEMMA TickKeeps ==
    ASSUME WindowInv, Tick PROVE WindowInv'
<1>1. /\ UNCHANGED <<windows, pc, client, limit, now, retry, counted, servedBy, requests>>
  BY DEF Tick, threadVars, historyVars
<1>5. clock' \in Instant /\ clock <= clock'
  <2>1. clock \in Instant
    BY DEF WindowInv, TypeOK
  <2> QED BY <2>1, LimiterAssumption DEF Tick, Instant
<1>2. TypeOK'
  BY <1>5, <1>1 DEF WindowInv, TypeOK
<1>3. TimesArePast'
  <2>1. \A th \in Thread : now[th] <= clock'
    BY <1>5, Numbers DEF WindowInv, TypeOK, TimesArePast
  <2>2. \A c \in DOMAIN windows : windows[c].start <= clock'
    BY <1>5, Numbers DEF WindowInv, TypeOK, TimesArePast
  <2> QED BY <1>1, <2>1, <2>2 DEF TimesArePast
<1>4. NotYetRefused' /\ CountIsServed' /\ WindowsApart'
  BY <1>1 DEF WindowInv, NotYetRefused, CountIsServed, WindowsApart
<1> QED BY <1>2, <1>3, <1>4 DEF WindowInv

LEMMA ArriveKeeps ==
    ASSUME WindowInv, NEW th \in Thread, NEW request \in Request, NEW n \in Limit,
           Arrive(th, request, n)
    PROVE  WindowInv'
<1>1. UNCHANGED <<clock, windows, counted, servedBy>>
  BY DEF Arrive, historyVars
<1>2. TypeOK'
  <2>1. pc' \in [Thread -> {"idle", "checking"}]
    BY DEF Arrive, WindowInv, TypeOK
  <2>2. client' \in [Thread -> Client]
    BY Clients DEF Arrive, WindowInv, TypeOK
  <2>3. limit' \in [Thread -> Limit \cup {0}]
    BY DEF Arrive, WindowInv, TypeOK
  <2>4. now' \in [Thread -> Instant]
    BY DEF Arrive, WindowInv, TypeOK
  <2>5. retry' \in [Thread -> Nat] /\ requests' \in 0..MaxRequests
    BY LimiterAssumption DEF Arrive, WindowInv, TypeOK
  <2> QED BY <1>1, <2>1, <2>2, <2>3, <2>4, <2>5 DEF WindowInv, TypeOK
<1>3. TimesArePast'
  <2>1. \A other \in Thread : now'[other] <= clock
    BY Numbers DEF Arrive, WindowInv, TypeOK, TimesArePast
  <2> QED BY <1>1, <2>1 DEF WindowInv, TimesArePast
<1>4. CountIsServed' /\ WindowsApart'
  BY <1>1 DEF WindowInv, CountIsServed, WindowsApart
<1>5. NotYetRefused'
  BY DEF Arrive, WindowInv, TypeOK, NotYetRefused
<1> QED BY <1>2, <1>3, <1>4, <1>5 DEF WindowInv

\* Leaving check() keeps the types of what a thread holds, and its time past.
LEMMA LeaveKeeps ==
    ASSUME WindowInv, NEW th \in Thread, Leave(th)
    PROVE  /\ pc' \in [Thread -> {"idle", "checking"}]
           /\ client' \in [Thread -> Client]
           /\ limit' \in [Thread -> Limit \cup {0}]
           /\ now' \in [Thread -> Instant]
           /\ \A other \in Thread : now'[other] <= clock
BY Numbers DEF Leave, WindowInv, TypeOK, TimesArePast, Client

LEMMA RefuseKeeps ==
    ASSUME WindowInv, NEW th \in Thread, Refuse(th)
    PROVE  WindowInv'
<1>1. UNCHANGED <<clock, windows, counted, servedBy, requests>> /\ Leave(th)
  BY DEF Refuse, historyVars
<1>2. retry' \in [Thread -> Nat]
  <2>1. RetryAfter(client[th], now[th]) \in Nat
    BY RetryType DEF WindowInv, TypeOK
  <2> QED BY <2>1 DEF Refuse, WindowInv, TypeOK
<1>3. TypeOK'
  BY <1>1, <1>2, LeaveKeeps DEF WindowInv, TypeOK
<1>4. TimesArePast'
  BY <1>1, LeaveKeeps DEF WindowInv, TimesArePast
<1>5. CountIsServed' /\ WindowsApart'
  BY <1>1 DEF WindowInv, CountIsServed, WindowsApart
<1>6. NotYetRefused'
  BY DEF Refuse, Leave, WindowInv, TypeOK, NotYetRefused
<1> QED BY <1>3, <1>4, <1>5, <1>6 DEF WindowInv

\* A window that opens comes after every window that has served the client, and
\* apart from it.
LEMMA OpensApart ==
    ASSUME WindowInv, NEW c \in Client, NEW t \in Instant,
           ~ (c \in DOMAIN windows /\ t - windows[c].start < Window)
    PROVE  /\ \A s \in Instant : counted[c][s] > 0 => t - s >= Window
           /\ \A s \in Instant : s >= t => counted[c][s] = 0
<1>1. counted \in [Client -> [Instant -> Nat]]
  BY DEF WindowInv, TypeOK
<1>2. CASE c \notin DOMAIN windows
  BY <1>1, <1>2 DEF WindowInv, CountIsServed
<1>3. CASE c \in DOMAIN windows
  <2>1. windows[c].start \in Instant
    BY <1>3 DEF WindowInv, TypeOK
  <2>3. t - windows[c].start >= Window
    BY <1>3, <2>1, Numbers
  <2>2. \A s \in Instant : s > windows[c].start => counted[c][s] = 0
    BY <1>3 DEF WindowInv, CountIsServed
  <2>4. \A s \in Instant : counted[c][s] > 0 => s <= windows[c].start
    BY <1>1, <2>1, <2>2, Numbers
  <2>5. \A s \in Instant : s >= t => s > windows[c].start
    BY <2>1, <2>3, Numbers
  <2>6. \A s \in Instant : s <= windows[c].start => t - s >= Window
    BY <2>1, <2>3, Numbers
  <2> QED BY <2>2, <2>4, <2>5, <2>6
<1> QED BY <1>2, <1>3

LEMMA ServeKeeps ==
    ASSUME WindowInv, NEW th \in Thread, Serve(th)
    PROVE  WindowInv'
<1> DEFINE c == client[th]
           w == CurrentWindow(c, now[th])
           d == DOMAIN windows
<1>1. /\ c \in Client /\ now[th] \in Instant /\ now[th] <= clock
      /\ limit[th] \in Nat /\ limit[th] <= MaxLimit /\ MaxLimit \in Nat
  BY LargestLimit DEF WindowInv, TypeOK, TimesArePast
<1>2. w \in [start : Instant, count : 0..MaxLimit]
  BY <1>1, WindowTypes DEF WindowInv
<1>3. w.start \in Instant /\ w.count \in Nat /\ w.count + 1 \in 1..MaxLimit
  BY <1>1, <1>2 DEF Serve
<1>4. /\ DOMAIN windows' = d \cup {c}
      /\ windows'[c] = [start |-> w.start, count |-> w.count + 1]
      /\ \A x \in d : x # c => windows'[x] = windows[x]
  BY <1>2 DEF Serve
<1>5. /\ counted \in [Client -> [Instant -> Nat]]
      /\ counted' = [counted EXCEPT ![c][w.start] = @ + 1]
      /\ clock' = clock /\ retry' = retry /\ requests' = requests /\ Leave(th)
  BY DEF Serve, WindowInv, TypeOK
<1>6. /\ \A x \in Client : x # c => counted'[x] = counted[x]
      /\ \A t \in Instant : t # w.start => counted'[c][t] = counted[c][t]
      /\ counted'[c][w.start] = counted[c][w.start] + 1
      /\ counted' \in [Client -> [Instant -> Nat]]
  BY <1>1, <1>3, <1>5
<1>7. /\ counted[c][w.start] = w.count
      /\ w.start <= clock
      /\ \A t \in Instant : t > w.start => counted[c][t] = 0
      /\ \A t \in Instant : t # w.start /\ counted[c][t] > 0 => w.start - t >= Window
  <2>1. CASE c \in d /\ now[th] - windows[c].start < Window
    <3>1. w = windows[c] /\ w.count >= 1
      BY <2>1 DEF CurrentWindow, WindowInv, TypeOK
    <3>2. /\ counted[c][w.start] = w.count
          /\ \A t \in Instant : t > w.start => counted[c][t] = 0
          /\ w.start <= clock
      BY <1>1, <1>3, <2>1, <3>1 DEF WindowInv, CountIsServed, TimesArePast
    <3>3. \A t \in Instant : t < w.start /\ counted[c][t] > 0 => w.start - t >= Window
      <4>1. counted[c][w.start] > 0
        BY <1>3, <3>1, <3>2
      <4> QED BY <1>1, <1>3, <4>1 DEF WindowInv, WindowsApart
    <3>4. \A t \in Instant : t # w.start => t < w.start \/ t > w.start
      BY <1>3, Numbers
    <3>5. \A t \in Instant : counted[c][t] > 0 => ~ (t > w.start)
      BY <1>5, <3>2
    <3> QED BY <3>2, <3>3, <3>4, <3>5
  <2>2. CASE ~ (c \in d /\ now[th] - windows[c].start < Window)
    <3>1. w = [start |-> now[th], count |-> 0]
      BY <2>2 DEF CurrentWindow
    <3>2. /\ \A t \in Instant : counted[c][t] > 0 => now[th] - t >= Window
          /\ \A t \in Instant : t >= now[th] => counted[c][t] = 0
      BY <1>1, <2>2, OpensApart
    <3>3. \A t \in Instant : t > now[th] => t >= now[th]
      BY <1>1, Numbers
    <3>4. counted[c][now[th]] = 0
      BY <1>1, <3>2, Numbers
    <3> QED BY <1>1, <3>1, <3>2, <3>3, <3>4
  <2> QED BY <2>1, <2>2
<1>8. TypeOK'
  <2>1. DOMAIN windows' \subseteq Client
    BY <1>1, <1>4 DEF WindowInv, TypeOK
  <2>2. \A x \in DOMAIN windows' : windows'[x] \in [start : Instant, count : 1..MaxLimit]
    BY <1>3, <1>4 DEF WindowInv, TypeOK
  <2>3. servedBy' \in [Client -> [Instant -> Nat]]
    BY DEF Serve, WindowInv, TypeOK
  <2> QED BY <1>5, <1>6, <2>1, <2>2, <2>3, LeaveKeeps DEF WindowInv, TypeOK
<1>9. TimesArePast'
  <2>1. \A x \in DOMAIN windows' : windows'[x].start <= clock
    BY <1>4, <1>7 DEF WindowInv, TimesArePast
  <2> QED BY <1>5, <2>1, LeaveKeeps DEF TimesArePast
<1>10. CountIsServed'
  <2> SUFFICES ASSUME NEW x \in Client, NEW t \in Instant
               PROVE  IF x \in DOMAIN windows'
                      THEN /\ t = windows'[x].start => counted'[x][t] = windows'[x].count
                           /\ t > windows'[x].start => counted'[x][t] = 0
                      ELSE counted'[x][t] = 0
    BY DEF CountIsServed
  <2>1. CASE x = c
    <3>1. t > w.start => t # w.start
      BY <1>3, Numbers
    <3> QED BY <1>4, <1>6, <1>7, <2>1, <3>1
  <2>2. CASE x # c
    BY <1>4, <1>6, <2>2 DEF WindowInv, CountIsServed
  <2> QED BY <2>1, <2>2
<1>11. WindowsApart'
  <2> SUFFICES ASSUME NEW x \in Client, NEW s \in Instant, NEW t \in Instant
               PROVE  /\ counted'[x][s] <= MaxLimit
                      /\ s < t /\ counted'[x][s] > 0 /\ counted'[x][t] > 0
                            => t - s >= Window
    BY DEF WindowsApart
  <2>1. /\ counted[x][s] <= MaxLimit
        /\ s < t /\ counted[x][s] > 0 /\ counted[x][t] > 0 => t - s >= Window
    BY DEF WindowInv, WindowsApart
  <2>2. CASE x # c
    BY <1>6, <2>1, <2>2
  <2>3. CASE x = c /\ s # w.start /\ t # w.start
    BY <1>6, <2>1, <2>3
  <2>4. CASE x = c /\ s = w.start
    <3>1. counted'[c][s] <= MaxLimit
      BY <1>1, <1>3, <1>5, <1>6, <1>7, <2>4
    <3>2. s < t => counted'[c][t] = 0
      BY <1>3, <1>6, <1>7, <2>4, Numbers
    <3> QED BY <2>4, <3>1, <3>2
  <2>5. CASE x = c /\ s # w.start /\ t = w.start
    BY <1>6, <1>7, <2>1, <2>5
  <2> QED BY <2>2, <2>3, <2>4, <2>5
<1>12. NotYetRefused'
  BY DEF Serve, Leave, WindowInv, TypeOK, NotYetRefused
<1> QED BY <1>8, <1>9, <1>10, <1>11, <1>12 DEF WindowInv

LEMMA ResetKeeps ==
    ASSUME WindowInv, Reset
    PROVE  WindowInv'
<1>1. /\ windows' = <<>> /\ DOMAIN windows' = {}
      /\ UNCHANGED <<clock, pc, client, limit, now, retry, requests>>
      /\ counted' = [c \in Client |-> [t \in Instant |-> 0]]
      /\ servedBy' = [c \in Client |-> [t \in Instant |-> 0]]
  BY DEF Reset, threadVars
<1>2. TypeOK'
  BY <1>1 DEF WindowInv, TypeOK
<1>3. TimesArePast' /\ NotYetRefused' /\ CountIsServed'
  BY <1>1 DEF WindowInv, TimesArePast, NotYetRefused, CountIsServed
<1>4. WindowsApart'
  BY <1>1, LargestLimit DEF WindowsApart
<1> QED BY <1>2, <1>3, <1>4 DEF WindowInv

LEMMA InitKeeps == Init => WindowInv
<1> SUFFICES ASSUME Init PROVE WindowInv
  OBVIOUS
<1>1. 0 \in Instant /\ 0 \in 0..MaxRequests /\ DOMAIN windows = {} /\ Unknown \in Client
  BY LimiterAssumption DEF Init, Instant, Client
<1>2. TypeOK
  BY <1>1 DEF Init, TypeOK
<1>3. TimesArePast /\ NotYetRefused /\ CountIsServed
  BY <1>1, Numbers DEF Init, TimesArePast, NotYetRefused, CountIsServed
<1>4. WindowsApart
  BY LargestLimit DEF Init, WindowsApart
<1> QED BY <1>2, <1>3, <1>4 DEF WindowInv

\* The windows of a client never overlap and none serves more than the largest limit,
\* whatever the times with which the threads come to the lock.
THEOREM WindowInvariant == Spec => []WindowInv
<1>1. WindowInv /\ [Next]_vars => WindowInv'
  <2> SUFFICES ASSUME WindowInv, [Next]_vars PROVE WindowInv'
    OBVIOUS
  <2>1. CASE Tick
    BY <2>1, TickKeeps
  <2>2. CASE Reset
    BY <2>2, ResetKeeps
  <2>3. ASSUME NEW th \in Thread, NEW request \in Request, NEW n \in Limit,
               Arrive(th, request, n)
        PROVE  WindowInv'
    BY <2>3, ArriveKeeps
  <2>4. ASSUME NEW th \in Thread, Serve(th) PROVE WindowInv'
    BY <2>4, ServeKeeps
  <2>5. ASSUME NEW th \in Thread, Refuse(th) PROVE WindowInv'
    BY <2>5, RefuseKeeps
  <2>6. CASE UNCHANGED vars
    BY <2>6 DEF vars, threadVars, historyVars, WindowInv, TypeOK, TimesArePast,
                NotYetRefused, CountIsServed, WindowsApart
  <2> QED BY <2>1, <2>2, <2>3, <2>4, <2>5, <2>6 DEF Next
<1> QED BY <1>1, InitKeeps, PTL DEF Spec

-----------------------------------------------------------------------------
(* Refusals *)

\* A refusal tells the client to wait until the window that is full has ended.
LEMMA RefusalHonest ==
    ASSUME WindowInv, NEW th \in Thread, Refuse(th), limit[th] > 0
    PROVE  LET end  == windows[client[th]].start + Window
               wait == retry'[th] * TicksPerSecond
           IN  /\ client[th] \in DOMAIN windows
               /\ end <= clock + wait
               /\ now[th] + wait <= end + TicksPerSecond
<1> DEFINE c == client[th]
           left == Window - (now[th] - windows[c].start)
<1>1. /\ c \in Client /\ now[th] \in Instant /\ now[th] <= clock /\ clock \in Instant
      /\ limit[th] \in Nat
  BY LargestLimit DEF WindowInv, TypeOK, TimesArePast
<1>2. c \in DOMAIN windows /\ now[th] - windows[c].start < Window
  <2> SUFFICES ASSUME ~ (c \in DOMAIN windows /\ now[th] - windows[c].start < Window)
               PROVE  FALSE
    OBVIOUS
  <2>1. CurrentWindow(c, now[th]).count = 0
    BY DEF CurrentWindow
  <2> QED BY <1>1, <2>1 DEF Refuse
<1>3. windows[c].start \in Instant
  BY <1>2 DEF WindowInv, TypeOK
<1>4. left \in Nat /\ left > 0
  BY <1>1, <1>2, <1>3, Numbers
<1>5. retry'[th] = left \div TicksPerSecond + 1
  BY <1>2, <1>4 DEF Refuse, RetryAfter, WindowInv, TypeOK
<1>6. /\ left < retry'[th] * TicksPerSecond
      /\ retry'[th] * TicksPerSecond <= left + TicksPerSecond
      /\ retry'[th] * TicksPerSecond \in Nat
  BY <1>4, <1>5, RetryRounds, Numbers
<1> QED BY <1>1, <1>2, <1>3, <1>6, Numbers

\* Retry-After is honest in every step.
THEOREM RetryIsHonest == Spec => RetryHonest
<1> DEFINE Honest(th) ==
        LET end  == windows[client[th]].start + Window
            wait == retry'[th] * TicksPerSecond
        IN  pc[th] = "checking" /\ retry'[th] > 0 /\ limit[th] > 0
              => /\ client[th] \in DOMAIN windows
                 /\ end <= clock + wait
                 /\ now[th] + wait <= end + TicksPerSecond
<1>1. ASSUME WindowInv, Next, NEW th \in Thread
      PROVE  Honest(th)
  <2> SUFFICES ASSUME pc[th] = "checking", retry'[th] > 0, limit[th] > 0
               PROVE  Refuse(th)
    BY <1>1, RefusalHonest
  <2>1. retry[th] = 0 /\ retry \in [Thread -> Nat]
    BY <1>1 DEF WindowInv, TypeOK, NotYetRefused
  <2>2. retry'[th] # retry[th]
    BY <2>1
  <2>3. ~ Tick /\ ~ Reset
    BY <2>2 DEF Tick, Reset
  <2>4. ASSUME NEW other \in Thread
        PROVE  /\ \A request \in Request, n \in Limit : ~ Arrive(other, request, n)
                     \/ other # th
               /\ ~ Serve(other)
    BY <2>1, <2>2 DEF Arrive, Serve
  <2>5. ASSUME NEW other \in Thread, NEW request \in Request, NEW n \in Limit,
               Arrive(other, request, n), other # th
        PROVE  FALSE
    BY <2>1, <2>2, <2>5 DEF Arrive
  <2>6. ASSUME NEW other \in Thread, Refuse(other)
        PROVE  other = th
    BY <2>1, <2>2, <2>6 DEF Refuse
  <2> QED BY <1>1, <2>3, <2>4, <2>5, <2>6 DEF Next
<1>2. WindowInv /\ [Next]_vars => [\A th \in Thread : Honest(th)]_vars
  BY <1>1
<1> QED BY <1>2, WindowInvariant, PTL DEF Spec, RetryHonest

-----------------------------------------------------------------------------
(* Bursts *)

\* The threads that are late are a finite number of threads.
LEMMA LateType ==
    ASSUME NEW t \in Instant
    PROVE  /\ Late(t) \subseteq Thread /\ IsFiniteSet(Late(t))
           /\ Cardinality(Late(t)) \in Nat /\ Cardinality(Thread) \in Nat
           /\ Cardinality(Late(t)) <= Cardinality(Thread)
           /\ Cardinality(Thread) >= 1
<1>1. Late(t) \in SUBSET Thread /\ IsFiniteSet(Thread) /\ Thread # {}
  BY LimiterAssumption DEF Late
<1>2. Cardinality(Thread) # 0
  BY <1>1, FS_EmptySet
<1> QED BY <1>1, <1>2, FS_Subset, FS_CardinalityType

\* A thread that leaves check() is no longer late.
LEMMA LateLeaves ==
    ASSUME TypeOK, NEW th \in Thread, pc[th] = "checking", Leave(th), NEW t \in Instant
    PROVE  /\ Cardinality(Late(t))' \in Nat
           /\ Cardinality(Late(t))' <= Cardinality(Late(t))
           /\ now[th] < t => Cardinality(Late(t))' = Cardinality(Late(t)) - 1
<1>1. Late(t)' = Late(t) \ {th}
  <2>1. \A other \in Thread : other # th => pc'[other] = pc[other] /\ now'[other] = now[other]
    BY DEF Leave, TypeOK
  <2>2. pc'[th] = "idle"
    BY DEF Leave, TypeOK
  <2> QED BY <2>1, <2>2 DEF Late
<1>2. now[th] < t <=> th \in Late(t)
  BY DEF Late
<1>3. IsFiniteSet(Late(t)) /\ Cardinality(Late(t)) \in Nat
  BY LateType
<1>4. CASE th \in Late(t)
  <2>1. Cardinality(Late(t) \ {th}) = Cardinality(Late(t)) - 1
    BY <1>3, <1>4, FS_RemoveElement
  <2>2. Cardinality(Late(t)) # 0
    BY <1>3, <1>4, FS_EmptySet
  <2> QED BY <1>1, <1>3, <2>1, <2>2
<1>5. CASE th \notin Late(t)
  <2>1. Late(t) \ {th} = Late(t)
    BY <1>5
  <2> QED BY <1>1, <1>2, <1>3, <1>5, <2>1
<1> QED BY <1>4, <1>5

\* The span of one window from t on ends at an instant, and starts after one or at 0.
LEMMA BurstType ==
    ASSUME TypeOK, NEW c \in Client, NEW t \in Instant
    PROVE  Burst(c, t) \in Int
<1> DEFINE last == IF t + Window <= MaxClock THEN t + Window - 1 ELSE MaxClock
<1>1. last \in Instant /\ (t # 0 => t - 1 \in Instant)
  BY Numbers DEF Instant
<1>2. servedBy[c][last] \in Nat /\ (t # 0 => servedBy[c][t - 1] \in Nat)
  BY <1>1 DEF TypeOK
<1> QED BY <1>2 DEF Burst

\* A request that is served adds one to the spans of its client that hold the moment.
LEMMA BurstGrows ==
    ASSUME TypeOK, NEW th \in Thread, Serve(th), NEW c \in Client, NEW t \in Instant
    PROVE  Burst(c, t)' = Burst(c, t) + (IF c = client[th] /\ t <= clock /\ clock < t + Window
                                         THEN 1 ELSE 0)
<1> DEFINE last == IF t + Window <= MaxClock THEN t + Window - 1 ELSE MaxClock
<1>1. /\ last \in Instant /\ (t # 0 => t - 1 \in Instant)
      /\ clock \in Instant /\ client[th] \in Client
  BY Numbers DEF Instant, TypeOK
<1>2. /\ clock <= last <=> clock < t + Window
      /\ t # 0 => (clock <= t - 1 <=> ~ (t <= clock))
      /\ t = 0 => t <= clock
      /\ clock <= t - 1 => clock <= last
  BY <1>1, Numbers DEF Instant
<1>3. \A s \in Instant :
        servedBy'[c][s] = servedBy[c][s] + (IF c = client[th] /\ clock <= s THEN 1 ELSE 0)
  <2>1. \A s \in Instant : servedBy[c][s] \in Nat /\ s \in Int /\ clock \in Int
    BY <1>1, Numbers DEF TypeOK
  <2> QED BY <2>1, <1>1 DEF Serve, TypeOK
<1>4. \A s \in Instant : servedBy[c][s] \in Nat
  BY DEF TypeOK
<1>5. Burst(c, t)' = servedBy'[c][last] - IF t = 0 THEN 0 ELSE servedBy'[c][t - 1]
  BY DEF Burst
<1>6. Burst(c, t) = servedBy[c][last] - IF t = 0 THEN 0 ELSE servedBy[c][t - 1]
  BY DEF Burst
<1> HIDE DEF last
<1>7. CASE t = 0
  BY <1>1, <1>2, <1>3, <1>4, <1>5, <1>6, <1>7
<1>8. CASE t # 0
  BY <1>1, <1>2, <1>3, <1>4, <1>5, <1>6, <1>8, Numbers
<1> QED BY <1>7, <1>8

\* What serving a request does to its client's window: it is counted in the window that
\* was open, or opens one that comes a whole window after the last.
LEMMA ServedWindow ==
    ASSUME WindowInv, NEW th \in Thread, Serve(th)
    PROVE  LET c == client[th] IN
           /\ c \in Client /\ now[th] \in Instant /\ now[th] <= clock
           /\ pc[th] = "checking" /\ Leave(th) /\ clock' = clock
           /\ DOMAIN windows' = DOMAIN windows \cup {c}
           /\ \A x \in DOMAIN windows : x # c => windows'[x] = windows[x]
           /\ windows'[c].start \in Instant /\ windows'[c].start <= clock
           /\ windows'[c].count \in Nat /\ windows'[c].count >= 1
           /\ windows'[c].count <= MaxLimit
           /\ \/ /\ c \in DOMAIN windows
                 /\ now[th] < windows[c].start + Window
                 /\ windows'[c].start = windows[c].start
                 /\ windows'[c].count = windows[c].count + 1
              \/ /\ windows'[c].start = now[th] /\ windows'[c].count = 1
                 /\ c \in DOMAIN windows => windows[c].start + Window <= now[th]
<1> DEFINE c == client[th]
           w == CurrentWindow(c, now[th])
<1>1. /\ c \in Client /\ now[th] \in Instant /\ now[th] <= clock /\ clock \in Instant
      /\ limit[th] \in Nat /\ limit[th] <= MaxLimit /\ MaxLimit \in Nat
      /\ pc[th] = "checking" /\ Leave(th) /\ clock' = clock
  BY LargestLimit DEF WindowInv, TypeOK, TimesArePast, Serve
<1>2. w \in [start : Instant, count : 0..MaxLimit]
  BY <1>1, WindowTypes DEF WindowInv
<1>3. w.start \in Instant /\ w.count \in Nat /\ w.count + 1 <= MaxLimit
  BY <1>1, <1>2 DEF Serve
<1>4. /\ DOMAIN windows' = DOMAIN windows \cup {c}
      /\ windows'[c] = [start |-> w.start, count |-> w.count + 1]
      /\ \A x \in DOMAIN windows : x # c => windows'[x] = windows[x]
  BY <1>2 DEF Serve
<1>5. /\ w.start <= clock
      /\ \/ /\ c \in DOMAIN windows /\ now[th] < windows[c].start + Window
            /\ w.start = windows[c].start /\ w.count = windows[c].count
         \/ /\ w.start = now[th] /\ w.count = 0
            /\ c \in DOMAIN windows => windows[c].start + Window <= now[th]
  <2>1. c \in DOMAIN windows => windows[c].start \in Int /\ windows[c].start <= clock
    BY Numbers DEF WindowInv, TypeOK, TimesArePast
  <2>2. CASE c \in DOMAIN windows /\ now[th] - windows[c].start < Window
    BY <1>1, <2>1, <2>2, Numbers DEF CurrentWindow
  <2>3. CASE ~ (c \in DOMAIN windows /\ now[th] - windows[c].start < Window)
    BY <1>1, <2>1, <2>3, Numbers DEF CurrentWindow
  <2> QED BY <2>2, <2>3
<1> HIDE DEF w
<1>6. windows'[c].start = w.start /\ windows'[c].count = w.count + 1
  BY <1>4
<1> QED BY <1>1, <1>3, <1>4, <1>5, <1>6

\* A step that leaves the windows and the histories alone, makes no thread late, and
\* does not turn back time, keeps what is known of the spans.
LEMMA QuietKeepsSpans ==
    ASSUME BurstInv, UNCHANGED <<windows, servedBy>>, TypeOK', clock <= clock',
           \A t \in Instant : t <= clock => Cardinality(Late(t))' <= Cardinality(Late(t))
    PROVE  BurstBounded' /\ \A c \in Client : \A t \in Instant : SpanBound(c, t)'
<1>1. \A c \in Client : \A t \in Instant : Burst(c, t)' = Burst(c, t)
  BY DEF Burst
<1>2. BurstBounded'
  BY <1>1 DEF BurstInv, BurstBounded
<1>3. ASSUME NEW c \in Client, NEW t \in Instant PROVE SpanBound(c, t)'
  <2>1. SpanBound(c, t) /\ Burst(c, t) \in Int
    BY BurstType DEF BurstInv, WindowInv
  <2>2. clock \in Int /\ clock' \in Int /\ t \in Int /\ clock <= clock'
    BY Numbers DEF BurstInv, WindowInv, TypeOK
  <2>3. t > clock' => Burst(c, t) = 0
    BY <2>1, <2>2 DEF SpanBound
  <2>4. /\ Cardinality(Late(t)) \in Nat /\ Cardinality(Thread) \in Nat
        /\ Cardinality(Late(t)) <= Cardinality(Thread)
    BY LateType
  <2>5. Cardinality(Late(t))' \in Nat /\ Cardinality(Late(t))' <= Cardinality(Thread)
    <3>1. Late(t)' \in SUBSET Thread /\ IsFiniteSet(Thread)
      BY LimiterAssumption DEF Late
    <3> QED BY <3>1, FS_Subset, FS_CardinalityType
  <2>6. (c \in DOMAIN windows => windows[c].start + Window <= t)
          => Burst(c, t) + Cardinality(Late(t))' <= Cardinality(Thread)
    <3>1. CASE t <= clock
      BY <2>1, <2>4, <2>5, <3>1 DEF SpanBound
    <3>2. CASE t > clock
      BY <2>1, <2>4, <2>5, <3>2 DEF SpanBound
    <3> QED BY <2>2, <3>1, <3>2
  <2> QED BY <1>1, <2>1, <2>3, <2>6 DEF SpanBound
<1> QED BY <1>2, <1>3

LEMMA ArriveKeepsSpans ==
    ASSUME BurstInv, WindowInv', NEW th \in Thread, NEW request \in Request, NEW n \in Limit,
           Arrive(th, request, n)
    PROVE  BurstInv'
<1>1. UNCHANGED <<windows, servedBy, clock>>
  BY DEF Arrive, historyVars
<1>2. clock \in Int /\ clock' = clock
  BY <1>1, Numbers DEF BurstInv, WindowInv, TypeOK
<1>3. ASSUME NEW t \in Instant, t <= clock
      PROVE  Late(t)' = Late(t)
  <2>1. \A other \in Thread : other # th => pc'[other] = pc[other] /\ now'[other] = now[other]
    BY DEF Arrive, BurstInv, WindowInv, TypeOK
  <2>2. pc[th] = "idle" /\ now'[th] = clock /\ t \in Int
    BY Numbers DEF Arrive, BurstInv, WindowInv, TypeOK
  <2>3. ~ (now'[th] < t) /\ pc[th] # "checking"
    BY <1>2, <1>3, <2>2
  <2> QED BY <2>1, <2>3 DEF Late
<1>4. \A t \in Instant : t <= clock => Cardinality(Late(t))' <= Cardinality(Late(t))
  BY <1>3, LateType
<1>5. TypeOK' /\ clock <= clock'
  BY <1>2 DEF WindowInv
<1> QED BY <1>1, <1>4, <1>5, QuietKeepsSpans DEF BurstInv

LEMMA RefuseKeepsSpans ==
    ASSUME BurstInv, WindowInv', NEW th \in Thread, Refuse(th)
    PROVE  BurstInv'
<1>1. UNCHANGED <<windows, servedBy, clock>> /\ pc[th] = "checking" /\ Leave(th)
  BY DEF Refuse, historyVars
<1>2. TypeOK /\ TypeOK' /\ clock <= clock'
  BY <1>1, Numbers DEF BurstInv, WindowInv, TypeOK
<1>3. \A t \in Instant : Cardinality(Late(t))' <= Cardinality(Late(t))
  BY <1>1, <1>2, LateLeaves
<1> QED BY <1>1, <1>2, <1>3, QuietKeepsSpans DEF BurstInv

LEMMA TickKeepsSpans ==
    ASSUME BurstInv, WindowInv', Tick \/ UNCHANGED vars
    PROVE  BurstInv'
<1>1. UNCHANGED <<windows, servedBy, pc, now>>
  BY DEF Tick, vars, threadVars, historyVars
<1>2. TypeOK' /\ clock <= clock'
  BY Numbers DEF BurstInv, WindowInv, TypeOK, Tick, vars
<1>3. \A t \in Instant : Late(t)' = Late(t)
  BY <1>1 DEF Late
<1>4. \A t \in Instant : Cardinality(Late(t))' <= Cardinality(Late(t))
  BY <1>3, LateType
<1> QED BY <1>1, <1>2, <1>4, QuietKeepsSpans DEF BurstInv

\* With nothing served, nothing is served in a span.
LEMMA NothingServed ==
    windows = <<>> /\ servedBy = [c \in Client |-> [t \in Instant |-> 0]]
      => BurstBounded /\ \A c \in Client : \A t \in Instant : SpanBound(c, t)
<1> SUFFICES ASSUME windows = <<>>, servedBy = [c \in Client |-> [t \in Instant |-> 0]]
             PROVE  BurstBounded /\ \A c \in Client : \A t \in Instant : SpanBound(c, t)
  OBVIOUS
<1>1. ASSUME NEW c \in Client, NEW t \in Instant PROVE Burst(c, t) = 0
  <2> DEFINE last == IF t + Window <= MaxClock THEN t + Window - 1 ELSE MaxClock
  <2>1. last \in Instant /\ (t # 0 => t - 1 \in Instant)
    BY Numbers DEF Instant
  <2>2. servedBy[c][last] = 0 /\ (t # 0 => servedBy[c][t - 1] = 0)
    BY <2>1
  <2> QED BY <2>2 DEF Burst
<1>2. BurstBounded
  <2> SUFFICES ASSUME NEW c \in Client, NEW t \in Instant
               PROVE  Burst(c, t) <= 2 * MaxLimit + Cardinality(Thread) - 1
    BY DEF BurstBounded
  <2> QED BY <1>1, LateType, LargestLimit
<1>3. DOMAIN windows = {}
  OBVIOUS
<1>4. ASSUME NEW c \in Client, NEW t \in Instant PROVE SpanBound(c, t)
  BY <1>1, <1>3, LateType DEF SpanBound
<1> QED BY <1>2, <1>4

\* The span of another client, or one that does not hold the moment, is as it was.
\* A request that is served in a span is counted in a window that ends by its start, and
\* then comes from a late thread, or in one of the two that reach into it.
LEMMA ServeKeepsSpans ==
    ASSUME BurstInv, WindowInv', NEW th \in Thread, Serve(th)
    PROVE  BurstInv'
<1> DEFINE T == Cardinality(Thread)
<1>0. PICK c : c = client[th]
  OBVIOUS
<1>1. TypeOK /\ WindowInv /\ TypeOK'
  BY DEF BurstInv, WindowInv
<1>2. /\ c \in Client /\ now[th] \in Instant /\ now[th] <= clock
      /\ pc[th] = "checking" /\ Leave(th) /\ clock' = clock
      /\ DOMAIN windows' = DOMAIN windows \cup {c}
      /\ \A x \in DOMAIN windows : x # c => windows'[x] = windows[x]
  BY <1>0, <1>1, ServedWindow
<1>3. clock \in Int /\ T \in Nat /\ T >= 1 /\ MaxLimit \in Nat
  BY <1>1, <1>2, LateType, Numbers, LargestLimit DEF TypeOK
<1>4. ASSUME NEW x \in Client, NEW t \in Instant, x # c \/ ~ (t <= clock /\ clock < t + Window)
      PROVE  Burst(x, t)' = Burst(x, t) /\ Burst(x, t) \in Int
  BY <1>0, <1>1, <1>2, <1>4, BurstGrows, BurstType
<1>5. ASSUME NEW x \in Client, NEW t \in Instant, x # c
      PROVE  SpanBound(x, t)' /\ Burst(x, t)' <= 2 * MaxLimit + T - 1
  <2>1. SpanBound(x, t) /\ Burst(x, t) <= 2 * MaxLimit + T - 1
    BY DEF BurstInv, BurstBounded
  <2>2. Burst(x, t)' = Burst(x, t) /\ Burst(x, t) \in Int
    BY <1>4, <1>5
  <2>3. /\ Cardinality(Late(t)) \in Nat /\ Cardinality(Late(t))' \in Nat
        /\ Cardinality(Late(t))' <= Cardinality(Late(t))
    BY <1>1, <1>2, LateType, LateLeaves
  <2>4. /\ x \in DOMAIN windows' <=> x \in DOMAIN windows
        /\ x \in DOMAIN windows => windows'[x] = windows[x]
    BY <1>2, <1>5
  <2>5. Burst(x, t) + Cardinality(Late(t)) <= T => Burst(x, t)' + Cardinality(Late(t))' <= T
    BY <1>3, <2>2, <2>3
  <2>6. SpanBound(x, t)'
    BY <1>2, <2>1, <2>2, <2>4, <2>5 DEF SpanBound
  <2> QED BY <2>1, <2>2, <2>6
<1>6. ASSUME NEW t \in Instant
      PROVE  SpanBound(c, t)' /\ Burst(c, t)' <= 2 * MaxLimit + T - 1
  <2> DEFINE b == Burst(c, t)
             b2 == Burst(c, t)'
             late == Cardinality(Late(t))
             late2 == Cardinality(Late(t))'
             start == windows'[c].start
             count == windows'[c].count
  <2>1. SpanBound(c, t) /\ b <= 2 * MaxLimit + T - 1 /\ t \in Int
    BY <1>2, Numbers DEF BurstInv, BurstBounded
  <2>2. /\ b \in Int /\ b2 \in Int
        /\ b2 = b + (IF t <= clock /\ clock < t + Window THEN 1 ELSE 0)
    BY <1>0, <1>1, <1>2, BurstGrows, BurstType
  <2>3. /\ late \in Nat /\ late2 \in Nat /\ late <= T /\ late2 <= late /\ late2 <= T
        /\ now[th] < t => late2 = late - 1
    BY <1>1, <1>2, <1>3, LateType, LateLeaves
  <2>4. /\ c \in DOMAIN windows' /\ start \in Int /\ start <= clock
        /\ count \in Nat /\ count >= 1 /\ count <= MaxLimit
        /\ now[th] \in Int /\ Window \in Int /\ Window > 0
        /\ \/ /\ c \in DOMAIN windows
              /\ now[th] < windows[c].start + Window
              /\ start = windows[c].start
              /\ count = windows[c].count + 1
           \/ /\ start = now[th] /\ count = 1
              /\ c \in DOMAIN windows => windows[c].start + Window <= now[th]
    BY <1>0, <1>1, <1>2, ServedWindow, Numbers
  <2>5. c \in DOMAIN windows => /\ windows[c].start \in Int
                                /\ windows[c].count \in Nat /\ windows[c].count <= MaxLimit
    <3> SUFFICES ASSUME c \in DOMAIN windows
                 PROVE  /\ windows[c].start \in Int
                        /\ windows[c].count \in Nat /\ windows[c].count <= MaxLimit
      OBVIOUS
    <3>1. windows[c] \in [start : Instant, count : 1..MaxLimit]
      BY <1>1 DEF TypeOK
    <3> QED BY <1>3, <3>1, Numbers
  <2>6. /\ t > clock => b = 0
        /\ (c \in DOMAIN windows => windows[c].start + Window <= t) => b + late <= T
        /\ c \in DOMAIN windows /\ windows[c].start < t /\ t < windows[c].start + Window
              => b < windows[c].count + T
        /\ c \in DOMAIN windows /\ t <= windows[c].start /\ windows[c].start < t + Window
              => b < windows[c].count + MaxLimit + T
    BY <2>1 DEF SpanBound
  <2> HIDE DEF b, b2, late, late2, start, count, T
  <2>7. t > clock => b2 = 0
    BY <1>3, <2>1, <2>2, <2>6
  <2>8. ASSUME start + Window <= t PROVE b2 + late2 <= T
    <3>1. b + late <= T
      BY <2>1, <2>4, <2>5, <2>6, <2>8
    <3>2. now[th] < t
      BY <2>1, <2>4, <2>8
    <3> QED BY <1>3, <2>2, <2>3, <3>1, <3>2
  <2>9. ASSUME start < t, t < start + Window PROVE b2 < count + T
    <3>1. CASE c \in DOMAIN windows /\ start = windows[c].start /\ count = windows[c].count + 1
      BY <1>3, <2>1, <2>2, <2>4, <2>5, <2>6, <2>9, <3>1
    <3>2. CASE /\ start = now[th] /\ count = 1
               /\ c \in DOMAIN windows => windows[c].start + Window <= now[th]
      <4>1. b + late <= T
        BY <2>1, <2>4, <2>5, <2>6, <2>9, <3>2
      <4>2. late >= 1
        BY <2>3, <2>9, <3>2
      <4> QED BY <1>3, <2>2, <2>3, <2>4, <3>2, <4>1, <4>2
    <3> QED BY <2>4, <3>1, <3>2
  <2>10. ASSUME t <= start, start < t + Window PROVE b2 < count + MaxLimit + T
    <3>1. CASE c \in DOMAIN windows /\ start = windows[c].start /\ count = windows[c].count + 1
      BY <1>3, <2>1, <2>2, <2>4, <2>5, <2>6, <2>10, <3>1
    <3>2. CASE /\ start = now[th] /\ count = 1
               /\ c \in DOMAIN windows => windows[c].start + Window <= now[th]
      <4>1. b < MaxLimit + T
        <5>1. CASE c \in DOMAIN windows => windows[c].start + Window <= t
          BY <1>3, <2>2, <2>3, <2>4, <2>6, <5>1
        <5>2. CASE c \in DOMAIN windows /\ ~ (windows[c].start + Window <= t)
          BY <1>3, <2>1, <2>2, <2>4, <2>5, <2>6, <2>10, <3>2, <5>2
        <5> QED BY <5>1, <5>2
      <4> QED BY <1>3, <2>2, <2>4, <3>2, <4>1
    <3> QED BY <2>4, <3>1, <3>2
  <2>11. b2 <= 2 * MaxLimit + T - 1
    <3>1. CASE start + Window <= t
      BY <1>3, <2>1, <2>2, <2>3, <2>4, <2>8, <3>1
    <3>2. CASE start < t /\ t < start + Window
      BY <1>3, <2>1, <2>2, <2>4, <2>9, <3>2
    <3>3. CASE t <= start /\ start < t + Window
      BY <1>3, <2>1, <2>2, <2>4, <2>10, <3>3
    <3>4. CASE t + Window <= start
      BY <1>3, <2>1, <2>2, <2>4, <3>4
    <3> QED BY <2>1, <2>4, <3>1, <3>2, <3>3, <3>4
  <2>12. SpanBound(c, t)'
    BY <1>2, <2>4, <2>7, <2>8, <2>9, <2>10 DEF SpanBound, b2, late2, start, count, T
  <2> QED BY <2>11, <2>12 DEF b2
<1>7. \A x \in Client : \A t \in Instant : SpanBound(x, t)' /\ Burst(x, t)' <= 2 * MaxLimit + T - 1
  BY <1>5, <1>6
<1> QED BY <1>7 DEF BurstInv, BurstBounded

\* Every step keeps what is known of the spans.
LEMMA BurstStep == BurstInv /\ WindowInv' /\ [Next]_vars => BurstInv'
<1> SUFFICES ASSUME BurstInv, WindowInv', [Next]_vars PROVE BurstInv'
  OBVIOUS
<1>1. CASE Tick \/ UNCHANGED vars
  BY <1>1, TickKeepsSpans
<1>2. CASE Reset
  <2>1. windows' = <<>> /\ servedBy' = [c \in Client |-> [t \in Instant |-> 0]]
    BY <1>2 DEF Reset
  <2>2. (windows = <<>> /\ servedBy = [c \in Client |-> [t \in Instant |-> 0]]
           => BurstBounded /\ \A c \in Client : \A t \in Instant : SpanBound(c, t))'
    BY NothingServed, PTL
  <2> QED BY <2>1, <2>2 DEF BurstInv
<1>3. ASSUME NEW th \in Thread, NEW request \in Request, NEW n \in Limit,
             Arrive(th, request, n)
      PROVE  BurstInv'
  BY <1>3, ArriveKeepsSpans
<1>4. ASSUME NEW th \in Thread, Serve(th) PROVE BurstInv'
  BY <1>4, ServeKeepsSpans
<1>5. ASSUME NEW th \in Thread, Refuse(th) PROVE BurstInv'
  BY <1>5, RefuseKeepsSpans
<1> QED BY <1>1, <1>2, <1>3, <1>4, <1>5 DEF Next

\* What has been served in each span is bounded by how far the windows have come.
THEOREM BurstInvariant == Spec => []BurstInv
<1>1. Init => BurstInv
  BY InitKeeps, NothingServed DEF Init, BurstInv
<1> QED BY <1>1, BurstStep, WindowInvariant, PTL DEF Spec

\* No span of one window serves a client more than twice the largest limit and one
\* request for every other thread, wherever the span lies, whatever times the threads
\* bring to the lock and however often they overtake each other.
THEOREM BurstsAreBounded == Spec => []BurstBounded
<1>1. BurstInv => BurstBounded
  BY DEF BurstInv
<1> QED BY <1>1, BurstInvariant, PTL
=============================================================================
