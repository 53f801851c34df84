--------------------------- MODULE IPRateLimiter ---------------------------
(***************************************************************************)
(* The fixed-window request limiter (ratelimit.py) behind the FastAPI      *)
(* dependency that feeds it (fastapi_ext.py).  check() is called from the  *)
(* threadpool of the sync endpoints: it reads the monotonic clock, then    *)
(* takes the lock and counts the request in the client's window, so the    *)
(* time it counts with may be older than the window it finds.              *)
(*                                                                         *)
(* Time is counted in ticks, TicksPerSecond of them to the second that     *)
(* Retry-After is rounded to.                                              *)
(***************************************************************************)
EXTENDS Integers, FiniteSets, FiniteSetsExt

CONSTANTS
    Thread,         \* threads of the endpoint threadpool
    Address,        \* client addresses
    Unknown,        \* the client id "unknown"
    None,           \* an absent header, an empty left-most hop or an absent peer
    Enabled,        \* the dependency's `enabled` flag
    Limit,          \* the limits callers pass to check()
    Window,         \* _WINDOW_SECONDS, in ticks
    TicksPerSecond,
    MaxClock,       \* bound on time
    MaxRequests     \* bound on the number of requests

ASSUME LimiterAssumption ==
    /\ Limit \subseteq Nat /\ \E n \in Limit : \A m \in Limit : n >= m
    /\ Window \in Nat \ {0} /\ TicksPerSecond \in Nat \ {0}
    /\ MaxClock \in Nat /\ MaxRequests \in Nat
    /\ Enabled \in BOOLEAN
    /\ IsFiniteSet(Thread) /\ Thread # {}
    /\ None \notin Address

Instant == 0..MaxClock
Client == Address \cup {Unknown}

\* What client_ip() looks at: the left-most X-Forwarded-For hop and the peer.
Request == [hop : Address \cup {None}, peer : Address \cup {None}]

VARIABLES
    clock,      \* time.monotonic()
    windows,    \* _windows: client -> the window's start and its count
    pc,         \* where each thread is
    client,     \* the client whose request each thread checks
    limit,      \* the limit it checks against
    now,        \* the time it read before taking the lock
    retry,      \* the retry_after each thread was last refused with, 0 for none
    counted,    \* history: requests served, per client and window start
    servedBy,   \* history: requests served up to each instant, per client
    requests    \* number of requests checked, for the bound

threadVars == <<pc, client, limit, now>>
historyVars == <<counted, servedBy>>
vars == <<clock, windows, threadVars, retry, historyVars, requests>>

-----------------------------------------------------------------------------
\* client_ip
ClientOf(request) ==
    IF request.hop # None THEN request.hop
    ELSE IF request.peer # None THEN request.peer
    ELSE Unknown

\* Fault: a window that has rolled over keeps its start.
StaleWindow(c, t) ==
    IF c \in DOMAIN windows
    THEN [start |-> windows[c].start,
          count |-> IF t - windows[c].start >= Window THEN 0 ELSE windows[c].count]
    ELSE [start |-> t, count |-> 0]

\* The window in which a request of client c read at time t is counted.
CurrentWindow(c, t) ==
    IF c \in DOMAIN windows /\ t - windows[c].start < Window
    THEN windows[c]
    ELSE [start |-> t, count |-> 0]

\* Fault: the fraction of a second left is dropped.
RoundedDown(c, t) ==
    LET start == IF c \in DOMAIN windows THEN windows[c].start ELSE t
        left  == Window - (t - start)
    IN  IF left > TicksPerSecond THEN left \div TicksPerSecond ELSE 1

\* retry_after: max(1, int(seconds left) + 1), of the window found.
RetryAfter(c, t) ==
    LET start == IF c \in DOMAIN windows THEN windows[c].start ELSE t
        left  == Window - (t - start)
    IN  IF left > 0 THEN left \div TicksPerSecond + 1 ELSE 1

Init ==
    /\ clock = 0
    /\ windows = <<>>
    /\ pc = [th \in Thread |-> "idle"]
    /\ client = [th \in Thread |-> Unknown]
    /\ limit = [th \in Thread |-> 0]
    /\ now = [th \in Thread |-> 0]
    /\ retry = [th \in Thread |-> 0]
    /\ counted = [c \in Client |-> [t \in Instant |-> 0]]
    /\ servedBy = [c \in Client |-> [t \in Instant |-> 0]]
    /\ requests = 0

Tick ==
    /\ clock < MaxClock
    /\ clock' = clock + 1
    /\ UNCHANGED <<windows, threadVars, retry, historyVars, requests>>

\* A request enters check(), which reads the clock; with the limiter disabled
\* the dependency returns at once.
Arrive(th, request, n) ==
    /\ Enabled
    /\ pc[th] = "idle"
    /\ requests < MaxRequests
    /\ pc' = [pc EXCEPT ![th] = "checking"]
    /\ client' = [client EXCEPT ![th] = ClientOf(request)]
    /\ limit' = [limit EXCEPT ![th] = n]
    /\ now' = [now EXCEPT ![th] = clock]
    /\ retry' = [retry EXCEPT ![th] = 0]
    /\ requests' = requests + 1
    /\ UNCHANGED <<clock, windows, historyVars>>

\* The thread leaves check().
Leave(th) ==
    /\ pc' = [pc EXCEPT ![th] = "idle"]
    /\ client' = [client EXCEPT ![th] = Unknown]
    /\ limit' = [limit EXCEPT ![th] = 0]
    /\ now' = [now EXCEPT ![th] = 0]

\* check() under its lock counts the request.
Serve(th) ==
    LET c == client[th]
        w == CurrentWindow(c, now[th])
    IN  /\ pc[th] = "checking"
        /\ w.count + 1 <= limit[th]
        /\ windows' = [x \in DOMAIN windows \cup {c} |->
                         IF x = c THEN [w EXCEPT !.count = @ + 1] ELSE windows[x]]
        /\ counted' = [counted EXCEPT ![c][w.start] = @ + 1]
        /\ servedBy' = [servedBy EXCEPT ![c] =
                [t \in Instant |-> IF t < clock THEN @[t] ELSE @[t] + 1]]
        /\ Leave(th)
        /\ UNCHANGED <<clock, retry, requests>>

\* Fault: a refused request is stored in the window like a served one.
RefuseStored(th) ==
    LET c == client[th]
        w == CurrentWindow(c, now[th])
    IN  /\ pc[th] = "checking"
        /\ w.count + 1 > limit[th]
        /\ windows' = [x \in DOMAIN windows \cup {c} |->
                         IF x = c THEN [w EXCEPT !.count = @ + 1] ELSE windows[x]]
        /\ retry' = [retry EXCEPT ![th] = RetryAfter(c, now[th])]
        /\ Leave(th)
        /\ UNCHANGED <<clock, historyVars, requests>>

\* check() under its lock raises RateLimitExceeded and stores nothing.
Refuse(th) ==
    LET c == client[th]
        w == CurrentWindow(c, now[th])
    IN  /\ pc[th] = "checking"
        /\ w.count + 1 > limit[th]
        /\ retry' = [retry EXCEPT ![th] = RetryAfter(c, now[th])]
        /\ Leave(th)
        /\ UNCHANGED <<clock, windows, historyVars, requests>>

\* reset(), the test helper: the limiter starts over, and the histories with it.
Reset ==
    /\ windows' = <<>>
    /\ counted' = [c \in Client |-> [t \in Instant |-> 0]]
    /\ servedBy' = [c \in Client |-> [t \in Instant |-> 0]]
    /\ UNCHANGED <<clock, threadVars, retry, requests>>

Next ==
    \/ Tick
    \/ Reset
    \/ \E th \in Thread :
          \/ \E request \in Request, n \in Limit : Arrive(th, request, n)
          \/ Serve(th)
          \/ Refuse(th)

Spec == Init /\ [][Next]_vars

-----------------------------------------------------------------------------
(* Properties *)

MaxLimit == Max(Limit)

\* Every variable has its type; a stored window has counted a request, and never
\* more than a limit allows.
TypeOK ==
    /\ clock \in Instant
    /\ DOMAIN windows \subseteq Client
    /\ \A c \in DOMAIN windows :
          windows[c] \in [start : Instant, count : 1..MaxLimit]
    /\ pc \in [Thread -> {"idle", "checking"}]
    /\ client \in [Thread -> Client]
    /\ limit \in [Thread -> Limit \cup {0}]
    /\ now \in [Thread -> Instant]
    /\ retry \in [Thread -> Nat]
    /\ counted \in [Client -> [Instant -> Nat]]
    /\ servedBy \in [Client -> [Instant -> Nat]]
    /\ requests \in 0..MaxRequests

\* The windows of one client never overlap and each serves at most the limit,
\* although a thread may come to the lock with a time older than the window it
\* finds (ratelimit.py:95 reads the clock before the lock of line 96).
WindowsApart ==
    \A c \in Client : \A s, t \in Instant :
        /\ counted[c][s] <= MaxLimit
        /\ s < t /\ counted[c][s] > 0 /\ counted[c][t] > 0 => t - s >= Window

\* The stored count is the requests served in the window, so a refusal costs the
\* client nothing (ratelimit.py:105), and the stored window is its newest.
CountIsServed ==
    \A c \in Client : \A t \in Instant :
        IF c \in DOMAIN windows
        THEN /\ t = windows[c].start => counted[c][t] = windows[c].count
             /\ t > windows[c].start => counted[c][t] = 0
        ELSE counted[c][t] = 0

\* A thread's time is past, and so is every window.
TimesArePast ==
    /\ \A th \in Thread : now[th] <= clock
    /\ \A c \in DOMAIN windows : windows[c].start <= clock

\* A thread that is checking has not been refused yet.
NotYetRefused == \A th \in Thread : pc[th] = "checking" => retry[th] = 0

\* The inductive invariant behind WindowsApart and RetryHonest.
WindowInv ==
    /\ TypeOK
    /\ TimesArePast
    /\ NotYetRefused
    /\ CountIsServed
    /\ WindowsApart

\* The requests of client c that were served in the span of one window from t on.
Burst(c, t) ==
    LET last == IF t + Window <= MaxClock THEN t + Window - 1 ELSE MaxClock
    IN  servedBy[c][last] - IF t = 0 THEN 0 ELSE servedBy[c][t - 1]

\* A client is served at most twice the limit in any span of one window
\* (ratelimit.py:18), plus one request for every other thread that was at the
\* lock with a time from before the span.
BurstBounded ==
    \A c \in Client : \A t \in Instant :
        Burst(c, t) <= 2 * MaxLimit + Cardinality(Thread) - 1

\* The threads that are at the lock with a time from before t.
Late(t) == {th \in Thread : pc[th] = "checking" /\ now[th] < t}

\* What has been served in a span from t on, by how far the windows have come: into
\* windows that end by t only by threads that were late, one request each; into the
\* window that is open at t; and into the one that opens in the span.
SpanBound(c, t) ==
    LET served == Burst(c, t)
        start  == windows[c].start
        count  == windows[c].count
    IN  /\ t > clock => served = 0
        /\ (c \in DOMAIN windows => start + Window <= t)
              => served + Cardinality(Late(t)) <= Cardinality(Thread)
        /\ c \in DOMAIN windows /\ start < t /\ t < start + Window
              => served < count + Cardinality(Thread)
        /\ c \in DOMAIN windows /\ t <= start /\ start < t + Window
              => served < count + MaxLimit + Cardinality(Thread)

\* The inductive invariant behind BurstBounded.
BurstInv ==
    /\ WindowInv
    /\ \A c \in Client : \A t \in Instant : SpanBound(c, t)
    /\ BurstBounded

\* A refused client that waits retry_after seconds finds the window it was refused
\* in over, and was not told to wait a second too long counted from the time its
\* thread read (ratelimit.py:47).
RetryHonest ==
    [][\A th \in Thread :
          LET end == windows[client[th]].start + Window
              wait == retry'[th] * TicksPerSecond
          IN  pc[th] = "checking" /\ retry'[th] > 0 /\ limit[th] > 0
                => /\ client[th] \in DOMAIN windows
                   /\ end <= clock + wait
                   /\ now[th] + wait <= end + TicksPerSecond]_vars
=============================================================================
