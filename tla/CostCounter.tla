---------------------------- MODULE CostCounter ----------------------------
(***************************************************************************)
(* The rolling-window spend counter (counters.py, class CostCounter) as    *)
(* the request threads of a server use it: the pre-hook of a guarded call  *)
(* runs enforce(), the provider is called, the post-hook runs record().    *)
(* Spend that already happened is recorded without enforce()               *)
(* (wrapper.record_usage).                                                 *)
(*                                                                         *)
(* Time is a monotone clock of instants; Bucket[w] maps an instant to the  *)
(* number of its hour, UTC day or ISO week.  Money is an integer.          *)
(***************************************************************************)
EXTENDS Integers, FiniteSets

CONSTANTS
    Thread,     \* request threads (the sync-endpoint threadpool)
    Token,      \* caller identities
    NoToken,    \* token=None
    Enabled,    \* the constructor's `enabled` flag
    Cap,        \* cap in USD of each window
    TokenCap,   \* weekly cap in USD of one identity
    Keep,       \* _MAX_HOURLY, _MAX_DAILY, _MAX_WEEKLY
    Bucket,     \* [Window -> [Instant -> Nat]], the calendar
    MaxCost,    \* the largest cost of one call
    MaxClock,   \* bound on time
    MaxCalls    \* bound on the number of calls

Window == {"hourly", "daily", "weekly"}
Instant == 0..MaxClock

ASSUME SizeAssumption ==
    /\ IsFiniteSet(Thread) /\ Thread # {}
    /\ MaxCost \in Nat /\ MaxClock \in Nat /\ MaxCalls \in Nat
    /\ NoToken \notin Token
    /\ Enabled \in BOOLEAN

ASSUME CapAssumption ==
    /\ Cap \in [Window -> Nat \ {0}]
    /\ TokenCap \in Nat \ {0}
    /\ Keep \in [Window -> Nat \ {0}]

ASSUME CalendarAssumption ==
    /\ DOMAIN Bucket = Window
    /\ \A w \in Window : DOMAIN Bucket[w] = Instant
    /\ \A w \in Window : \A s, t \in Instant :
          /\ Bucket[w][s] \in Nat
          /\ s <= t => Bucket[w][s] <= Bucket[w][t]

VARIABLES
    clock,      \* UTC wall clock
    total,      \* _hourly, _daily, _weekly: bucket -> USD, for the buckets kept
    stat,       \* _per_token: identity -> its tally and the week it is of
    alerted,    \* _alerted: the latch keys
    pc,         \* where each thread is
    caller,     \* the identity of the call each thread is making, until recorded
    start,      \* the instant at which the thread's record() read its first bucket
    pending,    \* alerts a thread has latched and not yet delivered
    admitted,   \* history: threads whose current call passed enforce()
    guarded,    \* history: USD of admitted calls, per window and bucket
    outside,    \* history: USD recorded without enforce()
    attempted,  \* history: alerts handed to alert()
    calls       \* number of calls begun, for the bound

counterVars == <<total, stat, alerted>>
historyVars == <<guarded, outside, attempted>>
vars == <<clock, counterVars, pc, caller, start, pending, admitted,
          historyVars, calls>>

-----------------------------------------------------------------------------
(* State helpers *)

Buckets(w) == {Bucket[w][t] : t \in Instant}

Now(w) == Bucket[w][clock]

\* dict.get(key, 0.0)
Get(f, b) == IF b \in DOMAIN f THEN f[b] ELSE 0

\* f[b] = f.get(b, 0.0) + usd
Add(f, b, usd) ==
    [x \in DOMAIN f \cup {b} |-> IF x = b THEN Get(f, b) + usd ELSE f[x]]

\* Fault: the trim drops the newest buckets instead of the oldest.
Oldest(f, n) == {b \in DOMAIN f : Cardinality({x \in DOMAIN f : x < b}) < n}

\* The n newest buckets of f.
Newest(f, n) == {b \in DOMAIN f : Cardinality({x \in DOMAIN f : x > b}) < n}

\* Fault: history is never trimmed.
TrimNothing(f, n) == f

\* _trim
Trim(f, n) == [b \in Newest(f, n) |-> f[b]]

\* An identity's tally as enforce() sees it in the given week.
Tally(tk, week) ==
    IF tk \in DOMAIN stat /\ stat[tk].week = week THEN stat[tk].usd ELSE 0

LatchKey ==
    ({"daily"} \X {NoToken} \X Buckets("daily"))
      \cup ({"weekly80"} \X {NoToken} \X Buckets("weekly"))
      \cup ({"hourly"} \X {NoToken} \X Buckets("hourly"))
      \cup ({"per_token"} \X Token \X Buckets("weekly"))

-----------------------------------------------------------------------------
(* enforce() *)

\* Fault: a cap that is exactly met does not refuse.
RefusedAbove(tk) ==
    /\ Enabled
    /\ \/ \E w \in Window : Get(total[w], Now(w)) > Cap[w]
       \/ tk # NoToken /\ Tally(tk, Now("weekly")) > TokenCap

\* Some cap is met by what has already been recorded.
Refused(tk) ==
    /\ Enabled
    /\ \/ \E w \in Window : Get(total[w], Now(w)) >= Cap[w]
       \/ tk # NoToken /\ Tally(tk, Now("weekly")) >= TokenCap

-----------------------------------------------------------------------------
(* record(): the part under the lock, for the captured buckets `at` *)

\* Every window is credited and trimmed to its newest Keep[w] buckets.
Credited(at, usd) ==
    [w \in Window |-> Trim(Add(total[w], at[w], usd), Keep[w])]

\* Fault: the cost replaces the identity's tally.
StatReplaced(tk, week, usd) ==
    IF tk = NoToken THEN stat
    ELSE [k \in DOMAIN stat \cup {tk} |->
            IF k = tk THEN [usd |-> usd, week |-> week] ELSE stat[k]]

\* The identity's record: a fresh one when it is new or of another week.
Stat(tk, week, usd) ==
    IF tk = NoToken THEN stat
    ELSE [k \in DOMAIN stat \cup {tk} |->
            IF k = tk THEN [usd |-> Tally(tk, week) + usd, week |-> week]
                      ELSE stat[k]]

\* The trip points: `key` is the latch key of a limit that the totals tot and the
\* tallies st have reached in the buckets `at` of the call.
Reached(key, tot, st, at, tk) ==
    \/ /\ key = <<"daily", NoToken, at["daily"]>>
       /\ Get(tot["daily"], at["daily"]) >= Cap["daily"]
    \/ /\ key = <<"weekly80", NoToken, at["weekly"]>>
       /\ 5 * Get(tot["weekly"], at["weekly"]) >= 4 * Cap["weekly"]
    \/ /\ key = <<"hourly", NoToken, at["hourly"]>>
       /\ Get(tot["hourly"], at["hourly"]) >= Cap["hourly"]
    \/ /\ tk \in DOMAIN st
       /\ key = <<"per_token", tk, at["weekly"]>>
       /\ st[tk].week = at["weekly"]
       /\ st[tk].usd >= TokenCap

\* Fault: the trip points are tried as alternatives, so one call latches one key.
OneTrip(tot, st, at, tk) ==
    LET all == {key \in LatchKey : Enabled /\ Reached(key, tot, st, at, tk)}
    IN  {key \in all : key = CHOOSE k \in all : TRUE}

\* _collect_alerts: every trip point the call has reached.
Trips(tot, st, at, tk) ==
    {key \in LatchKey : Enabled /\ Reached(key, tot, st, at, tk)}

\* Fault: the set of keys already alerted is not consulted.
LatchAlways(keys) == keys

\* _latch: the keys that were not in _alerted yet.
Latch(keys) == keys \ alerted

-----------------------------------------------------------------------------
Init ==
    /\ clock = 0
    /\ total = [w \in Window |-> <<>>]
    /\ stat = <<>>
    /\ alerted = {}
    /\ pc = [th \in Thread |-> "idle"]
    /\ caller = [th \in Thread |-> NoToken]
    /\ start = [th \in Thread |-> 0]
    /\ pending = [th \in Thread |-> {}]
    /\ admitted = {}
    /\ guarded = [w \in Window |-> [b \in Buckets(w) |-> 0]]
    /\ outside = [w \in Window |-> [b \in Buckets(w) |-> 0]]
    /\ attempted = {}
    /\ calls = 0

Tick ==
    /\ clock < MaxClock
    /\ clock' = clock + 1
    /\ UNCHANGED <<counterVars, pc, caller, start, pending, admitted,
                   historyVars, calls>>

\* WindowedCapHook.pre: enforce() returns and the provider is called.
Enforce(th, tk) ==
    /\ pc[th] = "idle"
    /\ calls < MaxCalls
    /\ ~Refused(tk)
    /\ pc' = [pc EXCEPT ![th] = "calling"]
    /\ caller' = [caller EXCEPT ![th] = tk]
    /\ admitted' = admitted \cup {th}
    /\ calls' = calls + 1
    /\ UNCHANGED <<clock, counterVars, start, pending, historyVars>>

\* WindowedCapHook.pre: enforce() raises CostCapExceeded and nothing changes.
Refuse(th, tk) ==
    /\ pc[th] = "idle"
    /\ Refused(tk)
    /\ UNCHANGED vars

\* A later pre-hook refuses the admitted call, the provider raises, or the usage of its
\* answer cannot be read.
Abandon(th) ==
    /\ pc[th] = "calling"
    /\ pc' = [pc EXCEPT ![th] = "idle"]
    /\ caller' = [caller EXCEPT ![th] = NoToken]
    /\ admitted' = admitted \ {th}
    /\ UNCHANGED <<clock, counterVars, start, pending, historyVars, calls>>

\* The provider has answered: the post-hook enters record().
BeginRecord(th) ==
    /\ pc[th] = "calling"
    /\ pc' = [pc EXCEPT ![th] = "recording"]
    /\ start' = [start EXCEPT ![th] = clock]
    /\ UNCHANGED <<clock, counterVars, caller, pending, admitted, historyVars, calls>>

\* record_usage(): spend that already happened enters record() without enforce().
BeginRecordUsage(th, tk) ==
    /\ pc[th] = "idle"
    /\ calls < MaxCalls
    /\ pc' = [pc EXCEPT ![th] = "recording"]
    /\ caller' = [caller EXCEPT ![th] = tk]
    /\ start' = [start EXCEPT ![th] = clock]
    /\ calls' = calls + 1
    /\ UNCHANGED <<clock, counterVars, pending, admitted, historyVars>>

\* Credit a history, one bucket of each window.
Plus(history, at, usd) ==
    [w \in Window |-> [history[w] EXCEPT ![at[w]] = @ + usd]]

\* The locked part of record(), for a call of cost usd whose buckets are `at`.
RecordLocked(th, at, usd) ==
    LET trips == Trips(total', stat', at, caller[th])
    IN  /\ total' = Credited(at, usd)
        /\ stat' = Stat(caller[th], at["weekly"], usd)
        /\ alerted' = alerted \cup trips
        /\ pending' = [pending EXCEPT ![th] = Latch(trips)]
        /\ pc' = [pc EXCEPT ![th] = "delivering"]
        /\ IF th \in admitted
           THEN guarded' = Plus(guarded, at, usd) /\ UNCHANGED outside
           ELSE outside' = Plus(outside, at, usd) /\ UNCHANGED guarded
        /\ admitted' = admitted \ {th}
        /\ caller' = [caller EXCEPT ![th] = NoToken]
        /\ start' = [start EXCEPT ![th] = 0]
        /\ UNCHANGED <<clock, attempted, calls>>

\* The hour, the day and the week were read one after the other between the
\* entry of record() and its lock, so each may be older than the clock.
Record(th) ==
    /\ pc[th] = "recording"
    /\ \E hour \in start[th]..clock : \E today \in hour..clock :
       \E week \in today..clock : \E usd \in 0..MaxCost :
          RecordLocked(th, [hourly |-> Bucket["hourly"][hour],
                            daily  |-> Bucket["daily"][today],
                            weekly |-> Bucket["weekly"][week]], usd)

\* One alert is handed to alert(); a sink that fails is logged and swallowed,
\* so both outcomes continue with the next alert.
Deliver(th) ==
    /\ pc[th] = "delivering"
    /\ \E key \in pending[th] :
          /\ attempted' = attempted \cup {key}
          /\ pending' = [pending EXCEPT ![th] = @ \ {key}]
    /\ UNCHANGED <<clock, counterVars, pc, caller, start, admitted,
                   guarded, outside, calls>>

\* record() schedules the write and returns.
Return(th) ==
    /\ pc[th] = "delivering"
    /\ pending[th] = {}
    /\ pc' = [pc EXCEPT ![th] = "idle"]
    /\ UNCHANGED <<clock, counterVars, caller, start, pending, admitted,
                   historyVars, calls>>

Identity == Token \cup {NoToken}

Step(th) ==
    \/ \E tk \in Identity : Enforce(th, tk)
    \/ \E tk \in Identity : Refuse(th, tk)
    \/ \E tk \in Identity : BeginRecordUsage(th, tk)
    \/ Abandon(th)
    \/ BeginRecord(th)
    \/ Record(th)
    \/ Deliver(th)
    \/ Return(th)

Next == Tick \/ \E th \in Thread : Step(th)

Spec == Init /\ [][Next]_vars

-----------------------------------------------------------------------------
(* Properties *)

\* Every variable has its type; each window holds at most Keep[w] buckets, so
\* the persisted blob stays small (_trim, counters.py:57).
TypeOK ==
    /\ clock \in Instant
    /\ DOMAIN total = Window
    /\ \A w \in Window :
          /\ DOMAIN total[w] \subseteq Buckets(w)
          /\ \A b \in DOMAIN total[w] : total[w][b] \in Nat
          /\ Cardinality(DOMAIN total[w]) <= Keep[w]
    /\ DOMAIN stat \subseteq Token
    /\ \A tk \in DOMAIN stat : stat[tk] \in [usd : Nat, week : Buckets("weekly")]
    /\ alerted \subseteq LatchKey
    /\ pc \in [Thread -> {"idle", "calling", "recording", "delivering"}]
    /\ caller \in [Thread -> Identity]
    /\ start \in [Thread -> Instant]
    /\ pending \in [Thread -> SUBSET LatchKey]
    /\ admitted \subseteq Thread
    /\ DOMAIN guarded = Window /\ DOMAIN outside = Window
    /\ \A w \in Window : /\ guarded[w] \in [Buckets(w) -> Nat]
                         /\ outside[w] \in [Buckets(w) -> Nat]
    /\ attempted \subseteq LatchKey
    /\ calls \in 0..MaxCalls

\* No admitted call's cost is forgotten while its window is current: the total
\* enforce() compares is all that was ever recorded in the present hour, day and
\* week, whatever late record() has credited or trimmed an old bucket meanwhile.
CurrentTotalsExact ==
    \A w \in Window :
        Get(total[w], Now(w)) = guarded[w][Now(w)] + outside[w][Now(w)]

\* The overshoot of a cap is bounded: the admitted calls of one hour, day or week
\* stay below the cap plus one call per thread, however enforce() and record()
\* of the threads interleave and whatever is recorded outside enforce().
GuardedSpendBounded ==
    Enabled => \A w \in Window : \A b \in Buckets(w) :
        guarded[w][b] < Cap[w] + MaxCost * Cardinality(Thread)

\* The earliest instant at which the admitted call of a thread can be credited,
\* and the admitted calls that may still be credited to bucket b or an earlier one.
Earliest(th) == IF pc[th] = "recording" THEN start[th] ELSE clock
MayCredit(w, b) == {th \in admitted : Bucket[w][Earliest(th)] <= b}

\* Money set aside: what is recorded in a bucket plus the largest cost of every
\* admitted call that may still be credited to it stays under the bound.
ReservedSpendBounded ==
    Enabled => \A w \in Window : \A b \in Buckets(w) :
        guarded[w][b] + MaxCost * Cardinality(MayCredit(w, b))
            < Cap[w] + MaxCost * Cardinality(Thread)

\* Nothing has been recorded in a bucket that time has not reached.
FutureEmpty ==
    \A w \in Window :
        /\ \A b \in DOMAIN total[w] : b <= Now(w)
        /\ \A b \in Buckets(w) :
              b > Now(w) => guarded[w][b] = 0 /\ outside[w][b] = 0

\* An admitted call is calling the provider or recording; record() began in the past.
InFlight ==
    /\ \A th \in admitted : pc[th] \in {"calling", "recording"}
    /\ \A th \in Thread : start[th] <= clock

\* The inductive invariant behind CurrentTotalsExact and GuardedSpendBounded.
SpendInv ==
    /\ TypeOK
    /\ InFlight
    /\ FutureEmpty
    /\ CurrentTotalsExact
    /\ ReservedSpendBounded

\* Whatever window or weekly allowance has reached its trip point has had its
\* alert latched, also when the clock ticked while record() was running.
EveryTripLatched ==
    Enabled =>
      /\ \A b \in DOMAIN total["hourly"] :
            total["hourly"][b] >= Cap["hourly"] => <<"hourly", NoToken, b>> \in alerted
      /\ \A b \in DOMAIN total["daily"] :
            total["daily"][b] >= Cap["daily"] => <<"daily", NoToken, b>> \in alerted
      /\ \A b \in DOMAIN total["weekly"] :
            5 * total["weekly"][b] >= 4 * Cap["weekly"]
               => <<"weekly80", NoToken, b>> \in alerted
      /\ \A tk \in DOMAIN stat :
            stat[tk].usd >= TokenCap => <<"per_token", tk, stat[tk].week>> \in alerted

\* A latched alert is either with exactly one thread that has yet to deliver it or
\* has been delivered, never both: threads that cross a cap together send one alert.
AlertsDeliveredOnce ==
    /\ alerted = attempted \cup UNION {pending[th] : th \in Thread}
    /\ \A th \in Thread : pending[th] \cap attempted = {}
    /\ \A s, t \in Thread : s # t => pending[s] \cap pending[t] = {}

\* An identity's weekly tally is lost in no other way than this: its week has moved
\* forward, or a record() of that identity which read the week before the rollover
\* took the lock after one of the new week (counters.py:271) and put the tally back.
TallyLostOnlyByStraggler ==
    [][\A tk \in DOMAIN stat :
          /\ tk \in DOMAIN stat'
          /\ \/ stat'[tk].usd >= stat[tk].usd
             \/ stat'[tk].week > stat[tk].week
             \/ \E th \in Thread :
                   /\ pc[th] = "recording" /\ caller[th] = tk
                   /\ Bucket["weekly"][start[th]] <= stat'[tk].week
                   /\ stat'[tk].week < stat[tk].week]_vars

-----------------------------------------------------------------------------
(* The caps are admission gates, one for every bucket of every window. *)

Pot == UNION {{w} \X Buckets(w) : w \in Window}

Gate == INSTANCE AdmissionGate WITH
    Enforced <- Enabled,
    Cap <- [p \in Pot |-> Cap[p[1]]],
    spent <- [p \in Pot |-> guarded[p[1]][p[2]]],
    inflight <- [p \in Pot |-> MayCredit(p[1], p[2])]

\* Whatever the late records, the trims and the spend recorded outside enforce(),
\* the counter admits to each hour, day and week as an AdmissionGate does: a call is
\* admitted below the cap and charged once, to a bucket it was in flight for.
ImplementsGate == Gate!Spec
=============================================================================
