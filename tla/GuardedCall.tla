---------------------------- MODULE GuardedCall ----------------------------
(***************************************************************************)
(* The call pipeline (wrapper.py): guarded_call runs the pre-hooks of its  *)
(* chain, calls the provider and runs the post-hooks; record_usage runs    *)
(* the post-hooks for a call the application made itself.  Threads run     *)
(* their calls through one chain, so they share its meters: ScopeBudget    *)
(* objects (budget.py), which have no lock, and CostCounters and           *)
(* ProviderTotals (provider_totals.py), which have.                        *)
(***************************************************************************)
EXTENDS Integers, Sequences, FiniteSets

CONSTANTS
    Thread,
    Hook,       \* the registered hooks
    Kind,       \* [Hook -> HookKind]
    Limit,      \* the ceiling of a budget, the cap of a counter
    Chains,     \* the orders in which the hooks may be registered
    MaxCost,    \* the largest cost of the tokens of a call
    ToolCost,   \* the cost of the server-side tools of a call that uses them
    MaxCalls    \* bound on the number of calls

HookKind ==
    {"gate",    \* RequirePricedModelHook
     "budget",  \* ScopeBudgetHook
     "cap",     \* WindowedCapHook, within one window
     "totals",  \* ProviderTotalsHook, for one provider
     "other"}   \* any other hook: its pre and its post may raise

Budget == {h \in Hook : Kind[h] = "budget"}
Capped == {h \in Hook : Kind[h] \in {"budget", "cap"}}
Meter == {h \in Hook : Kind[h] \in {"budget", "cap", "totals"}}

\* Models with a rate row, and without: exempt from the gate or not.
Model == {"priced", "unpriced", "exempt"}

ASSUME HookAssumption ==
    /\ IsFiniteSet(Thread)
    /\ Kind \in [Hook -> HookKind]
    /\ Limit \in [Capped -> Nat]
    /\ \A chain \in Chains : /\ chain \in Seq(Hook)
                             /\ \A h \in Hook : \E i \in DOMAIN chain : chain[i] = h
                             /\ \A i, j \in DOMAIN chain : chain[i] = chain[j] => i = j

ASSUME CostAssumption == MaxCost \in Nat /\ ToolCost \in Nat /\ MaxCalls \in Nat

VARIABLES
    sequential, \* the application makes its calls one after the other
    chain,      \* hooks=[...]
    pc,         \* where each thread is
    at,         \* the place in the chain of the hook that is next
    call,       \* the call of each thread: CallContext, then UsageRecord
    spent,      \* ScopeBudget._spent; the total of a counter's window; _totals
    loaded,     \* the value of _spent a record() has read and will add to
    posted,     \* history: calls whose post-hook h has run
    metered,    \* history: the cost of the calls h has recorded, see Recorded
    answered,   \* history: calls with a priced response, or made by the application
    calls       \* number of calls begun, for the bound

app == <<sequential, chain>>
vars == <<app, pc, at, call, spent, loaded, posted, metered, answered, calls>>
accounts == <<spent, posted, metered>>

NoCall == [model |-> "priced", estimate |-> 0, tokens |-> 0, tools |-> 0]

\* usd_for_usage of tokens: nothing for a model without a rate row.
TokenCost(model) == IF model = "priced" THEN 0..MaxCost ELSE {0}

Init ==
    /\ sequential \in BOOLEAN
    /\ chain \in Chains
    /\ pc = [th \in Thread |-> "idle"]
    /\ at = [th \in Thread |-> 1]
    /\ call = [th \in Thread |-> NoCall]
    /\ spent = [h \in Meter |-> 0]
    /\ loaded = [th \in Thread |-> 0]
    /\ posted = [h \in Hook |-> 0]
    /\ metered = [h \in Meter |-> [tokens |-> 0, tools |-> 0, unforeseen |-> 0]]
    /\ answered = 0
    /\ calls = 0

Current(th) == chain[at[th]]
EndOfChain(th) == at[th] > Len(chain)

Advance(th) == at' = [at EXCEPT ![th] = @ + 1]

\* The call is over, with a result or an exception.
Leave(th) ==
    /\ pc' = [pc EXCEPT ![th] = "idle"]
    /\ at' = [at EXCEPT ![th] = 1]
    /\ call' = [call EXCEPT ![th] = NoCall]

-----------------------------------------------------------------------------
(* guarded_call: pre-hooks *)

\* A thread of the application may make its next call.
MayBegin(th) ==
    /\ pc[th] = "idle"
    /\ sequential => \A t \in Thread : pc[t] = "idle"
    /\ calls < MaxCalls
    /\ calls' = calls + 1

Begin(th) ==
    /\ MayBegin(th)
    /\ \E model \in Model : \E usd \in TokenCost(model) :
          call' = [call EXCEPT ![th] = [NoCall EXCEPT !.model = model, !.estimate = usd]]
    /\ pc' = [pc EXCEPT ![th] = "pre"]
    /\ UNCHANGED <<app, at, accounts, loaded, answered>>

\* RequirePricedModelHook.pre: neither priced nor exempt.
Unpriced(c) == c.model = "unpriced"

\* Fault: the ceiling is compared with what is spent, without the estimate.
WouldExceedAlready(h, usd) == spent[h] > Limit[h]

\* ScopeBudget.would_exceed
WouldExceed(h, usd) == spent[h] + usd > Limit[h]

\* The pre-hook raises UnpricedModel, BudgetExceeded or CostCapExceeded.
Refuses(h, c) ==
    \/ Kind[h] = "gate" /\ Unpriced(c)
    \/ Kind[h] = "budget" /\ WouldExceed(h, c.estimate)
    \/ Kind[h] = "cap" /\ spent[h] >= Limit[h]

Pre(th) ==
    /\ pc[th] = "pre" /\ ~ EndOfChain(th)
    /\ ~ Refuses(Current(th), call[th])
    /\ Advance(th)
    /\ UNCHANGED <<app, pc, call, accounts, loaded, answered, calls>>

\* A pre-hook aborts the call; the ones before it are not undone.
Abort(th) ==
    /\ pc[th] = "pre" /\ ~ EndOfChain(th)
    /\ Refuses(Current(th), call[th]) \/ Kind[Current(th)] = "other"
    /\ Leave(th)
    /\ UNCHANGED <<app, accounts, loaded, answered, calls>>

-----------------------------------------------------------------------------
(* The provider *)

\* A response, from the provider or injected by a pre-hook, is priced.
Answer(th) ==
    /\ pc[th] = "pre" /\ EndOfChain(th)
    /\ \E usd \in TokenCost(call[th].model) : \E tools \in {0, ToolCost} :
          call' = [call EXCEPT ![th].tokens = usd, ![th].tools = tools]
    /\ pc' = [pc EXCEPT ![th] = "post"]
    /\ at' = [at EXCEPT ![th] = 1]
    /\ answered' = answered + 1
    /\ UNCHANGED <<app, accounts, loaded, calls>>

\* The provider raises, or it answers with what extract_usage cannot read (as a stream
\* has no usage) or usd_for_usage cannot price: no post-hook runs, though the second
\* kind of call was paid for.
CallFails(th) ==
    /\ pc[th] = "pre" /\ EndOfChain(th)
    /\ Leave(th)
    /\ UNCHANGED <<app, accounts, loaded, answered, calls>>

\* record_usage: the gate, if it is in the chain, runs its pre-step and may raise
\* (nothing has changed then); the other hooks run their post-step only.
BeginUsage(th) ==
    /\ MayBegin(th)
    /\ \E model \in Model : \E usd \in TokenCost(model) : \E tools \in {0, ToolCost} :
          LET c == [NoCall EXCEPT !.model = model, !.tokens = usd, !.tools = tools]
          IN  /\ \A h \in Hook : Kind[h] = "gate" => ~ Unpriced(c)
              /\ call' = [call EXCEPT ![th] = c]
    /\ pc' = [pc EXCEPT ![th] = "post"]
    /\ answered' = answered + 1
    /\ UNCHANGED <<app, at, accounts, loaded>>

-----------------------------------------------------------------------------
(* Post-hooks *)

\* What the estimate of a call has left out of its token cost.
Unforeseen(c) == IF c.tokens > c.estimate THEN c.tokens - c.estimate ELSE 0

\* Meter h has run for the call c; its total is usd.
Recorded(h, c, usd) ==
    /\ spent' = [spent EXCEPT ![h] = usd]
    /\ metered' = [metered EXCEPT ![h] = [tokens |-> @.tokens + c.tokens,
                                         tools |-> @.tools + c.tools,
                                         unforeseen |-> @.unforeseen + Unforeseen(c)]]
    /\ posted' = [posted EXCEPT ![h] = @ + 1]

\* Fault: a counter is read and written like a budget, without its lock.
MeterLoad(th) ==
    /\ pc[th] = "post" /\ ~ EndOfChain(th)
    /\ Current(th) \in Meter
    /\ loaded' = [loaded EXCEPT ![th] = spent[Current(th)]]
    /\ pc' = [pc EXCEPT ![th] = "store"]
    /\ UNCHANGED <<app, at, call, accounts, answered, calls>>

\* ScopeBudget.record: self._spent is read, and then the call is priced.
BudgetLoad(th) ==
    /\ pc[th] = "post" /\ ~ EndOfChain(th)
    /\ Kind[Current(th)] = "budget"
    /\ loaded' = [loaded EXCEPT ![th] = spent[Current(th)]]
    /\ pc' = [pc EXCEPT ![th] = "store"]
    /\ UNCHANGED <<app, at, call, accounts, answered, calls>>

\* Fault: the estimate is charged instead of the tokens used.
BudgetStoreEstimate(th) ==
    /\ pc[th] = "store"
    /\ Recorded(Current(th), call[th], loaded[th] + call[th].estimate)
    /\ loaded' = [loaded EXCEPT ![th] = 0]
    /\ pc' = [pc EXCEPT ![th] = "post"]
    /\ Advance(th)
    /\ UNCHANGED <<app, call, answered, calls>>

\* The sum is assigned.  The hook passes on the token counts only.
BudgetStore(th) ==
    /\ pc[th] = "store"
    /\ Recorded(Current(th), call[th], loaded[th] + call[th].tokens)
    /\ loaded' = [loaded EXCEPT ![th] = 0]
    /\ pc' = [pc EXCEPT ![th] = "post"]
    /\ Advance(th)
    /\ UNCHANGED <<app, call, answered, calls>>

\* CostCounter.record adds under its lock.  The hook passes on the token counts only.
CapPost(th) ==
    /\ pc[th] = "post" /\ ~ EndOfChain(th)
    /\ LET h == Current(th)
       IN  Kind[h] = "cap" /\ Recorded(h, call[th], spent[h] + call[th].tokens)
    /\ Advance(th)
    /\ UNCHANGED <<app, pc, call, loaded, answered, calls>>

\* ProviderTotals.record adds cost_usd, tools included, under its lock.
TotalsPost(th) ==
    /\ pc[th] = "post" /\ ~ EndOfChain(th)
    /\ LET h == Current(th)
       IN  /\ Kind[h] = "totals"
           /\ Recorded(h, call[th], spent[h] + call[th].tokens + call[th].tools)
    /\ Advance(th)
    /\ UNCHANGED <<app, pc, call, loaded, answered, calls>>

\* Fault: a post-hook that raises ends the chain.
OtherPostOrStop(th) ==
    /\ pc[th] = "post" /\ ~ EndOfChain(th)
    /\ Current(th) \notin Meter
    /\ posted' = [posted EXCEPT ![Current(th)] = @ + 1]
    /\ \/ Advance(th)
       \/ Kind[Current(th)] = "other" /\ at' = [at EXCEPT ![th] = Len(chain) + 1]
    /\ UNCHANGED <<app, pc, call, spent, metered, loaded, answered, calls>>

\* Any other post-hook: it may raise, which is logged and swallowed.
OtherPost(th) ==
    /\ pc[th] = "post" /\ ~ EndOfChain(th)
    /\ Current(th) \notin Meter
    /\ posted' = [posted EXCEPT ![Current(th)] = @ + 1]
    /\ Advance(th)
    /\ UNCHANGED <<app, pc, call, spent, metered, loaded, answered, calls>>

\* The response is returned; only now is a truncated one a TruncationError.
Return(th) ==
    /\ pc[th] = "post" /\ EndOfChain(th)
    /\ Leave(th)
    /\ UNCHANGED <<app, accounts, loaded, answered, calls>>

Step(th) ==
    \/ Begin(th) \/ Pre(th) \/ Abort(th) \/ Answer(th) \/ CallFails(th)
    \/ BeginUsage(th) \/ BudgetLoad(th) \/ BudgetStore(th) \/ CapPost(th)
    \/ TotalsPost(th) \/ OtherPost(th) \/ Return(th)

Next == \E th \in Thread : Step(th)

Spec == Init /\ [][Next]_vars
-----------------------------------------------------------------------------
(* Properties *)

\* Every variable has its type; a thread that is storing is at a budget.
TypeOK ==
    /\ sequential \in BOOLEAN
    /\ chain \in Chains
    /\ pc \in [Thread -> {"idle", "pre", "post", "store"}]
    /\ at \in [Thread -> 1..Len(chain) + 1]
    /\ call \in [Thread -> [model : Model, estimate : 0..MaxCost,
                            tokens : 0..MaxCost, tools : {0, ToolCost}]]
    /\ spent \in [Meter -> Nat]
    /\ loaded \in [Thread -> Nat]
    /\ \A th \in Thread : pc[th] = "store" => ~ EndOfChain(th) /\ Current(th) \in Budget
    /\ posted \in [Hook -> Nat]
    /\ metered \in [Meter -> [tokens : Nat, tools : Nat, unforeseen : Nat]]
    /\ answered \in Nat
    /\ calls \in 0..MaxCalls

\* Threads whose call is answered and has yet to run the post-hook at place i.
Waiting(i) == {th \in Thread : pc[th] \in {"post", "store"} /\ at[th] <= i}

\* A call whose answer had its usage read, truncated or not, is put through every
\* post-hook once, whichever of them raise; one that was refused, that failed, or whose
\* usage could not be read (wrapper.py:239) through none.
EveryAnswerReachesEveryHook ==
    \A i \in DOMAIN chain : posted[chain[i]] + Cardinality(Waiting(i)) = answered

\* Concurrent calls never charge a meter more than they cost: a counter and the
\* provider totals, which lock, show exactly what was recorded, without and with the
\* server-side tools, and a budget, which does not lock, no more than the tokens.
MetersFaithful ==
    /\ \A h \in Budget : spent[h] <= metered[h].tokens
    /\ \A h \in Meter :
          /\ Kind[h] = "cap" => spent[h] = metered[h].tokens
          /\ Kind[h] = "totals" => spent[h] = metered[h].tokens + metered[h].tools

\* budget.py:269, "a hard, gated USD ceiling": an application that makes its calls one
\* after the other exceeds no budget but by what its estimates left out and by what
\* record_usage has charged without one; nested budgets bind independently.
CeilingHolds ==
    sequential => \A h \in Budget : spent[h] <= Limit[h] + metered[h].unforeseen

\* The money set aside in a budget for a call that has passed its check and is not
\* yet recorded in it: its estimate (none for a call that record_usage records).
Reserved ==
    \A th \in Thread : \A i \in DOMAIN chain :
        /\ Kind[chain[i]] = "budget"
        /\ \/ pc[th] = "pre" /\ i < at[th]
           \/ pc[th] \in {"post", "store"} /\ i >= at[th]
        => spent[chain[i]] + call[th].estimate
              <= Limit[chain[i]] + metered[chain[i]].unforeseen

\* A value a budget has read and will add to is no more than what was recorded in it,
\* and is the present one if the calls are made one after the other.
LoadedFaithful ==
    \A th \in Thread : pc[th] = "store" =>
        /\ loaded[th] <= metered[Current(th)].tokens
        /\ sequential => loaded[th] = spent[Current(th)]

\* One call after the other, each from the start of the chain.
OneAtATime ==
    /\ sequential => \A s, t \in Thread : pc[s] # "idle" /\ pc[t] # "idle" => s = t
    /\ \A th \in Thread : pc[th] = "idle" => at[th] = 1

\* The inductive invariant behind MetersFaithful and CeilingHolds.
MeterInv ==
    /\ TypeOK
    /\ MetersFaithful
    /\ LoadedFaithful
    /\ OneAtATime
    /\ CeilingHolds
    /\ sequential => Reserved

\* wrapper.py:326: server-tool spend "still reaches every budget and cap".
ToolSpendReachesMeters ==
    (\A th \in Thread : pc[th] = "idle") =>
        \A h \in Capped : spent[h] = metered[h].tokens + metered[h].tools
=============================================================================
