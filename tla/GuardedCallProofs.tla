------------------------- MODULE GuardedCallProofs -------------------------
(***************************************************************************)
(* Theorems about GuardedCall, for every set of threads, chain of hooks,   *)
(* ceiling and cost: the meters are faithful, and a budget is a ceiling    *)
(* for an application that makes its calls one after the other.            *)
(***************************************************************************)
EXTENDS GuardedCall, FiniteSetTheorems, TLAPS

(* Types *)

\* The hook that is next is one of the registered hooks.
LEMMA CurrentHook ==
    ASSUME TypeOK, NEW th \in Thread
    PROVE  /\ chain \in Seq(Hook) /\ Len(chain) \in Nat
           /\ at[th] \in 1..Len(chain) + 1
           /\ ~ EndOfChain(th) => at[th] \in DOMAIN chain /\ Current(th) \in Hook
BY HookAssumption DEF TypeOK, EndOfChain, Current

\* Each hook has one place in the chain.
LEMMA OnePlace ==
    ASSUME TypeOK, NEW i \in DOMAIN chain, NEW j \in DOMAIN chain, chain[i] = chain[j]
    PROVE  i = j
BY HookAssumption DEF TypeOK

\* The token cost of a call is a number that the estimate and the rest make up.
LEMMA CallType ==
    ASSUME TypeOK, NEW th \in Thread
    PROVE  /\ call[th].estimate \in Nat /\ call[th].tokens \in Nat
           /\ call[th].tools \in Nat
           /\ Unforeseen(call[th]) \in Nat
           /\ call[th].tokens <= call[th].estimate + Unforeseen(call[th])
BY CostAssumption DEF TypeOK, Unforeseen

\* No call costs anything.
LEMMA NoCallType ==
    NoCall \in [model : Model, estimate : 0..MaxCost, tokens : 0..MaxCost,
                tools : {0, ToolCost}]
BY CostAssumption DEF NoCall, Model

\* Pricing stays within the bound on costs.
LEMMA TokenCostType ==
    ASSUME NEW model \in Model PROVE TokenCost(model) \subseteq 0..MaxCost
BY CostAssumption DEF TokenCost

\* Before the first call the types are correct.
LEMMA InitType == Init => TypeOK
<1> SUFFICES ASSUME Init PROVE TypeOK
    OBVIOUS
<1>1. chain \in Chains /\ Len(chain) \in Nat
    BY HookAssumption DEF Init
<1>2. at \in [Thread -> 1..Len(chain) + 1]
    BY <1>1 DEF Init
<1>3. call \in [Thread -> [model : Model, estimate : 0..MaxCost,
                          tokens : 0..MaxCost, tools : {0, ToolCost}]]
    BY NoCallType DEF Init
<1>4. calls \in 0..MaxCalls
    BY CostAssumption DEF Init
<1>5. QED
    BY <1>1, <1>2, <1>3, <1>4 DEF Init, TypeOK

\* Recording keeps the types of the meters.
LEMMA RecordedType ==
    ASSUME TypeOK, NEW th \in Thread, NEW h \in Meter, NEW usd \in Nat,
           Recorded(h, call[th], usd)
    PROVE  /\ spent' \in [Meter -> Nat]
           /\ metered' \in [Meter -> [tokens : Nat, tools : Nat, unforeseen : Nat]]
           /\ posted' \in [Hook -> Nat]
<1>1. /\ call[th].tokens \in Nat /\ call[th].tools \in Nat
      /\ Unforeseen(call[th]) \in Nat
    BY CallType
<1>2. metered[h] \in [tokens : Nat, tools : Nat, unforeseen : Nat]
    BY DEF TypeOK
<1>3. h \in Hook /\ posted[h] \in Nat
    BY DEF TypeOK, Meter
<1>4. spent' \in [Meter -> Nat] /\ posted' \in [Hook -> Nat]
    BY <1>3 DEF TypeOK, Recorded
<1>5. [tokens |-> metered[h].tokens + call[th].tokens,
       tools |-> metered[h].tools + call[th].tools,
       unforeseen |-> metered[h].unforeseen + Unforeseen(call[th])]
          \in [tokens : Nat, tools : Nat, unforeseen : Nat]
    BY <1>1, <1>2
<1>6. metered' \in [Meter -> [tokens : Nat, tools : Nat, unforeseen : Nat]]
    BY <1>5 DEF TypeOK, Recorded
<1>7. QED
    BY <1>4, <1>6

\* Moving on in the chain keeps the place within it.
LEMMA AdvanceType ==
    ASSUME TypeOK, NEW th \in Thread, ~ EndOfChain(th), Advance(th)
    PROVE  at' \in [Thread -> 1..Len(chain) + 1]
BY CurrentHook DEF TypeOK, EndOfChain, Advance

\* Every step keeps the types.
LEMMA NextType == ASSUME TypeOK, [Next]_vars PROVE TypeOK'
<1>1. CASE UNCHANGED vars
    BY <1>1 DEF TypeOK, vars, app, accounts, EndOfChain, Current
<1>2. ASSUME NEW th \in Thread, Step(th) PROVE TypeOK'
  <2> USE <1>2
  <2> DEFINE T == [model : Model, estimate : 0..MaxCost,
                   tokens : 0..MaxCost, tools : {0, ToolCost}]
  <2>1. CASE Begin(th)
    <3>1. PICK model \in Model : \E usd \in TokenCost(model) :
             call' = [call EXCEPT ![th] =
                        [NoCall EXCEPT !.model = model, !.estimate = usd]]
        BY <2>1 DEF Begin
    <3>2. \A usd \in TokenCost(model) :
             [NoCall EXCEPT !.model = model, !.estimate = usd] \in T
        BY TokenCostType, NoCallType
    <3>3. PICK c \in T : call' = [call EXCEPT ![th] = c]
        BY <3>1, <3>2, Zenon
    <3>4. call' \in [Thread -> T]
        BY <3>3 DEF TypeOK
    <3>5. calls' \in 0..MaxCalls
        BY <2>1, CostAssumption DEF TypeOK, Begin, MayBegin
    <3>6. pc' \in [Thread -> {"idle", "pre", "post", "store"}]
        BY <2>1 DEF TypeOK, Begin
    <3>7. \A t \in Thread : pc'[t] = "store" => ~ EndOfChain(t)' /\ Current(t)' \in Budget
        BY <2>1 DEF TypeOK, Begin, app, EndOfChain, Current
    <3>8. QED
        BY <2>1, <3>4, <3>5, <3>6, <3>7 DEF TypeOK, Begin, app, accounts
  <2>2. CASE Pre(th)
    <3>1. at' \in [Thread -> 1..Len(chain) + 1]
        BY <2>2, AdvanceType DEF Pre
    <3>2. \A t \in Thread : pc'[t] = "store" => ~ EndOfChain(t)' /\ Current(t)' \in Budget
        BY <2>2 DEF TypeOK, Pre, Advance, app, EndOfChain, Current
    <3>3. QED
        BY <2>2, <3>1, <3>2 DEF TypeOK, Pre, app, accounts
  <2>3. CASE Abort(th) \/ CallFails(th) \/ Return(th)
    <3>1. Leave(th) /\ UNCHANGED <<app, accounts, loaded, answered, calls>>
        BY <2>3 DEF Abort, CallFails, Return
    <3>2. call' \in [Thread -> T]
        BY <3>1, NoCallType DEF TypeOK, Leave
    <3>3. at' \in [Thread -> 1..Len(chain) + 1]
        BY <3>1, CurrentHook DEF TypeOK, Leave
    <3>4. \A t \in Thread : pc'[t] = "store" => ~ EndOfChain(t)' /\ Current(t)' \in Budget
        BY <3>1 DEF TypeOK, Leave, app, EndOfChain, Current
    <3>5. pc' \in [Thread -> {"idle", "pre", "post", "store"}]
        BY <3>1 DEF TypeOK, Leave
    <3>6. QED
        BY <3>1, <3>2, <3>3, <3>4, <3>5 DEF TypeOK, app, accounts
  <2>4. CASE Answer(th)
    <3>1. PICK usd \in TokenCost(call[th].model), tools \in {0, ToolCost} :
             call' = [call EXCEPT ![th].tokens = usd, ![th].tools = tools]
        BY <2>4 DEF Answer
    <3>2. usd \in 0..MaxCost
        BY TokenCostType DEF TypeOK
    <3>3. call' \in [Thread -> T]
        BY <3>1, <3>2 DEF TypeOK
    <3>4. at' \in [Thread -> 1..Len(chain) + 1]
        BY <2>4, CurrentHook DEF TypeOK, Answer
    <3>5. \A t \in Thread : pc'[t] = "store" => ~ EndOfChain(t)' /\ Current(t)' \in Budget
        BY <2>4 DEF TypeOK, Answer, app, EndOfChain, Current
    <3>6. pc' \in [Thread -> {"idle", "pre", "post", "store"}] /\ answered' \in Nat
        BY <2>4 DEF TypeOK, Answer
    <3>7. QED
        BY <2>4, <3>3, <3>4, <3>5, <3>6 DEF TypeOK, Answer, app, accounts
  <2>5. CASE BeginUsage(th)
    <3>1. PICK model \in Model : \E usd \in TokenCost(model) : \E tools \in {0, ToolCost} :
             call' = [call EXCEPT ![th] = [NoCall EXCEPT !.model = model,
                                             !.tokens = usd, !.tools = tools]]
        BY <2>5 DEF BeginUsage
    <3>2. \A usd \in TokenCost(model) : \A tools \in {0, ToolCost} :
             [NoCall EXCEPT !.model = model, !.tokens = usd, !.tools = tools] \in T
        BY TokenCostType, NoCallType
    <3>3. PICK c \in T : call' = [call EXCEPT ![th] = c]
        BY <3>1, <3>2, Zenon
    <3>4. call' \in [Thread -> T]
        BY <3>3 DEF TypeOK
    <3>5. calls' \in 0..MaxCalls
        BY <2>5, CostAssumption DEF TypeOK, BeginUsage, MayBegin
    <3>6. pc' \in [Thread -> {"idle", "pre", "post", "store"}] /\ answered' \in Nat
        BY <2>5 DEF TypeOK, BeginUsage
    <3>7. \A t \in Thread : pc'[t] = "store" => ~ EndOfChain(t)' /\ Current(t)' \in Budget
        BY <2>5 DEF TypeOK, BeginUsage, app, EndOfChain, Current
    <3>8. QED
        BY <2>5, <3>4, <3>5, <3>6, <3>7 DEF TypeOK, BeginUsage, app, accounts
  <2>6. CASE BudgetLoad(th)
    <3>1. Current(th) \in Hook /\ Current(th) \in Budget /\ Current(th) \in Meter
        BY <2>6, CurrentHook DEF BudgetLoad, Budget, Meter
    <3>2. loaded' \in [Thread -> Nat]
        BY <2>6, <3>1 DEF TypeOK, BudgetLoad
    <3>3. \A t \in Thread : pc'[t] = "store" => ~ EndOfChain(t)' /\ Current(t)' \in Budget
        BY <2>6, <3>1 DEF TypeOK, BudgetLoad, app, EndOfChain, Current
    <3>4. pc' \in [Thread -> {"idle", "pre", "post", "store"}]
        BY <2>6 DEF TypeOK, BudgetLoad
    <3>5. QED
        BY <2>6, <3>2, <3>3, <3>4 DEF TypeOK, BudgetLoad, app, accounts
  <2>7. CASE BudgetStore(th)
    <3>1. ~ EndOfChain(th) /\ Current(th) \in Meter
        BY <2>7 DEF TypeOK, BudgetStore, Budget, Meter
    <3>2. loaded[th] + call[th].tokens \in Nat
        BY CallType DEF TypeOK
    <3>3. /\ spent' \in [Meter -> Nat] /\ posted' \in [Hook -> Nat]
          /\ metered' \in [Meter -> [tokens : Nat, tools : Nat, unforeseen : Nat]]
        BY <2>7, <3>1, <3>2, RecordedType DEF BudgetStore
    <3>4. at' \in [Thread -> 1..Len(chain) + 1]
        BY <2>7, <3>1, AdvanceType DEF BudgetStore
    <3>5. \A t \in Thread : pc'[t] = "store" => ~ EndOfChain(t)' /\ Current(t)' \in Budget
        BY <2>7 DEF TypeOK, BudgetStore, Advance, app, EndOfChain, Current
    <3>6. /\ pc' \in [Thread -> {"idle", "pre", "post", "store"}]
          /\ loaded' \in [Thread -> Nat]
        BY <2>7 DEF TypeOK, BudgetStore
    <3>7. QED
        BY <2>7, <3>3, <3>4, <3>5, <3>6 DEF TypeOK, BudgetStore, app
  <2>8. CASE CapPost(th) \/ TotalsPost(th)
    <3>1. Current(th) \in Meter /\ ~ EndOfChain(th) /\ pc[th] = "post"
        BY <2>8, CurrentHook DEF CapPost, TotalsPost, Meter
    <3>2. spent[Current(th)] \in Nat
        BY <3>1 DEF TypeOK
    <3>3. /\ spent[Current(th)] + call[th].tokens \in Nat
          /\ spent[Current(th)] + call[th].tokens + call[th].tools \in Nat
        BY <3>2, CallType
    <3>4. PICK usd \in Nat : Recorded(Current(th), call[th], usd)
        BY <2>8, <3>3, Zenon DEF CapPost, TotalsPost
    <3>5. /\ spent' \in [Meter -> Nat] /\ posted' \in [Hook -> Nat]
          /\ metered' \in [Meter -> [tokens : Nat, tools : Nat, unforeseen : Nat]]
        BY <3>1, <3>4, RecordedType
    <3>6. at' \in [Thread -> 1..Len(chain) + 1]
        BY <2>8, <3>1, AdvanceType DEF CapPost, TotalsPost
    <3>7. \A t \in Thread : pc'[t] = "store" => ~ EndOfChain(t)' /\ Current(t)' \in Budget
        BY <2>8 DEF TypeOK, CapPost, TotalsPost, Advance, app, EndOfChain, Current
    <3>8. QED
        BY <2>8, <3>5, <3>6, <3>7 DEF TypeOK, CapPost, TotalsPost, app
  <2>9. CASE OtherPost(th)
    <3>1. Current(th) \in Hook
        BY <2>9, CurrentHook DEF OtherPost
    <3>2. posted' \in [Hook -> Nat]
        BY <2>9, <3>1 DEF TypeOK, OtherPost
    <3>3. at' \in [Thread -> 1..Len(chain) + 1]
        BY <2>9, AdvanceType DEF OtherPost
    <3>4. \A t \in Thread : pc'[t] = "store" => ~ EndOfChain(t)' /\ Current(t)' \in Budget
        BY <2>9 DEF TypeOK, OtherPost, Advance, app, EndOfChain, Current
    <3>5. QED
        BY <2>9, <3>2, <3>3, <3>4 DEF TypeOK, OtherPost, app
  <2>10. QED
      BY <2>1, <2>2, <2>3, <2>4, <2>5, <2>6, <2>7, <2>8, <2>9 DEF Step
<1>3. QED
    BY <1>1, <1>2 DEF Next

\* Every variable keeps its type, and a thread that stores is at a budget.
THEOREM TypeCorrect == Spec => []TypeOK
BY InitType, NextType, PTL DEF Spec

-----------------------------------------------------------------------------
(* The inductive invariant *)

\* Recording changes one meter, by the call's cost.
LEMMA RecordedMeter ==
    ASSUME TypeOK, NEW th \in Thread, NEW h \in Meter, NEW usd,
           Recorded(h, call[th], usd)
    PROVE  /\ spent'[h] = usd
           /\ metered'[h].tokens = metered[h].tokens + call[th].tokens
           /\ metered'[h].tools = metered[h].tools + call[th].tools
           /\ metered'[h].unforeseen = metered[h].unforeseen + Unforeseen(call[th])
           /\ \A g \in Meter \ {h} : spent'[g] = spent[g] /\ metered'[g] = metered[g]
BY DEF TypeOK, Recorded

\* The three steps that record a call in the meter that is next.
LEMMA RecordStep ==
    ASSUME TypeOK, NEW th \in Thread,
           BudgetStore(th) \/ CapPost(th) \/ TotalsPost(th)
    PROVE  /\ Current(th) \in Meter /\ at[th] \in DOMAIN chain
           /\ at' = [at EXCEPT ![th] = @ + 1]
           /\ pc' = [pc EXCEPT ![th] = "post"]
           /\ UNCHANGED <<app, call>>
           /\ \A t \in Thread \ {th} : loaded'[t] = loaded[t]
           /\ \E usd : Recorded(Current(th), call[th], usd)
           /\ Kind[Current(th)] = "budget" =>
                 /\ pc[th] = "store"
                 /\ Recorded(Current(th), call[th], loaded[th] + call[th].tokens)
           /\ Kind[Current(th)] = "cap" =>
                 Recorded(Current(th), call[th], spent[Current(th)] + call[th].tokens)
           /\ Kind[Current(th)] = "totals" =>
                 Recorded(Current(th), call[th],
                          spent[Current(th)] + call[th].tokens + call[th].tools)
<1>1. CASE BudgetStore(th)
    BY <1>1, CurrentHook DEF TypeOK, BudgetStore, Advance, Budget, Meter
<1>2. CASE CapPost(th)
    BY <1>2, CurrentHook DEF TypeOK, CapPost, Advance, Meter
<1>3. CASE TotalsPost(th)
    BY <1>3, CurrentHook DEF TypeOK, TotalsPost, Advance, Meter
<1>4. QED
    BY <1>1, <1>2, <1>3

\* The other steps but BudgetLoad leave the meters alone and do not end in a store.
LEMMA QuietStep ==
    ASSUME TypeOK, NEW th \in Thread,
           \/ Begin(th) \/ Pre(th) \/ Abort(th) \/ Answer(th) \/ CallFails(th)
           \/ BeginUsage(th) \/ OtherPost(th) \/ Return(th)
    PROVE  /\ UNCHANGED <<app, spent, metered, loaded>>
           /\ pc'[th] # "store"
           /\ \A t \in Thread \ {th} : pc'[t] = pc[t] /\ at'[t] = at[t]
BY DEF TypeOK, Begin, Pre, Abort, Answer, CallFails, BeginUsage, OtherPost, Return,
       Leave, Advance, accounts

\* Every step keeps the meters faithful, and what budgets have read.
LEMMA NextFaithful ==
    ASSUME TypeOK, TypeOK', MetersFaithful, LoadedFaithful, OneAtATime,
           NEW th \in Thread, Step(th)
    PROVE  MetersFaithful' /\ LoadedFaithful'
<1>1. ASSUME \/ Begin(th) \/ Pre(th) \/ Abort(th) \/ Answer(th) \/ CallFails(th)
             \/ BeginUsage(th) \/ OtherPost(th) \/ Return(th)
      PROVE  MetersFaithful' /\ LoadedFaithful'
    BY <1>1, QuietStep DEF MetersFaithful, LoadedFaithful, Current, app
<1>2. CASE BudgetLoad(th)
  <2>1. Current(th) \in Budget
      BY <1>2, CurrentHook DEF BudgetLoad, Budget
  <2>2. MetersFaithful'
      BY <1>2 DEF BudgetLoad, accounts, MetersFaithful
  <2>3. loaded'[th] = spent[Current(th)] /\ loaded'[th] <= metered[Current(th)].tokens
      BY <1>2, <2>1 DEF TypeOK, BudgetLoad, MetersFaithful
  <2>4. LoadedFaithful'
      BY <1>2, <2>3 DEF TypeOK, BudgetLoad, LoadedFaithful, Current, app, accounts
  <2>5. QED
      BY <2>2, <2>4
<1>3. CASE BudgetStore(th) \/ CapPost(th) \/ TotalsPost(th)
  <2> DEFINE h == Current(th)
  <2>1. h \in Meter /\ \E usd : Recorded(h, call[th], usd)
      BY <1>3, RecordStep
  <2>2. /\ call[th].tokens \in Nat /\ call[th].tools \in Nat
        /\ spent[h] \in Nat /\ loaded[th] \in Nat
        /\ metered[h].tokens \in Nat /\ metered[h].tools \in Nat
      BY <2>1, CallType DEF TypeOK
  <2>3. /\ metered'[h].tokens = metered[h].tokens + call[th].tokens
        /\ metered'[h].tools = metered[h].tools + call[th].tools
        /\ \A g \in Meter \ {h} : spent'[g] = spent[g] /\ metered'[g] = metered[g]
      BY <2>1, RecordedMeter
  <2>4. Kind[h] = "budget" => spent'[h] <= metered'[h].tokens
    <3>1. SUFFICES ASSUME Kind[h] = "budget" PROVE spent'[h] <= metered'[h].tokens
        OBVIOUS
    <3>2. pc[th] = "store" /\ spent'[h] = loaded[th] + call[th].tokens
        BY <1>3, <2>1, <3>1, RecordStep, RecordedMeter
    <3>3. loaded[th] <= metered[h].tokens
        BY <3>2 DEF LoadedFaithful
    <3>4. QED
        BY <2>2, <2>3, <3>2, <3>3
  <2>5. Kind[h] = "cap" => spent'[h] = metered'[h].tokens
    <3>1. SUFFICES ASSUME Kind[h] = "cap" PROVE spent'[h] = metered'[h].tokens
        OBVIOUS
    <3>2. spent'[h] = spent[h] + call[th].tokens
        BY <1>3, <2>1, <3>1, RecordStep, RecordedMeter
    <3>3. QED
        BY <2>1, <2>3, <3>1, <3>2 DEF MetersFaithful
  <2>6. Kind[h] = "totals" => spent'[h] = metered'[h].tokens + metered'[h].tools
    <3>1. SUFFICES ASSUME Kind[h] = "totals"
                   PROVE  spent'[h] = metered'[h].tokens + metered'[h].tools
        OBVIOUS
    <3>2. spent'[h] = spent[h] + call[th].tokens + call[th].tools
        BY <1>3, <2>1, <3>1, RecordStep, RecordedMeter
    <3>3. spent[h] = metered[h].tokens + metered[h].tools
        BY <2>1, <3>1 DEF MetersFaithful
    <3>4. QED
        BY <2>2, <2>3, <3>2, <3>3
  <2>7. MetersFaithful'
      BY <2>3, <2>4, <2>5, <2>6 DEF MetersFaithful, Budget, Meter
  <2>8. ASSUME NEW t \in Thread, pc'[t] = "store"
        PROVE  /\ loaded'[t] <= metered'[Current(t)].tokens
               /\ sequential => loaded'[t] = spent'[Current(t)]
               /\ Current(t)' = Current(t)
    <3>1. pc' = [pc EXCEPT ![th] = "post"] /\ at' = [at EXCEPT ![th] = @ + 1]
        BY <1>3, RecordStep
    <3>2. t # th /\ pc[t] = "store" /\ at'[t] = at[t]
        BY <2>8, <3>1 DEF TypeOK
    <3>3. loaded'[t] = loaded[t] /\ Current(t)' = Current(t)
        BY <1>3, <3>2, RecordStep DEF Current, app
    <3>4. Current(t) \in Meter
        BY <3>2 DEF TypeOK, Budget, Meter
    <3>5. ~ sequential
        BY <1>3, <3>2 DEF OneAtATime, BudgetStore, CapPost, TotalsPost
    <3>6. loaded[t] \in Nat /\ metered[Current(t)].tokens \in Nat
        BY <3>4 DEF TypeOK
    <3>7. metered[Current(t)].tokens <= metered'[Current(t)].tokens
        BY <2>2, <2>3, <3>4, <3>6
    <3>8. metered'[Current(t)].tokens \in Nat
        BY <3>4 DEF TypeOK
    <3>9. QED
        BY <3>2, <3>3, <3>5, <3>6, <3>7, <3>8 DEF LoadedFaithful
  <2>9. LoadedFaithful'
    <3>1. sequential' = sequential
        BY <1>3, RecordStep DEF app
    <3>2. QED
        BY <2>8, <3>1 DEF LoadedFaithful
  <2>10. QED
      BY <2>7, <2>9
<1>4. QED
    BY <1>1, <1>2, <1>3 DEF Step

\* A thread that takes a step of a sequential application is alone.
LEMMA OthersIdle ==
    ASSUME TypeOK, OneAtATime, sequential, NEW th \in Thread, Step(th),
           NEW t \in Thread, t # th
    PROVE  pc[t] = "idle" /\ pc'[t] = "idle" /\ at'[t] = at[t]
<1>1. CASE Begin(th) \/ BeginUsage(th)
  <2>1. pc[t] = "idle" /\ pc'[t] = pc[t]
      BY <1>1 DEF TypeOK, Begin, BeginUsage, MayBegin
  <2>2. at'[t] = at[t]
      BY <1>1 DEF Begin, BeginUsage
  <2>3. QED
      BY <2>1, <2>2
<1>2. CASE ~ (Begin(th) \/ BeginUsage(th))
  <2>1. pc[th] # "idle"
      BY <1>2 DEF Step, Pre, Abort, Answer, CallFails, BudgetLoad, BudgetStore,
                  CapPost, TotalsPost, OtherPost, Return
  <2>2. pc[t] = "idle"
      BY <2>1 DEF OneAtATime
  <2>3. pc'[t] = pc[t] /\ at'[t] = at[t]
      BY <1>2 DEF TypeOK, Step, Pre, Abort, Answer, CallFails, BudgetLoad,
                  BudgetStore, CapPost, TotalsPost, OtherPost, Return, Leave, Advance
  <2>4. QED
      BY <2>2, <2>3
<1>3. QED
    BY <1>1, <1>2

\* A sequential application goes on making one call after the other.
LEMMA NextSequential ==
    ASSUME TypeOK, TypeOK', OneAtATime, NEW th \in Thread, Step(th)
    PROVE  OneAtATime'
<1>1. sequential' = sequential
    BY DEF Step, Begin, Pre, Abort, Answer, CallFails, BeginUsage, BudgetLoad,
           BudgetStore, CapPost, TotalsPost, OtherPost, Return, app
<1>2. sequential =>
         \A s, t \in Thread : pc'[s] # "idle" /\ pc'[t] # "idle" => s = t
    BY OthersIdle
<1>3. ASSUME NEW t \in Thread, pc'[t] = "idle" PROVE at'[t] = 1
  <2>1. CASE t = th
      BY <1>3, <2>1 DEF TypeOK, Step, Begin, Pre, Abort, Answer, CallFails,
                       BeginUsage, BudgetLoad, BudgetStore, CapPost, TotalsPost,
                       OtherPost, Return, Leave
  <2>2. CASE t # th
    <3>1. pc'[t] = pc[t] /\ at'[t] = at[t]
        BY <2>2 DEF TypeOK, Step, Begin, Pre, Abort, Answer, CallFails,
                    BeginUsage, BudgetLoad, BudgetStore, CapPost, TotalsPost,
                    OtherPost, Return, Leave, Advance
    <3>2. QED
        BY <1>3, <3>1 DEF OneAtATime
  <2>3. QED
      BY <2>1, <2>2
<1>4. QED
    BY <1>1, <1>2, <1>3 DEF OneAtATime

\* Budgets are meters, with a limit and a history of what was not foreseen.
LEMMA BudgetType ==
    ASSUME TypeOK, NEW h \in Budget
    PROVE  /\ h \in Meter /\ Kind[h] = "budget"
           /\ Limit[h] \in Nat /\ spent[h] \in Nat /\ metered[h].unforeseen \in Nat
BY HookAssumption DEF TypeOK, Budget, Meter, Capped

\* Every step of a sequential application keeps its ceilings, and the money set
\* aside for the call that is running.
LEMMA NextCeiling ==
    ASSUME TypeOK, TypeOK', LoadedFaithful, OneAtATime, CeilingHolds, Reserved,
           sequential, NEW th \in Thread, Step(th)
    PROVE  CeilingHolds' /\ Reserved'
<1> DEFINE Holding(i) ==
        /\ chain[i] \in Budget
        /\ \/ pc[th] = "pre" /\ i < at[th]
           \/ pc[th] \in {"post", "store"} /\ i >= at[th]
<1> DEFINE Room(i) ==
        spent[chain[i]] + call[th].estimate
            <= Limit[chain[i]] + metered[chain[i]].unforeseen
<1>1. \A i \in DOMAIN chain : chain[i] \in Budget <=> Kind[chain[i]] = "budget"
  <2>1. \A i \in DOMAIN chain : chain[i] \in Hook
      BY CurrentHook
  <2>2. QED
      BY <2>1 DEF Budget
<1>2. \A i \in DOMAIN chain : Holding(i) => Room(i)
    BY <1>1 DEF Reserved
<1>3. \A h \in Budget : spent[h] <= Limit[h] + metered[h].unforeseen
    BY DEF CeilingHolds
<1>4. ASSUME chain' = chain, \A i \in DOMAIN chain : Holding(i)' => Room(i)'
      PROVE  Reserved'
  <2> SUFFICES ASSUME NEW t \in Thread, NEW i \in DOMAIN chain,
                      Kind[chain[i]] = "budget",
                      \/ pc'[t] = "pre" /\ i < at'[t]
                      \/ pc'[t] \in {"post", "store"} /\ i >= at'[t]
               PROVE  spent'[chain[i]] + call'[t].estimate
                          <= Limit[chain[i]] + metered'[chain[i]].unforeseen
      BY <1>4 DEF Reserved
  <2>1. t = th
      BY OthersIdle
  <2>2. Holding(i)'
      BY <1>1, <1>4, <2>1
  <2>3. QED
      BY <1>4, <2>1, <2>2
<1>5. \A i \in DOMAIN chain : i \in Nat \ {0} /\ at[th] \in Nat
    BY CurrentHook
<1> HIDE DEF Holding
<1>6. CASE ~ (BudgetStore(th) \/ CapPost(th) \/ TotalsPost(th))
  <2>0. UNCHANGED <<spent, metered>>
      BY <1>6 DEF Step, Begin, Pre, Abort, Answer, CallFails, BeginUsage, BudgetLoad,
             OtherPost, Return, accounts
  <2>1. CeilingHolds'
      BY <1>3, <2>0 DEF CeilingHolds
  <2>2. chain' = chain
      BY DEF Step, Begin, Pre, Abort, Answer, CallFails, BeginUsage, BudgetLoad,
             BudgetStore, CapPost, TotalsPost, OtherPost, Return, app
  <2>3. CASE Begin(th)
    <3>1. pc'[th] = "pre" /\ at'[th] = 1
        BY <2>3 DEF Begin, MayBegin, TypeOK, OneAtATime
    <3>2. \A i \in DOMAIN chain : ~ Holding(i)'
        BY <1>5, <2>2, <3>1 DEF Holding
    <3>3. QED
        BY <1>4, <2>1, <2>2, <3>2
  <2>4. CASE Pre(th)
    <3>1. ASSUME NEW i \in DOMAIN chain, Holding(i)' PROVE Room(i)'
      <4>1. call' = call /\ pc' = pc /\ at'[th] = at[th] + 1 /\ pc[th] = "pre"
          BY <2>4 DEF Pre, Advance, TypeOK
      <4>2. CASE i < at[th]
          BY <1>2, <2>0, <2>2, <3>1, <4>1, <4>2 DEF Holding
      <4>3. CASE i = at[th]
        <5>1. chain[i] \in Budget
            BY <2>2, <3>1 DEF Holding
        <5>2. ~ (spent[chain[i]] + call[th].estimate > Limit[chain[i]])
            BY <2>4, <4>3, <5>1, BudgetType DEF Pre, Refuses, WouldExceed, Current
        <5>3. Room(i)
            BY <5>1, <5>2, BudgetType, CallType
        <5>4. QED
            BY <2>0, <2>2, <4>1, <5>3
      <4>4. QED
          BY <1>5, <2>2, <3>1, <4>1, <4>2, <4>3 DEF Holding
    <3>2. QED
        BY <1>4, <2>1, <2>2, <3>1
  <2>5. CASE Abort(th) \/ CallFails(th) \/ Return(th)
    <3>1. pc'[th] = "idle"
        BY <2>5 DEF Abort, CallFails, Return, Leave, TypeOK
    <3>2. QED
        BY <1>4, <2>1, <2>2, <3>1 DEF Holding
  <2>6. CASE Answer(th)
    <3>1. ASSUME NEW i \in DOMAIN chain, Holding(i)' PROVE Room(i)'
      <4>1. Holding(i)
          BY <2>2, <2>6, <3>1, CurrentHook DEF Holding, Answer, EndOfChain
      <4>2. call'[th].estimate = call[th].estimate
          BY <2>6 DEF Answer, TypeOK
      <4>3. QED
          BY <1>2, <2>0, <2>2, <4>1, <4>2
    <3>2. QED
        BY <1>4, <2>1, <2>2, <3>1
  <2>7. CASE BeginUsage(th)
    <3>1. call'[th].estimate = 0
        BY <2>7 DEF BeginUsage, NoCall, TypeOK
    <3>2. ASSUME NEW i \in DOMAIN chain, Holding(i)' PROVE Room(i)'
      <4>1. chain[i] \in Budget
          BY <2>2, <3>2 DEF Holding
      <4>2. spent[chain[i]] + 0 <= Limit[chain[i]] + metered[chain[i]].unforeseen
          BY <1>3, <4>1, BudgetType
      <4>3. QED
          BY <2>0, <2>2, <3>1, <4>2
    <3>3. QED
        BY <1>4, <2>1, <2>2, <3>2
  <2>8. CASE BudgetLoad(th) \/ OtherPost(th)
    <3>1. ASSUME NEW i \in DOMAIN chain, Holding(i)' PROVE Room(i)'
      <4>1. Holding(i) /\ call' = call
          BY <1>5, <2>2, <2>8, <3>1 DEF Holding, BudgetLoad, OtherPost, Advance, TypeOK
      <4>2. QED
          BY <1>2, <2>0, <2>2, <4>1
    <3>2. QED
        BY <1>4, <2>1, <2>2, <3>1
  <2>9. QED
      BY <1>6, <2>3, <2>4, <2>5, <2>6, <2>7, <2>8 DEF Step
<1>7. CASE BudgetStore(th) \/ CapPost(th) \/ TotalsPost(th)
  <2> DEFINE h == Current(th)
  <2>1. /\ h \in Meter /\ at[th] \in DOMAIN chain
        /\ chain' = chain /\ sequential' = sequential /\ call' = call
        /\ at'[th] = at[th] + 1 /\ pc'[th] = "post"
        /\ pc[th] \in {"post", "store"}
        /\ \E usd : Recorded(h, call[th], usd)
      BY <1>7, RecordStep DEF app, BudgetStore, CapPost, TotalsPost, TypeOK
  <2>2. \A g \in Meter \ {h} : spent'[g] = spent[g] /\ metered'[g] = metered[g]
      BY <2>1, RecordedMeter
  <2>3. ASSUME h \in Budget
        PROVE  spent'[h] <= Limit[h] + metered'[h].unforeseen
    <3>1. pc[th] = "store" /\ Recorded(h, call[th], loaded[th] + call[th].tokens)
        BY <1>7, <2>3, RecordStep DEF Budget
    <3>2. spent'[h] = spent[h] + call[th].tokens
        BY <2>1, <3>1, RecordedMeter DEF LoadedFaithful
    <3>3. metered'[h].unforeseen = metered[h].unforeseen + Unforeseen(call[th])
        BY <2>1, RecordedMeter
    <3>4. Room(at[th])
        BY <1>2, <1>5, <2>1, <2>3 DEF Holding, Current
    <3>5. spent[h] + call[th].estimate <= Limit[h] + metered[h].unforeseen
        BY <3>4 DEF Current
    <3>6. QED
        BY <2>3, <3>2, <3>3, <3>5, CallType, BudgetType
  <2>4. CeilingHolds'
      BY <1>3, <2>2, <2>3, BudgetType DEF CeilingHolds
  <2>5. ASSUME NEW i \in DOMAIN chain, Holding(i)' PROVE Room(i)'
    <3>1. i > at[th] /\ chain[i] \in Budget
        BY <1>5, <2>1, <2>5 DEF Holding
    <3>2. Room(i)
        BY <1>2, <1>5, <2>1, <3>1 DEF Holding
    <3>3. chain[i] # h
        BY <1>5, <2>1, <3>1, OnePlace DEF Current
    <3>4. spent'[chain[i]] = spent[chain[i]] /\ metered'[chain[i]] = metered[chain[i]]
        BY <2>2, <3>1, <3>3, BudgetType
    <3>5. QED
        BY <2>1, <3>2, <3>4
  <2>6. QED
      BY <1>4, <2>1, <2>4, <2>5
<1>8. QED
    BY <1>6, <1>7

\* Before the first call no meter shows anything and nothing is set aside.
LEMMA InitMeter == Init => MeterInv
<1> SUFFICES ASSUME Init PROVE MeterInv
    OBVIOUS
<1>1. TypeOK
    BY InitType
<1>2. MetersFaithful
    BY DEF Init, MetersFaithful, Budget, Meter
<1>3. LoadedFaithful /\ OneAtATime /\ Reserved
    BY DEF Init, LoadedFaithful, OneAtATime, Reserved
<1>4. CeilingHolds
    BY <1>1, BudgetType DEF Init, CeilingHolds
<1>5. QED
    BY <1>1, <1>2, <1>3, <1>4 DEF MeterInv

\* Every step keeps the invariant.
LEMMA NextMeter == ASSUME MeterInv, [Next]_vars PROVE MeterInv'
<1>1. CASE UNCHANGED vars
    BY <1>1, NextType DEF MeterInv, vars, app, accounts, MetersFaithful, LoadedFaithful,
       OneAtATime, CeilingHolds, Reserved, Current
<1>2. ASSUME NEW th \in Thread, Step(th) PROVE MeterInv'
  <2>1. TypeOK /\ TypeOK'
      BY <1>2, NextType DEF MeterInv, Next
  <2>2. MetersFaithful' /\ LoadedFaithful'
      BY <1>2, <2>1, NextFaithful DEF MeterInv
  <2>3. OneAtATime'
      BY <1>2, <2>1, NextSequential DEF MeterInv
  <2>4. sequential' = sequential
      BY <1>2 DEF Step, Begin, Pre, Abort, Answer, CallFails, BeginUsage, BudgetLoad,
         BudgetStore, CapPost, TotalsPost, OtherPost, Return, app
  <2>5. CASE sequential
    <3>1. CeilingHolds' /\ Reserved'
        BY <1>2, <2>1, <2>5, NextCeiling DEF MeterInv
    <3>2. QED
        BY <2>1, <2>2, <2>3, <3>1 DEF MeterInv
  <2>6. CASE ~ sequential
      BY <2>1, <2>2, <2>3, <2>4, <2>6 DEF MeterInv, CeilingHolds
  <2>7. QED
      BY <2>5, <2>6
<1>3. QED
    BY <1>1, <1>2 DEF Next

\* The inductive invariant: faithful meters, and for a sequential application money
\* set aside in every budget that a running call has passed.
THEOREM MeterInvariant == Spec => []MeterInv
BY InitMeter, NextMeter, PTL DEF Spec

\* Concurrent calls never charge a meter more than they cost, whatever updates of a
\* ScopeBudget are lost; the counters that lock lose none.
THEOREM Faithful == Spec => []MetersFaithful
<1>1. MeterInv => MetersFaithful
    BY DEF MeterInv
<1>2. QED
    BY <1>1, MeterInvariant, PTL

\* Calls made one after the other exceed no budget but by what was not foreseen.
THEOREM Ceiling == Spec => []CeilingHolds
<1>1. MeterInv => CeilingHolds
    BY DEF MeterInv
<1>2. QED
    BY <1>1, MeterInvariant, PTL

-----------------------------------------------------------------------------
(* Every answer reaches every hook *)

\* The threads that wait for a post-hook are a finite set.
LEMMA WaitingFinite ==
    ASSUME NEW i PROVE IsFiniteSet(Waiting(i)) /\ Cardinality(Waiting(i)) \in Nat
<1>1. Waiting(i) \subseteq Thread
    BY DEF Waiting
<1>2. QED
    BY <1>1, FS_Subset, FS_CardinalityType, HookAssumption

\* The steps that run the post-hook which is next.
LEMMA PostStep ==
    ASSUME TypeOK, NEW th \in Thread,
           BudgetStore(th) \/ CapPost(th) \/ TotalsPost(th) \/ OtherPost(th)
    PROVE  /\ pc[th] \in {"post", "store"} /\ at[th] \in DOMAIN chain
           /\ at' = [at EXCEPT ![th] = @ + 1]
           /\ \A t \in Thread : pc'[t] \in {"post", "store"} <=> pc[t] \in {"post", "store"}
           /\ posted' = [posted EXCEPT ![Current(th)] = @ + 1]
           /\ UNCHANGED <<chain, answered>>
<1>1. CASE BudgetStore(th)
    BY <1>1, CurrentHook DEF TypeOK, BudgetStore, Recorded, Advance, app
<1>2. CASE CapPost(th) \/ TotalsPost(th)
    BY <1>2, CurrentHook DEF TypeOK, CapPost, TotalsPost, Recorded, Advance, app
<1>3. CASE OtherPost(th)
    BY <1>3, CurrentHook DEF TypeOK, OtherPost, Advance, app
<1>4. QED
    BY <1>1, <1>2, <1>3

\* Every step keeps the balance of each hook.
LEMMA NextAccount ==
    ASSUME TypeOK, TypeOK', OneAtATime, EveryAnswerReachesEveryHook,
           NEW th \in Thread, Step(th)
    PROVE  EveryAnswerReachesEveryHook'
<1>1. chain' = chain
    BY DEF Step, Begin, Pre, Abort, Answer, CallFails, BeginUsage, BudgetLoad,
           BudgetStore, CapPost, TotalsPost, OtherPost, Return, app
<1> SUFFICES ASSUME NEW i \in DOMAIN chain
             PROVE  posted'[chain[i]] + Cardinality(Waiting(i)') = answered'
    BY <1>1 DEF EveryAnswerReachesEveryHook
<1>2. /\ i \in Nat \ {0} /\ chain[i] \in Hook /\ posted[chain[i]] \in Nat
      /\ answered \in Nat /\ posted[chain[i]] + Cardinality(Waiting(i)) = answered
  <2>1. i \in Nat \ {0} /\ chain[i] \in Hook
      BY CurrentHook
  <2>2. posted[chain[i]] \in Nat /\ answered \in Nat
      BY <2>1 DEF TypeOK
  <2>3. posted[chain[i]] + Cardinality(Waiting(i)) = answered
      BY DEF EveryAnswerReachesEveryHook
  <2>4. QED
      BY <2>1, <2>2, <2>3
<1>3. at \in [Thread -> Nat]
    BY CurrentHook DEF TypeOK
<1>4. CASE Answer(th) \/ BeginUsage(th)
  <2>1. /\ pc[th] \notin {"post", "store"} /\ pc'[th] = "post" /\ at'[th] = 1
        /\ \A t \in Thread \ {th} : pc'[t] = pc[t] /\ at'[t] = at[t]
        /\ answered' = answered + 1 /\ posted' = posted
      BY <1>4 DEF TypeOK, OneAtATime, Answer, BeginUsage, MayBegin, accounts
  <2>2. Waiting(i)' = Waiting(i) \cup {th} /\ th \notin Waiting(i)
      BY <1>2, <2>1 DEF Waiting
  <2>3. Cardinality(Waiting(i)') = Cardinality(Waiting(i)) + 1
      BY <2>2, WaitingFinite, FS_AddElement
  <2>4. QED
      BY <1>2, <2>1, <2>3, WaitingFinite
<1>5. CASE BudgetStore(th) \/ CapPost(th) \/ TotalsPost(th) \/ OtherPost(th)
  <2>1. CASE i = at[th]
    <3>1. Waiting(i)' = Waiting(i) \ {th} /\ th \in Waiting(i)
        BY <1>3, <1>5, <2>1, PostStep DEF Waiting
    <3>2. Cardinality(Waiting(i)') = Cardinality(Waiting(i)) - 1
        BY <3>1, WaitingFinite, FS_RemoveElement
    <3>3. posted'[chain[i]] = posted[chain[i]] + 1 /\ answered' = answered
        BY <1>2, <1>5, <2>1, PostStep DEF TypeOK, Current
    <3>4. QED
        BY <1>2, <3>2, <3>3, WaitingFinite
  <2>2. CASE i # at[th]
    <3>1. Waiting(i)' = Waiting(i)
        BY <1>2, <1>3, <1>5, <2>2, PostStep DEF Waiting
    <3>2. chain[i] # Current(th)
        BY <1>5, <2>2, PostStep, OnePlace DEF Current
    <3>3. posted'[chain[i]] = posted[chain[i]] /\ answered' = answered
      <4>1. posted \in [Hook -> Nat]
          BY DEF TypeOK
      <4>2. posted' = [posted EXCEPT ![Current(th)] = @ + 1] /\ answered' = answered
          BY <1>5, PostStep
      <4>3. QED
          BY <1>2, <3>2, <4>1, <4>2
    <3>4. QED
        BY <1>2, <3>1, <3>3
  <2>3. QED
      BY <2>1, <2>2
<1>6. CASE \/ Begin(th) \/ Pre(th) \/ Abort(th) \/ CallFails(th)
           \/ BudgetLoad(th) \/ Return(th)
  <2>1. posted' = posted /\ answered' = answered
      BY <1>6 DEF Begin, Pre, Abort, CallFails, BudgetLoad, Return, accounts
  <2>2. CASE Return(th)
    <3>1. /\ pc'[th] = "idle" /\ at[th] > Len(chain)
          /\ \A t \in Thread \ {th} : pc'[t] = pc[t] /\ at'[t] = at[t]
        BY <2>2 DEF TypeOK, Return, Leave, EndOfChain
    <3>2. i <= Len(chain) /\ Len(chain) \in Nat
        BY CurrentHook
    <3>3. Waiting(i)' = Waiting(i)
        BY <1>2, <1>3, <3>1, <3>2 DEF Waiting
    <3>4. QED
        BY <1>2, <2>1, <3>3
  <2>3. CASE BudgetLoad(th)
    <3>1. Waiting(i)' = Waiting(i)
        BY <2>3 DEF TypeOK, BudgetLoad, Waiting
    <3>2. QED
        BY <1>2, <2>1, <3>1
  <2>4. CASE Begin(th) \/ Pre(th) \/ Abort(th) \/ CallFails(th)
    <3>1. /\ pc[th] \notin {"post", "store"} /\ pc'[th] \notin {"post", "store"}
          /\ \A t \in Thread \ {th} : pc'[t] = pc[t] /\ at'[t] = at[t]
        BY <2>4 DEF TypeOK, Begin, MayBegin, Pre, Abort, CallFails, Leave, Advance
    <3>2. Waiting(i)' = Waiting(i)
        BY <3>1 DEF Waiting
    <3>3. QED
        BY <1>2, <2>1, <3>2
  <2>5. QED
      BY <1>6, <2>2, <2>3, <2>4
<1>7. QED
    BY <1>4, <1>5, <1>6 DEF Step

\* Every answered call is put through every post-hook exactly once, whichever of them
\* raise; a refused call through none.
THEOREM Accounted == Spec => []EveryAnswerReachesEveryHook
<1>1. Init => EveryAnswerReachesEveryHook
  <2> SUFFICES ASSUME Init, NEW i \in DOMAIN chain
               PROVE  posted[chain[i]] + Cardinality(Waiting(i)) = answered
      BY DEF EveryAnswerReachesEveryHook
  <2>1. Waiting(i) = {} /\ chain[i] \in Hook
      BY InitType, CurrentHook, HookAssumption DEF Init, Waiting
  <2>2. QED
      BY <2>1, FS_EmptySet DEF Init
<1>2. ASSUME MeterInv, EveryAnswerReachesEveryHook, [Next]_vars
      PROVE  EveryAnswerReachesEveryHook'
  <2>1. CASE UNCHANGED vars
      BY <1>2, <2>1 DEF EveryAnswerReachesEveryHook, Waiting, vars, app, accounts
  <2>2. ASSUME NEW th \in Thread, Step(th) PROVE EveryAnswerReachesEveryHook'
      BY <1>2, <2>2, NextType, NextAccount DEF MeterInv, Next
  <2>3. QED
      BY <1>2, <2>1, <2>2 DEF Next
<1>3. QED
    BY <1>1, <1>2, MeterInvariant, PTL DEF Spec
=============================================================================
