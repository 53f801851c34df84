------------------------------- MODULE Metering -------------------------------
(***************************************************************************)
(* Pricing one call: the provider adapters (providers/openai.py,           *)
(* providers/anthropic.py) turn what a vendor reports into one shape of    *)
(* usage, usd_for_usage() prices that shape with the tables of Pricing,    *)
(* and a model or a server-side tool that has no rate is charged $0 and    *)
(* reported to the operator once.                                          *)
(*                                                                         *)
(* The threads that price calls share the two sets of names already        *)
(* reported, without a lock. Rates change only while no call is being      *)
(* priced: "a startup action, not a runtime one" (pricing.py:462).         *)
(***************************************************************************)
EXTENDS Pricing, FiniteSetsExt

CONSTANTS
    Thread,     \* threads that price calls
    Tool,       \* keys of server_tool_use
    ToolRate,   \* SERVER_TOOL_PRICING: [a subset of Tool -> Nat]
    Write, Read, Output,    \* with Input, the keys of RATE_KEYS
    None,       \* not reported
    Count,      \* the token counts an answer may have
    Uses        \* the counts of a tool's uses it may have

Unbilled == (Model \cup Tool) \ DOMAIN ToolRate    \* what may turn out to have no rate

ASSUME MeteringAssumption ==
    /\ DOMAIN ToolRate \subseteq Tool /\ Model \cap Tool = {}
    /\ ToolRate \in [DOMAIN ToolRate -> Nat] /\ IsFiniteSet(DOMAIN ToolRate)
    /\ RateKey = {Input, Output, Read, Write}
    /\ Count \cup Uses \subseteq Nat /\ None \notin Nat /\ IsFiniteSet(Thread)

VARIABLES
    pc,         \* where the pricing of a thread's call is
    model,      \* the model of that call
    left,       \* its server-side tools that are still to be priced
    name,       \* the tool or model about to be reported
    warned,     \* _unpriced_tools_warned and _unpriced_warned
    alerts,     \* the alerts sent about each name
    free        \* names some call was charged $0 for (history)

callVars == <<pc, model, left, name>>
meterVars == <<callVars, warned, alerts, free>>
mvars == <<vars, meterVars>>

-----------------------------------------------------------------------------
(* Usage and its price *)

OrZero(count) == IF count = None THEN 0 ELSE count

\* Fault: the cached tokens are left inside the prompt.
OpenAIUsageWhole(u) ==
    [input |-> u.prompt, output |-> u.completion,
     read |-> u.cached, write |-> None, tools |-> <<>>]

\* openai.extract_usage: vendors count cached tokens inside the prompt.
OpenAIUsage(u) ==
    [input |-> Max({u.prompt - OrZero(u.cached), 0}), output |-> u.completion,
     read |-> u.cached, write |-> None, tools |-> <<>>]

\* anthropic.extract_usage: the four counts apart, and the tools that have a count.
AnthropicUsage(u) ==
    [input |-> u.input, output |-> u.output, read |-> u.read, write |-> u.write,
     tools |-> [tool \in {t \in DOMAIN u.tools : u.tools[t] # None} |-> u.tools[tool]]]

\* server_tool_cost; a key without a rate adds nothing.
ServerToolCost(tools) ==
    MapThenSumSet(LAMBDA t : tools[t] * ToolRate[t], DOMAIN tools \cap DOMAIN ToolRate)

\* _cost: the model's rates for this input size, or nothing.
Cost(m, input, output, read, write) ==
    LET r == RatesFor(m, input)
    IN  IF r = NoRates THEN 0
        ELSE input * r[Input] + output * r[Output] + read * r[Read] + write * r[Write]

\* usd_for_usage
UsdForUsage(m, usage) ==
    ServerToolCost(usage.tools)
      + Cost(m, usage.input, usage.output, OrZero(usage.read), OrZero(usage.write))

-----------------------------------------------------------------------------
(* The calls *)

MeterInit ==
    /\ Init
    /\ pc = [th \in Thread |-> "idle"]
    /\ model \in [Thread -> {None}]
    /\ left = [th \in Thread |-> {}]
    /\ name = [th \in Thread |-> None]
    /\ warned = {}
    /\ alerts = [x \in Unbilled |-> 0]
    /\ free = {}

\* usd_for_usage is called with a model and the tools the vendor reported.
Begin(th) ==
    /\ pc[th] = "idle"
    /\ \E m \in Model, tools \in SUBSET Tool :
          /\ model' = [model EXCEPT ![th] = m]
          /\ left' = [left EXCEPT ![th] = tools]
    /\ pc' = [pc EXCEPT ![th] = "price"]
    /\ UNCHANGED <<vars, name, warned, alerts, free>>

\* The tool has a rate.
PriceTool(th) ==
    /\ pc[th] = "price"
    /\ \E tool \in left[th] \cap DOMAIN ToolRate :
          left' = [left EXCEPT ![th] = @ \ {tool}]
    /\ UNCHANGED <<vars, pc, model, name, warned, alerts, free>>

\* The model has a rate; the call is priced.
PriceModel(th) ==
    /\ pc[th] = "price" /\ left[th] = {}
    /\ RatesFor(model[th], 0) # NoRates
    /\ pc' = [pc EXCEPT ![th] = "idle"]
    /\ model' = [model EXCEPT ![th] = None]
    /\ UNCHANGED <<vars, left, name, warned, alerts, free>>

\* What has no rate: a tool, and after the tools the model.
Unpriced(th) ==
    IF left[th] # {} THEN left[th] \ DOMAIN ToolRate
    ELSE {m \in {model[th]} : RatesFor(m, 0) = NoRates}

\* The thread goes on after a name that was charged nothing.
Charged(th, x) ==
    /\ free' = free \cup {x}
    /\ left' = [left EXCEPT ![th] = @ \ {x}]
    /\ model' = [model EXCEPT ![th] = IF x \in Model THEN None ELSE @]
    /\ pc' = [pc EXCEPT ![th] = IF x \in Model THEN "idle" ELSE "price"]

\* _warn_unpriced_tool, _warn_unpriced: return, the name was reported before.
Warned(th) ==
    /\ pc[th] = "price"
    /\ \E x \in Unpriced(th) : x \in warned /\ Charged(th, x)
    /\ UNCHANGED <<vars, name, warned, alerts>>

\* The name is not in the set; it is added in a step of its own.
Unwarned(th) ==
    /\ pc[th] = "price"
    /\ \E x \in Unpriced(th) \ warned : name' = [name EXCEPT ![th] = x]
    /\ pc' = [pc EXCEPT ![th] = "add"]
    /\ UNCHANGED <<vars, model, left, warned, alerts, free>>

\* Fault: the name is looked for again after it was added, and never reported.
AddThenLook(th) ==
    /\ pc[th] = "add"
    /\ warned' = warned \cup {name[th]}
    /\ Charged(th, name[th])
    /\ name' = [name EXCEPT ![th] = None]
    /\ UNCHANGED <<vars, alerts>>

\* The name is added to the set.
Add(th) ==
    /\ pc[th] = "add"
    /\ warned' = warned \cup {name[th]}
    /\ pc' = [pc EXCEPT ![th] = "alert"]
    /\ UNCHANGED <<vars, model, left, name, alerts, free>>

\* alert(), which never raises, and back to the price of $0.
Alert(th) ==
    /\ pc[th] = "alert"
    /\ alerts' = [alerts EXCEPT ![name[th]] = @ + 1]
    /\ Charged(th, name[th])
    /\ name' = [name EXCEPT ![th] = None]
    /\ UNCHANGED <<vars, warned>>

\* load_rates: the document is missing, cannot be parsed or is not an object.
LoadRatesFails ==
    /\ raised' = TRUE
    /\ UNCHANGED tables

\* Rates are registered, loaded or reset between calls.
Rates ==
    /\ \A th \in Thread : pc[th] = "idle"
    /\ Next \/ LoadRatesFails
    /\ UNCHANGED meterVars

Call(th) ==
    \/ Begin(th) \/ PriceTool(th) \/ PriceModel(th)
    \/ Warned(th) \/ Unwarned(th) \/ Add(th) \/ Alert(th)

MeterNext == Rates \/ \E th \in Thread : Call(th)

MeterSpec == MeterInit /\ [][MeterNext]_mvars
-----------------------------------------------------------------------------
(* Properties *)

\* Every variable has its type, those of the tables included.
MeterTypeOK ==
    /\ TypeOK
    /\ pc \in [Thread -> {"idle", "price", "add", "alert"}]
    /\ model \in [Thread -> Model \cup {None}]
    /\ left \in [Thread -> SUBSET Tool]
    /\ name \in [Thread -> Unbilled \cup {None}]
    /\ warned \subseteq Unbilled /\ free \subseteq Unbilled
    /\ alerts \in [Unbilled -> Nat]

\* What a vendor did for one call: the prompt's tokens by how they were served.
Answer == [fresh : Count, cached : Count, written : Count, output : Count]

\* The reports openai may give of an answer: the prompt has all its tokens, those read
\* from the cache and those written to it included.  The cached ones may be left out of
\* the details, and nothing tells the written ones from the rest (openai.py:55).
OpenAIReports(a) ==
    {[prompt |-> a.fresh + a.cached + a.written, completion |-> a.output, cached |-> c] :
        c \in {a.cached, None}}

\* The reports anthropic may give: a count of zero may be left out, and each tool has
\* the count of its uses or none.
AnthropicReports(a) ==
    {[input |-> a.fresh, output |-> a.output, read |-> r, write |-> w,
      tools |-> uses] :
        r \in {a.cached} \cup {x \in {None} : a.cached = 0},
        w \in {a.written} \cup {x \in {None} : a.written = 0},
        uses \in [Tool -> Uses \cup {None}]}

\* What uses of the tools that have a rate come to.
ChargeFor(uses) == MapThenSumSet(LAMBDA t : uses[t] * ToolRate[t], DOMAIN ToolRate)

\* Each token of a call is charged exactly once, whichever adapter reads the report and
\* whatever the report leaves out: at the rate of the way it was served, as far as the
\* report tells it, and of the band its uncached prompt falls in.  What an openai report
\* does not tell is charged, and counted for the band, as fresh: a cached token not
\* reported as cached, and every token written to the cache, which pays the input rate
\* even for a model that lists a cache-write fee (pricing.py:33-35, openai.py:72).  A use
\* of a server-side tool that has a rate is charged beside the tokens.
EveryTokenChargedOnce ==
    \A m \in DOMAIN pricing, a \in Answer :
        /\ \A u \in OpenAIReports(a) :
              LET hidden == IF u.cached = None THEN a.cached ELSE 0
                  uncached == a.fresh + a.written + hidden
                  r == RatesFor(m, uncached)
              IN  UsdForUsage(m, OpenAIUsage(u)) =
                    uncached * r[Input] + (a.cached - hidden) * r[Read]
                      + a.output * r[Output]
        /\ LET r == RatesFor(m, a.fresh)
               tokens == a.fresh * r[Input] + a.cached * r[Read] + a.written * r[Write]
                           + a.output * r[Output]
           IN  \A u \in AnthropicReports(a) :
                  UsdForUsage(m, AnthropicUsage(u)) =
                    tokens + ChargeFor([t \in DOMAIN ToolRate |-> OrZero(u.tools[t])])

\* Nothing is charged $0 for want of a rate without the operator hearing of it: the
\* alert has been sent, or the thread that is to send it is on its way, also for a
\* model whose rates were registered, used and dropped. No name is reported by more
\* than the threads that met it at the same moment.
FreeIsReported ==
    /\ \A x \in free : alerts[x] > 0 \/ \E th \in Thread : pc[th] = "alert" /\ name[th] = x
    /\ \A x \in Unbilled : alerts[x] <= Cardinality(Thread)

\* The threads that are about to report a name.
Reporting(x) == {th \in Thread : pc[th] \in {"add", "alert"} /\ name[th] = x}

\* A name is in the set before anyone alerts about it, and only a thread that found it
\* missing does: those threads are what bounds the alerts about it.
ReportInv ==
    /\ \A th \in Thread : pc[th] # "idle" => model[th] \in Model
    /\ \A th \in Thread : pc[th] \in {"add", "alert"} => name[th] \in Unbilled
    /\ \A th \in Thread : pc[th] = "alert" => name[th] \in warned
    /\ free \subseteq warned
    /\ \A x \in warned : alerts[x] > 0 \/ \E th \in Thread : pc[th] = "alert" /\ name[th] = x
    /\ \A x \in Unbilled : /\ x \notin warned => alerts[x] = 0
                           /\ alerts[x] + Cardinality(Reporting(x)) <= Cardinality(Thread)

\* The inductive invariant of pricing calls, and of the tables under it.
MeteringInv == MeterTypeOK /\ PriceInv /\ ReportInv
=============================================================================
