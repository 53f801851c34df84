------------------------------- MODULE Pricing -------------------------------
(***************************************************************************)
(* The pricing tables (pricing.py): the registry MODEL_PRICING, its        *)
(* flat-rate projection RATES, and the overrides an application lays over  *)
(* them with register_rates() and drops with reset_overrides().            *)
(*                                                                         *)
(* A row of the registry has flat rates, or a schedule of tiers by prompt  *)
(* size; a registered row can leave a tiered model with some of both.      *)
(***************************************************************************)
EXTENDS Integers, SequencesExt

CONSTANTS
    Model,      \* model ids
    RateKey,    \* RATE_KEYS
    Shipped,    \* _SHIPPED_PRICING: [a subset of Model -> row]
    Rate,       \* rates a caller may pass, negative ones too
    Given,      \* the sets of rates a caller may pass at once
    Input,      \* the key of the rate that must be positive in a new row
    MaxSize,    \* bound on the prompt size
    MaxRows     \* bound on the rows of one registration

Size == 0..MaxSize
NoRates == <<>>

\* _validate_tiers: at least two tiers, ascending, the last of them open-ended.
ValidTiers(tiers) ==
    /\ Len(tiers) >= 2
    /\ \A i \in 1..Len(tiers) : DOMAIN tiers[i].rate = RateKey
    /\ \A i \in 1..Len(tiers) : tiers[i].open <=> i = Len(tiers)
    /\ \A i \in 1..Len(tiers) - 1 :
          tiers[i].upto > IF i = 1 THEN 0 ELSE tiers[i - 1].upto

\* _load_table: flat rates or tiers, never both and never neither.
ValidRow(row) ==
    \/ row.tiers = <<>> /\ DOMAIN row.flat = RateKey
    \/ row.flat = NoRates /\ ValidTiers(row.tiers)

\* A row of the registry: some flat rates, and its tiers.
IsRateRow(r) == DOMAIN r \subseteq RateKey /\ r \in [DOMAIN r -> Int]
IsRow(row) ==
    /\ row = [flat |-> row.flat, tiers |-> row.tiers]
    /\ IsRateRow(row.flat)
    /\ row.tiers \in Seq([open : BOOLEAN, upto : Nat, rate : [RateKey -> Int]])

ASSUME ShippedAssumption ==
    /\ DOMAIN Shipped \subseteq Model
    /\ \A m \in DOMAIN Shipped : IsRow(Shipped[m]) /\ ValidRow(Shipped[m])
    /\ Input \in RateKey /\ Rate \subseteq Int /\ Given \subseteq SUBSET RateKey
    /\ MaxSize \in Nat

VARIABLES
    pricing,        \* MODEL_PRICING
    rates,          \* RATES
    overridden,     \* _overridden
    raised          \* the last registration raised

tables == <<pricing, rates, overridden>>
vars == <<tables, raised>>

-----------------------------------------------------------------------------
(* Reading *)

\* The flat-rate projection of the models of a table.
Projection(table) ==
    [m \in {m \in DOMAIN table : table[m].tiers = <<>>} |-> table[m].flat]

\* The first tier whose max_input_tokens the prompt does not exceed.
Tier(tiers, size) ==
    tiers[SelectInSeq(tiers, LAMBDA tier : tier.open \/ size <= tier.upto)].rate

\* _rates_for: what a call is billed at; NoRates when _cost charges nothing.
RatesFor(m, size) ==
    IF m \in DOMAIN rates THEN rates[m]
    ELSE IF m \in DOMAIN pricing /\ pricing[m].tiers # <<>>
         THEN Tier(pricing[m].tiers, size)
         ELSE NoRates

\* catalog, _record_for: the rates listed for a model, its entry tier's if it has tiers.
Listed(m) ==
    IF pricing[m].tiers # <<>> THEN pricing[m].tiers[1].rate ELSE pricing[m].flat

\* is_priced
IsPriced(m) == m \in DOMAIN pricing

-----------------------------------------------------------------------------
(* register_rates and reset_overrides *)

\* What a caller may pass for one model: some rates, and the descriptive fields.
CallerRow ==
    [model : Model, described : BOOLEAN,
     rate : UNION {[keys -> Rate] : keys \in Given}]

\* _validate_row raises InvalidRateRow.
Invalid(row) ==
    \/ \E key \in DOMAIN row.rate : row.rate[key] < 0
    \/ /\ row.model \notin DOMAIN pricing
       /\ \/ ~ row.described
          \/ DOMAIN row.rate # RateKey
          \/ Input \notin {key \in DOMAIN row.rate : row.rate[key] > 0}

Overlaid(old, new) ==
    [key \in DOMAIN old \cup DOMAIN new |->
        IF key \in DOMAIN new THEN new[key] ELSE old[key]]

\* The registry's row for a model, overlaid with the caller's.
Merged(row) ==
    IF row.model \in DOMAIN pricing
    THEN [pricing[row.model] EXCEPT !.flat = Overlaid(@, row.rate)]
    ELSE [flat |-> row.rate, tiers |-> <<>>]

\* Fault: RATES is given the caller's rates, and not the merged row's.
CallerRates(row) == row.rate

\* What RATES is given for a row.
MergedRates(row) == Merged(row).flat

Registration ==
    {rows \in UNION {[1..n -> CallerRow] : n \in 1..MaxRows} :
        \A i, j \in DOMAIN rows : rows[i].model = rows[j].model => i = j}

Init ==
    /\ pricing = Shipped
    /\ rates = Projection(Shipped)
    /\ overridden = {}
    /\ raised = FALSE

\* A row is not valid: InvalidRateRow, before anything is applied.
RegisterInvalid(rows) ==
    /\ \E i \in DOMAIN rows : Invalid(rows[i])
    /\ raised' = TRUE
    /\ UNCHANGED tables

\* The rows that still lack a rate when merged, which raises a KeyError.
Incomplete(rows) == {i \in DOMAIN rows : DOMAIN Merged(rows[i]).flat # RateKey}

\* The loop enters the rows in the registry up to the first that raises, and those
\* before it in RATES as well. No two are of one model, so none is merged with another.
Entered(rows) == {i \in DOMAIN rows : \A j \in Incomplete(rows) : i <= j}
Completed(rows) == Entered(rows) \ Incomplete(rows)

ModelsOf(rows, numbers) == {rows[i].model : i \in numbers}
RowOf(rows, m) == rows[CHOOSE i \in DOMAIN rows : rows[i].model = m]

\* Every row is valid: they are applied in order, until one raises.
RegisterRates(rows) ==
    LET entered == ModelsOf(rows, Entered(rows))
        completed == ModelsOf(rows, Completed(rows))
    IN  /\ \A i \in DOMAIN rows : ~ Invalid(rows[i])
        /\ pricing' = [m \in DOMAIN pricing \cup entered |->
                          IF m \in entered THEN Merged(RowOf(rows, m)) ELSE pricing[m]]
        /\ rates' = [m \in DOMAIN rates \cup completed |->
                        IF m \in completed THEN MergedRates(RowOf(rows, m)) ELSE rates[m]]
        /\ overridden' = overridden \cup completed
        /\ raised' = (Incomplete(rows) # {})

\* Fault: no model is dropped from RATES.
ResetKeepingRates ==
    /\ pricing' = [m \in DOMAIN pricing \ (overridden \ DOMAIN Shipped) |->
                     IF m \in overridden THEN Shipped[m] ELSE pricing[m]]
    /\ rates' = [m \in DOMAIN rates |->
                     IF m \in DOMAIN Projection(Shipped) THEN Shipped[m].flat
                                                        ELSE rates[m]]
    /\ overridden' = {}
    /\ raised' = FALSE

\* reset_overrides: restore each overridden model, or drop one that is not shipped.
ResetOverrides ==
    /\ pricing' = [m \in DOMAIN pricing \ (overridden \ DOMAIN Shipped) |->
                     IF m \in overridden THEN Shipped[m] ELSE pricing[m]]
    /\ rates' = [m \in (DOMAIN rates \ overridden)
                         \cup (overridden \cap DOMAIN Projection(Shipped)) |->
                     IF m \in overridden THEN Shipped[m].flat ELSE rates[m]]
    /\ overridden' = {}
    /\ raised' = FALSE

Next ==
    \/ \E rows \in Registration : RegisterInvalid(rows) \/ RegisterRates(rows)
    \/ ResetOverrides

Spec == Init /\ [][Next]_vars
-----------------------------------------------------------------------------
(* Properties *)

\* Every variable has its type; only listed models have rates or overrides.
TypeOK ==
    /\ DOMAIN pricing \subseteq Model
    /\ \A m \in DOMAIN pricing : IsRow(pricing[m])
    /\ DOMAIN rates \subseteq DOMAIN pricing
    /\ \A m \in DOMAIN rates : rates[m] \in [RateKey -> Int]
    /\ overridden \subseteq DOMAIN rates
    /\ raised \in BOOLEAN

\* The pre-flight gate and the calculator agree on every model and prompt size,
\* though they read different tables: a model that is_priced() admits is billed,
\* and one that it refuses would be billed nothing.
GateMatchesCost ==
    \A m \in Model : \A size \in Size : IsPriced(m) <=> RatesFor(m, size) # NoRates

\* A prompt is billed at the cheapest band that holds it, of the shipped schedule:
\* the band is found from the thresholds, not from their order.
ShippedRatesFor(m, size) ==
    IF m \notin DOMAIN Shipped THEN NoRates
    ELSE IF Shipped[m].tiers = <<>> THEN Shipped[m].flat
    ELSE LET bands == {t \in Range(Shipped[m].tiers) : t.open \/ t.upto >= size}
         IN  (CHOOSE t \in bands :
                \A u \in bands : u.open \/ (~ t.open /\ t.upto <= u.upto)).rate

\* With no override in force, every call is billed as shipped, whatever sequence of
\* registrations (some failing half way) and resets came before.
ShippedBillingRestored ==
    overridden = {} =>
        \A m \in Model : \A size \in Size : RatesFor(m, size) = ShippedRatesFor(m, size)

\* The registry and its flat-rate projection, which are updated one after the other,
\* agree on every model, also after a registration that raised between the two
\* (pricing.py:490) and in the rows before and after the one that did; and what the
\* catalogue lists is what the smallest prompt is billed at, unless it is overridden.
TablesAgree ==
    \A m \in Model :
        /\ m \in DOMAIN rates <=> m \in DOMAIN pricing /\ DOMAIN pricing[m].flat = RateKey
        /\ m \in DOMAIN rates => rates[m] = pricing[m].flat
        /\ m \in DOMAIN pricing \ overridden => Listed(m) = RatesFor(m, 0)

\* RATES holds the flat rates of every model that has all of them.
RatesAreMerged ==
    \A m \in DOMAIN pricing :
        /\ m \in DOMAIN rates <=> DOMAIN pricing[m].flat = RateKey
        /\ m \in DOMAIN rates => rates[m] = pricing[m].flat

\* A model is billed by flat rates or by its shipped tiers, which no registration
\* touches; one that is not overridden has its shipped flat rates, too. (A tiered model
\* whose registration stopped half way has stray flat rates, which are not billed.)
RowsAreShipped ==
    /\ DOMAIN Shipped \subseteq DOMAIN pricing
    /\ \A m \in DOMAIN pricing :
          IF pricing[m].tiers = <<>> THEN m \in DOMAIN rates
          ELSE m \in DOMAIN Shipped /\ pricing[m].tiers = Shipped[m].tiers
    /\ \A m \in DOMAIN pricing \ overridden :
          /\ m \in DOMAIN Shipped /\ pricing[m].tiers = Shipped[m].tiers
          /\ IF pricing[m].tiers = <<>> THEN pricing[m].flat = Shipped[m].flat
             ELSE m \notin DOMAIN rates

\* The inductive invariant behind the three properties above.
PriceInv == TypeOK /\ RatesAreMerged /\ RowsAreShipped
=============================================================================
