--------------------------- MODULE MeteringProofs ---------------------------
(***************************************************************************)
(* The tables of Pricing agree and bill as shipped, and Metering charges   *)
(* every token once and reports every name that is charged nothing: for    *)
(* every table shipped, every registration, every count, every set of      *)
(* tools and every number of threads.                                      *)
(***************************************************************************)
EXTENDS Metering, FiniteSetTheorems, WellFoundedInduction, TLAPS

-----------------------------------------------------------------------------
(* Tiers *)

\* A nonempty set of naturals has a least element.
LEMMA LeastElement ==
    ASSUME NEW S, S \subseteq Nat, S # {}
    PROVE  \E m \in S : \A x \in S : m <= x
<1> DEFINE R == {ss \in Nat \X Nat : ss[1] < ss[2]}
<1>1. IsWellFoundedOn(R, Nat)
  BY NatLessThanWellFounded DEF OpToRel
<1>2. \A x, y \in Nat : x < y => <<x, y>> \in R
  OBVIOUS
<1> HIDE DEF R
<1>3. PICK m \in S : \A x \in S : ~ (<<x, m>> \in R)
  BY <1>1, WFMin
<1>4. ASSUME NEW x \in S, x < m PROVE FALSE
  <2>1. x \in Nat /\ m \in Nat
    OBVIOUS
  <2>2. <<x, m>> \in R
    BY <1>2, <1>4, <2>1, Zenon
  <2> QED BY <1>3, <2>2
<1> QED BY <1>4

TierType == [open : BOOLEAN, upto : Nat, rate : [RateKey -> Int]]

\* Thresholds that ascend from each tier to the next ascend throughout
\* (_validate_tiers compares neighbours only).
LEMMA TiersAscend ==
    ASSUME NEW tiers \in Seq(TierType), ValidTiers(tiers),
           NEW i \in 1..Len(tiers) - 1, NEW j \in 1..Len(tiers) - 1, i < j
    PROVE  tiers[i].upto < tiers[j].upto
<1> DEFINE n == Len(tiers) - 1
           Wrong == {k \in 1..n : i < k /\ ~ (tiers[i].upto < tiers[k].upto)}
<1>1. Len(tiers) \in Nat /\ \A k \in 1..n : tiers[k].upto \in Nat
  <2>1. Len(tiers) \in Nat /\ \A k \in 1..Len(tiers) : tiers[k] \in TierType
    OBVIOUS
  <2> QED BY <2>1 DEF TierType
<1>2. \A k \in 1..n : k # 1 => tiers[k].upto > tiers[k - 1].upto
  BY <1>1 DEF ValidTiers
<1>3. SUFFICES ASSUME Wrong # {} PROVE FALSE
  OBVIOUS
<1>4. PICK k \in Wrong : \A x \in Wrong : k <= x
  <2>1. Wrong \subseteq Nat
    OBVIOUS
  <2> HIDE DEF Wrong
  <2> QED BY <1>3, <2>1, LeastElement
<1>5. k \in 1..n /\ i < k /\ ~ (tiers[i].upto < tiers[k].upto) /\ k \in Nat /\ i \in Nat
  BY <1>1
<1>6. k - 1 \notin Wrong
  BY <1>4, <1>5
<1>7. k - 1 \in 1..n /\ tiers[k].upto > tiers[k - 1].upto
  BY <1>1, <1>2, <1>5
<1>8. CASE k - 1 = i
  BY <1>1, <1>5, <1>7, <1>8
<1>9. CASE k - 1 # i
  <2>1. tiers[i].upto < tiers[k - 1].upto
    BY <1>5, <1>6, <1>7, <1>9
  <2> QED BY <1>1, <1>5, <1>7, <2>1
<1> QED BY <1>8, <1>9

\* The tier a prompt is billed at is the first that holds it, and there is one.
LEMMA TierFirst ==
    ASSUME NEW tiers \in Seq(TierType), ValidTiers(tiers), NEW size \in Nat
    PROVE  \E i \in 1..Len(tiers) :
              /\ Tier(tiers, size) = tiers[i].rate
              /\ tiers[i].open \/ size <= tiers[i].upto
              /\ \A j \in 1..Len(tiers) : tiers[j].open \/ size <= tiers[j].upto => i <= j
<1> DEFINE I == {i \in 1..Len(tiers) : tiers[i].open \/ size <= tiers[i].upto}
<1>1. Len(tiers) \in Nat /\ Len(tiers) \in 1..Len(tiers) /\ tiers[Len(tiers)].open
  BY DEF ValidTiers
<1>2. I # {} /\ I \subseteq Nat
  BY <1>1
<1>3. Tier(tiers, size) = tiers[Min(I)].rate
  BY <1>2 DEF Tier, SelectInSeq
<1>4. \E m \in I : \A x \in I : m <= x
  <2> HIDE DEF I
  <2> QED BY <1>2, LeastElement
<1>5. Min(I) \in I /\ \A x \in I : Min(I) <= x
  <2> HIDE DEF I
  <2> QED BY <1>4 DEF Min
<1> QED BY <1>3, <1>5

-----------------------------------------------------------------------------
(* Rows *)

\* A row of a registration names a listed model, and gives it rates.
LEMMA CallerRowType ==
    ASSUME NEW row \in CallerRow
    PROVE  row.model \in Model /\ IsRateRow(row.rate)
<1>1. row.model \in Model /\ row.rate \in UNION {[keys -> Rate] : keys \in Given}
  BY DEF CallerRow
<1>2. PICK keys \in Given : row.rate \in [keys -> Rate]
  BY <1>1
<1>3. keys \subseteq RateKey /\ Rate \subseteq Int
  BY ShippedAssumption
<1> QED BY <1>1, <1>2, <1>3 DEF IsRateRow

\* Rates laid over rates are rates, of both sets of keys.
LEMMA OverlaidType ==
    ASSUME NEW old, NEW new, IsRateRow(old), IsRateRow(new)
    PROVE  IsRateRow(Overlaid(old, new))
           /\ DOMAIN Overlaid(old, new) = DOMAIN old \cup DOMAIN new
<1>1. DOMAIN Overlaid(old, new) = DOMAIN old \cup DOMAIN new
  BY DEF Overlaid
<1>2. \A key \in DOMAIN old \cup DOMAIN new : Overlaid(old, new)[key] \in Int
  BY DEF Overlaid, IsRateRow
<1>3. Overlaid(old, new) \in [DOMAIN old \cup DOMAIN new -> Int]
  BY <1>2 DEF Overlaid
<1> QED BY <1>1, <1>3 DEF IsRateRow

\* A row that has rates for all the keys has a rate for some key, so that it is not
\* taken for a model without rates.
LEMMA FullRow ==
    ASSUME NEW r, IsRateRow(r), DOMAIN r = RateKey
    PROVE  r \in [RateKey -> Int] /\ r # NoRates
<1>1. r \in [RateKey -> Int]
  BY DEF IsRateRow
<1>2. Input \in DOMAIN r
  BY ShippedAssumption
<1>3. DOMAIN NoRates = {}
  BY DEF NoRates
<1> QED BY <1>1, <1>2, <1>3

\* A shipped row that has tiers has no flat rates, and one that has none has all of them.
LEMMA ShippedRow ==
    ASSUME NEW m \in DOMAIN Shipped
    PROVE  /\ IsRow(Shipped[m]) /\ m \in Model
           /\ Shipped[m].tiers = <<>> => DOMAIN Shipped[m].flat = RateKey
           /\ Shipped[m].tiers # <<>> => /\ ValidTiers(Shipped[m].tiers)
                                         /\ DOMAIN Shipped[m].flat # RateKey
<1>1. IsRow(Shipped[m]) /\ ValidRow(Shipped[m]) /\ m \in Model
  BY ShippedAssumption
<1>2. DOMAIN NoRates = {} /\ RateKey # {}
  BY ShippedAssumption DEF NoRates
<1>3. Shipped[m].tiers = <<>> => ~ ValidTiers(Shipped[m].tiers)
  BY DEF ValidTiers
<1> QED BY <1>1, <1>2, <1>3 DEF ValidRow

\* What a registration makes of a model's row: more flat rates, the same tiers.
LEMMA MergedType ==
    ASSUME PriceInv, NEW row \in CallerRow
    PROVE  /\ IsRow(Merged(row))
           /\ row.model \in DOMAIN pricing =>
                 /\ Merged(row).tiers = pricing[row.model].tiers
                 /\ DOMAIN Merged(row).flat = DOMAIN pricing[row.model].flat \cup DOMAIN row.rate
           /\ row.model \notin DOMAIN pricing =>
                 Merged(row).tiers = <<>> /\ Merged(row).flat = row.rate
<1>1. row.model \in Model /\ IsRateRow(row.rate)
  BY CallerRowType
<1>2. CASE row.model \in DOMAIN pricing
  <2> DEFINE old == pricing[row.model]
             new == Overlaid(old.flat, row.rate)
  <2>1. IsRow(old)
    BY <1>2 DEF PriceInv, TypeOK
  <2>2. IsRateRow(new) /\ DOMAIN new = DOMAIN old.flat \cup DOMAIN row.rate
    BY <1>1, <2>1, OverlaidType DEF IsRow
  <2>3. Merged(row) = [old EXCEPT !.flat = new]
    BY <1>2 DEF Merged
  <2>4. old = [flat |-> old.flat, tiers |-> old.tiers]
    BY <2>1 DEF IsRow
  <2> HIDE DEF old, new
  <2>5. Merged(row) = [flat |-> new, tiers |-> old.tiers]
    BY <2>3, <2>4
  <2>6. Merged(row).flat = new /\ Merged(row).tiers = old.tiers
    BY <2>5
  <2>7. IsRow(Merged(row))
    BY <2>1, <2>2, <2>5, <2>6 DEF IsRow
  <2> QED BY <1>2, <2>2, <2>6, <2>7 DEF old
<1>3. CASE row.model \notin DOMAIN pricing
  <2>1. Merged(row) = [flat |-> row.rate, tiers |-> <<>>]
    BY <1>3 DEF Merged
  <2>2. Merged(row).flat = row.rate /\ Merged(row).tiers = <<>>
    BY <2>1
  <2>3. IsRow(Merged(row))
    BY <1>1, <2>1, <2>2 DEF IsRow
  <2> QED BY <1>3, <2>2, <2>3
<1> QED BY <1>2, <1>3

-----------------------------------------------------------------------------
(* The tables *)

\* A registration has one row of each model it enters, which is not invalid; the row is
\* completed when it has all the rates.
LEMMA RowEntered ==
    ASSUME NEW rows \in Registration, \A i \in DOMAIN rows : ~ Invalid(rows[i]),
           NEW m \in ModelsOf(rows, Entered(rows))
    PROVE  /\ RowOf(rows, m) \in CallerRow /\ RowOf(rows, m).model = m
           /\ ~ Invalid(RowOf(rows, m))
           /\ m \in ModelsOf(rows, Completed(rows))
                <=> DOMAIN Merged(RowOf(rows, m)).flat = RateKey
<1>1. /\ \A i \in DOMAIN rows : rows[i] \in CallerRow
      /\ \A i, j \in DOMAIN rows : rows[i].model = rows[j].model => i = j
  <2>1. PICK n \in 1..MaxRows : rows \in [1..n -> CallerRow]
    BY DEF Registration
  <2> QED BY <2>1 DEF Registration
<1>2. PICK i \in Entered(rows) : rows[i].model = m
  BY DEF ModelsOf
<1>3. i \in DOMAIN rows
  BY <1>2 DEF Entered
<1>4. RowOf(rows, m) = rows[i]
  BY <1>1, <1>2, <1>3 DEF RowOf
<1>5. m \in ModelsOf(rows, Completed(rows)) <=> i \in Completed(rows)
  BY <1>1, <1>2, <1>3 DEF ModelsOf, Completed, Entered
<1>6. i \in Completed(rows) <=> DOMAIN Merged(rows[i]).flat = RateKey
  BY <1>2, <1>3 DEF Completed, Incomplete
<1> QED BY <1>1, <1>2, <1>3, <1>4, <1>5, <1>6

\* The registry's row of a model that a registration enters: the model is billed by the
\* flat rates if it has all of them, and by its tiers otherwise, which the registration
\* leaves as they were.
LEMMA EnteredRow ==
    ASSUME PriceInv, NEW row \in CallerRow, ~ Invalid(row)
    PROVE  /\ IsRow(Merged(row)) /\ row.model \in Model
           /\ DOMAIN Merged(row).flat = RateKey => MergedRates(row) \in [RateKey -> Int]
           /\ Merged(row).tiers = <<>> => DOMAIN Merged(row).flat = RateKey
           /\ Merged(row).tiers # <<>> =>
                 row.model \in DOMAIN Shipped /\ Merged(row).tiers = Shipped[row.model].tiers
           /\ DOMAIN Merged(row).flat # RateKey =>
                 row.model \in DOMAIN pricing /\ row.model \notin DOMAIN rates
<1>1. row.model \in Model /\ IsRateRow(row.rate) /\ IsRow(Merged(row))
  BY CallerRowType, MergedType
<1>2. DOMAIN Merged(row).flat = RateKey => MergedRates(row) \in [RateKey -> Int]
  BY <1>1, FullRow DEF MergedRates, IsRow
<1>3. CASE row.model \notin DOMAIN pricing
  <2>1. DOMAIN row.rate = RateKey
    BY <1>3 DEF Invalid
  <2>2. Merged(row).tiers = <<>> /\ Merged(row).flat = row.rate
    BY <1>3, MergedType
  <2> QED BY <1>1, <1>2, <2>1, <2>2
<1>4. CASE row.model \in DOMAIN pricing
  <2> DEFINE m == row.model
  <2>1. /\ Merged(row).tiers = pricing[m].tiers
        /\ DOMAIN Merged(row).flat = DOMAIN pricing[m].flat \cup DOMAIN row.rate
    BY <1>4, MergedType
  <2>2. m \in DOMAIN rates <=> DOMAIN pricing[m].flat = RateKey
    BY <1>4 DEF PriceInv, RatesAreMerged
  <2>3. IF pricing[m].tiers = <<>> THEN m \in DOMAIN rates
        ELSE m \in DOMAIN Shipped /\ pricing[m].tiers = Shipped[m].tiers
    BY <1>4 DEF PriceInv, RowsAreShipped
  <2>4. DOMAIN row.rate \subseteq RateKey
    BY <1>1 DEF IsRateRow
  <2>5. m \in DOMAIN rates => DOMAIN Merged(row).flat = RateKey
    BY <2>1, <2>2, <2>4
  <2> HIDE DEF m
  <2>6. Merged(row).tiers = <<>> => DOMAIN Merged(row).flat = RateKey
    BY <2>1, <2>3, <2>5
  <2>7. Merged(row).tiers # <<>> =>
          m \in DOMAIN Shipped /\ Merged(row).tiers = Shipped[m].tiers
    BY <2>1, <2>3
  <2> QED BY <1>1, <1>2, <1>4, <2>5, <2>6, <2>7 DEF m
<1> QED BY <1>3, <1>4

\* register_rates keeps the tables as they should be, whichever of its rows raises.
LEMMA RegisterKeeps ==
    ASSUME PriceInv, NEW rows \in Registration, RegisterRates(rows)
    PROVE  PriceInv'
<1> DEFINE E == ModelsOf(rows, Entered(rows))
           C == ModelsOf(rows, Completed(rows))
           Row(m) == RowOf(rows, m)
           New(m) == Merged(Row(m))
<1>1. C \subseteq E
  BY DEF ModelsOf, Completed
<1>2. \A m \in E : /\ Row(m) \in CallerRow /\ Row(m).model = m /\ ~ Invalid(Row(m))
                   /\ m \in C <=> DOMAIN New(m).flat = RateKey
  BY RowEntered DEF RegisterRates
<1>3. \A m \in E :
        /\ IsRow(New(m)) /\ m \in Model
        /\ m \in C => MergedRates(Row(m)) \in [RateKey -> Int]
        /\ New(m).tiers = <<>> => m \in C
        /\ New(m).tiers # <<>> => m \in DOMAIN Shipped /\ New(m).tiers = Shipped[m].tiers
        /\ m \notin C => m \in DOMAIN pricing /\ m \notin DOMAIN rates
  BY <1>2, EnteredRow
<1>4. /\ DOMAIN pricing' = DOMAIN pricing \cup E
      /\ \A m \in E : pricing'[m] = New(m)
      /\ \A m \in DOMAIN pricing \ E : pricing'[m] = pricing[m]
  BY DEF RegisterRates
<1>5. /\ DOMAIN rates' = DOMAIN rates \cup C
      /\ \A m \in C : rates'[m] = New(m).flat
      /\ \A m \in DOMAIN rates \ C : rates'[m] = rates[m]
  BY DEF RegisterRates, MergedRates
<1>6. overridden' = overridden \cup C /\ raised' \in BOOLEAN
  BY DEF RegisterRates
<1>7. \A m \in C : New(m).flat \in [RateKey -> Int]
  BY <1>1, <1>3 DEF MergedRates
<1> HIDE DEF E, C, New, Row
<1>8. TypeOK'
  <2>1. DOMAIN pricing \subseteq Model /\ \A m \in DOMAIN pricing : IsRow(pricing[m])
    BY DEF PriceInv, TypeOK
  <2>2. /\ DOMAIN rates \subseteq DOMAIN pricing /\ overridden \subseteq DOMAIN rates
        /\ \A m \in DOMAIN rates : rates[m] \in [RateKey -> Int]
    BY DEF PriceInv, TypeOK
  <2>3. DOMAIN pricing' \subseteq Model
    BY <1>3, <1>4, <2>1
  <2>4. \A m \in DOMAIN pricing' : IsRow(pricing'[m])
    BY <1>3, <1>4, <2>1
  <2>5. DOMAIN rates' \subseteq DOMAIN pricing' /\ overridden' \subseteq DOMAIN rates'
    BY <1>1, <1>4, <1>5, <1>6, <2>2
  <2>6. \A m \in DOMAIN rates' : rates'[m] \in [RateKey -> Int]
    BY <1>5, <1>7, <2>2
  <2> QED BY <1>6, <2>3, <2>4, <2>5, <2>6 DEF TypeOK
<1>9. RatesAreMerged'
  <2> SUFFICES ASSUME NEW m \in DOMAIN pricing'
               PROVE  /\ m \in DOMAIN rates' <=> DOMAIN pricing'[m].flat = RateKey
                      /\ m \in DOMAIN rates' => rates'[m] = pricing'[m].flat
    BY DEF RatesAreMerged
  <2>1. CASE m \in C
    BY <1>1, <1>4, <1>5, <1>7, <2>1
  <2>2. CASE m \in E \ C
    <3>1. DOMAIN New(m).flat # RateKey
      BY <1>2, <2>2 DEF New
    <3> QED BY <1>3, <1>4, <1>5, <2>2, <3>1
  <2>3. CASE m \notin E
    <3>1. /\ m \in DOMAIN rates <=> DOMAIN pricing[m].flat = RateKey
          /\ m \in DOMAIN rates => rates[m] = pricing[m].flat
      BY <1>4, <2>3 DEF PriceInv, RatesAreMerged
    <3> QED BY <1>1, <1>4, <1>5, <2>3, <3>1
  <2> QED BY <2>1, <2>2, <2>3
<1>10. RowsAreShipped'
  <2>1. RowsAreShipped
    BY DEF PriceInv
  <2>2. DOMAIN Shipped \subseteq DOMAIN pricing'
    BY <1>4, <2>1 DEF RowsAreShipped
  <2>3. ASSUME NEW m \in DOMAIN pricing'
        PROVE  IF pricing'[m].tiers = <<>> THEN m \in DOMAIN rates'
               ELSE m \in DOMAIN Shipped /\ pricing'[m].tiers = Shipped[m].tiers
    <3>1. CASE m \in E
      BY <1>3, <1>4, <1>5, <3>1
    <3>2. CASE m \notin E
      <4>1. pricing'[m] = pricing[m] /\ m \in DOMAIN pricing
        BY <1>4, <3>2
      <4> QED BY <1>5, <2>1, <4>1 DEF RowsAreShipped
    <3> QED BY <3>1, <3>2
  <2>4. ASSUME NEW m \in DOMAIN pricing' \ overridden'
        PROVE  /\ m \in DOMAIN Shipped /\ pricing'[m].tiers = Shipped[m].tiers
               /\ IF pricing'[m].tiers = <<>> THEN pricing'[m].flat = Shipped[m].flat
                  ELSE m \notin DOMAIN rates'
    <3>1. m \notin C /\ m \notin overridden
      BY <1>6
    <3>2. CASE m \in E
      <4>1. pricing'[m].tiers # <<>> /\ m \notin DOMAIN rates'
        BY <1>3, <1>4, <1>5, <3>1, <3>2
      <4> QED BY <2>3, <4>1
    <3>3. CASE m \notin E
      <4>1. pricing'[m] = pricing[m] /\ m \in DOMAIN pricing \ overridden
        BY <1>4, <3>1, <3>3
      <4>2. m \in DOMAIN rates' <=> m \in DOMAIN rates
        BY <1>5, <3>1
      <4> QED BY <2>1, <4>1, <4>2 DEF RowsAreShipped
    <3> QED BY <3>2, <3>3
  <2> QED BY <2>2, <2>3, <2>4 DEF RowsAreShipped
<1> QED BY <1>8, <1>9, <1>10 DEF PriceInv

\* reset_overrides does, too.
LEMMA ResetKeeps ==
    ASSUME PriceInv, ResetOverrides
    PROVE  PriceInv'
<1>1. TypeOK /\ RatesAreMerged /\ RowsAreShipped
  BY DEF PriceInv
<1>2. /\ DOMAIN pricing' = DOMAIN pricing \ (overridden \ DOMAIN Shipped)
      /\ \A m \in DOMAIN pricing' :
            pricing'[m] = IF m \in overridden THEN Shipped[m] ELSE pricing[m]
  BY DEF ResetOverrides
<1>3. DOMAIN Projection(Shipped) = {m \in DOMAIN Shipped : Shipped[m].tiers = <<>>}
  BY DEF Projection
<1>4. /\ DOMAIN rates' = (DOMAIN rates \ overridden)
                           \cup (overridden \cap {m \in DOMAIN Shipped : Shipped[m].tiers = <<>>})
      /\ \A m \in DOMAIN rates' : rates'[m] = IF m \in overridden THEN Shipped[m].flat ELSE rates[m]
  BY <1>3 DEF ResetOverrides
<1>5. overridden' = {} /\ raised' \in BOOLEAN
  BY DEF ResetOverrides
<1>6. \A m \in DOMAIN Shipped :
        /\ IsRow(Shipped[m]) /\ m \in Model
        /\ Shipped[m].tiers = <<>> => DOMAIN Shipped[m].flat = RateKey
        /\ Shipped[m].tiers # <<>> => DOMAIN Shipped[m].flat # RateKey
  BY ShippedRow
<1>7. \A m \in DOMAIN Shipped :
        Shipped[m].tiers = <<>> => Shipped[m].flat \in [RateKey -> Int]
  BY <1>6, FullRow DEF IsRow
<1>8. TypeOK'
  BY <1>1, <1>2, <1>4, <1>5, <1>6, <1>7 DEF TypeOK, RowsAreShipped
<1>9. RatesAreMerged'
  BY <1>1, <1>2, <1>4, <1>6 DEF RatesAreMerged, RowsAreShipped, TypeOK
<1>10. RowsAreShipped'
  BY <1>1, <1>2, <1>4, <1>5, <1>6 DEF RowsAreShipped, TypeOK
<1> QED BY <1>8, <1>9, <1>10 DEF PriceInv

\* A fresh process has the tables as shipped.
LEMMA InitPrice == Init => PriceInv
<1> SUFFICES ASSUME Init PROVE PriceInv
  OBVIOUS
<1>1. /\ pricing = Shipped /\ overridden = {} /\ raised = FALSE
      /\ DOMAIN rates = {m \in DOMAIN Shipped : Shipped[m].tiers = <<>>}
      /\ \A m \in DOMAIN rates : rates[m] = Shipped[m].flat
  BY DEF Init, Projection
<1>2. \A m \in DOMAIN Shipped :
        /\ IsRow(Shipped[m]) /\ m \in Model
        /\ Shipped[m].tiers = <<>> => DOMAIN Shipped[m].flat = RateKey
        /\ Shipped[m].tiers # <<>> => DOMAIN Shipped[m].flat # RateKey
  BY ShippedRow
<1>3. \A m \in DOMAIN Shipped :
        Shipped[m].tiers = <<>> => Shipped[m].flat \in [RateKey -> Int]
  BY <1>2, FullRow DEF IsRow
<1>4. TypeOK
  BY <1>1, <1>2, <1>3 DEF TypeOK
<1>5. RatesAreMerged /\ RowsAreShipped
  BY <1>1, <1>2 DEF RatesAreMerged, RowsAreShipped
<1> QED BY <1>4, <1>5 DEF PriceInv

\* No registration and no reset disturbs the tables, whether it raises or not.
LEMMA NextKeepsPrice ==
    ASSUME PriceInv, Next
    PROVE  PriceInv'
<1>1. ASSUME NEW rows \in Registration, RegisterInvalid(rows) PROVE PriceInv'
  BY <1>1 DEF RegisterInvalid, tables, PriceInv, TypeOK, RatesAreMerged, RowsAreShipped
<1> QED BY <1>1, RegisterKeeps, ResetKeeps DEF Next

-----------------------------------------------------------------------------
(* What the tables bill *)

\* A model of the registry is billed by its flat rates, or by a valid schedule.
LEMMA Billed ==
    ASSUME PriceInv, NEW m \in DOMAIN pricing
    PROVE  /\ pricing[m].tiers = <<>> => m \in DOMAIN rates
           /\ m \in DOMAIN rates => /\ rates[m] = pricing[m].flat /\ rates[m] # NoRates
                                    /\ rates[m] \in [RateKey -> Int]
           /\ pricing[m].tiers # <<>> =>
                 /\ m \in DOMAIN Shipped /\ pricing[m].tiers = Shipped[m].tiers
                 /\ pricing[m].tiers \in Seq(TierType) /\ ValidTiers(pricing[m].tiers)
<1>1. pricing[m].tiers = <<>> => m \in DOMAIN rates
  BY DEF PriceInv, RowsAreShipped
<1>2. m \in DOMAIN rates => rates[m] = pricing[m].flat /\ rates[m] \in [RateKey -> Int]
  BY DEF PriceInv, RatesAreMerged, TypeOK
<1>3. m \in DOMAIN rates => rates[m] # NoRates
  <2>1. m \in DOMAIN rates => IsRateRow(rates[m]) /\ DOMAIN rates[m] = RateKey
    BY <1>2 DEF IsRateRow
  <2> QED BY <2>1, FullRow
<1>4. ASSUME pricing[m].tiers # <<>>
      PROVE  /\ m \in DOMAIN Shipped /\ pricing[m].tiers = Shipped[m].tiers
             /\ pricing[m].tiers \in Seq(TierType) /\ ValidTiers(pricing[m].tiers)
  <2>1. m \in DOMAIN Shipped /\ pricing[m].tiers = Shipped[m].tiers
    BY <1>4 DEF PriceInv, RowsAreShipped
  <2>2. pricing[m].tiers \in Seq(TierType)
    BY DEF PriceInv, TypeOK, IsRow, TierType
  <2> QED BY <1>4, <2>1, <2>2, ShippedRow
<1> QED BY <1>1, <1>2, <1>3, <1>4

\* A prompt of a tiered model is billed at some rates.
LEMMA TierCharges ==
    ASSUME NEW tiers \in Seq(TierType), ValidTiers(tiers), NEW size \in Nat
    PROVE  Tier(tiers, size) # NoRates
<1>1. PICK i \in 1..Len(tiers) : Tier(tiers, size) = tiers[i].rate
  BY TierFirst
<1>2. tiers[i] \in TierType
  OBVIOUS
<1>3. tiers[i].rate \in [RateKey -> Int]
  BY <1>2 DEF TierType
<1>4. DOMAIN tiers[i].rate = RateKey /\ Input \in RateKey
  BY <1>3, ShippedAssumption
<1>5. DOMAIN NoRates = {}
  BY DEF NoRates
<1> QED BY <1>1, <1>4, <1>5

LEMMA SizeIsNat == Size \subseteq Nat
BY ShippedAssumption DEF Size

\* The gate and the calculator agree.
LEMMA GateAgrees == PriceInv => GateMatchesCost
<1> SUFFICES ASSUME PriceInv, NEW m \in Model, NEW size \in Size
             PROVE  m \in DOMAIN pricing <=> RatesFor(m, size) # NoRates
  BY DEF GateMatchesCost, IsPriced
<1>1. size \in Nat
  BY SizeIsNat
<1>2. CASE m \notin DOMAIN pricing
  <2>1. m \notin DOMAIN rates
    BY <1>2 DEF PriceInv, TypeOK
  <2> QED BY <1>2, <2>1 DEF RatesFor
<1>3. CASE m \in DOMAIN rates
  <2>1. m \in DOMAIN pricing
    BY <1>3 DEF PriceInv, TypeOK
  <2> QED BY <1>3, <2>1, Billed DEF RatesFor
<1>4. CASE m \in DOMAIN pricing /\ m \notin DOMAIN rates
  <2>1. /\ pricing[m].tiers # <<>>
        /\ pricing[m].tiers \in Seq(TierType) /\ ValidTiers(pricing[m].tiers)
    BY <1>4, Billed
  <2>2. Tier(pricing[m].tiers, size) # NoRates
    BY <1>1, <2>1, TierCharges
  <2> QED BY <1>4, <2>1, <2>2 DEF RatesFor
<1> QED BY <1>2, <1>3, <1>4

\* The registry, its projection and the catalogue agree.
LEMMA TablesDoAgree == PriceInv => TablesAgree
<1> SUFFICES ASSUME PriceInv, NEW m \in Model
             PROVE  /\ m \in DOMAIN rates
                         <=> m \in DOMAIN pricing /\ DOMAIN pricing[m].flat = RateKey
                    /\ m \in DOMAIN rates => rates[m] = pricing[m].flat
                    /\ m \in DOMAIN pricing \ overridden => Listed(m) = RatesFor(m, 0)
  BY DEF TablesAgree
<1>1. /\ m \in DOMAIN rates <=> m \in DOMAIN pricing /\ DOMAIN pricing[m].flat = RateKey
      /\ m \in DOMAIN rates => rates[m] = pricing[m].flat
  BY DEF PriceInv, TypeOK, RatesAreMerged
<1>2. ASSUME m \in DOMAIN pricing \ overridden
      PROVE  Listed(m) = RatesFor(m, 0)
  <2>1. CASE pricing[m].tiers = <<>>
    BY <1>2, <2>1, Billed DEF Listed, RatesFor
  <2>2. CASE pricing[m].tiers # <<>>
    <3> DEFINE tiers == pricing[m].tiers
    <3>1. m \notin DOMAIN rates
      BY <1>2, <2>2 DEF PriceInv, RowsAreShipped
    <3>2. tiers \in Seq(TierType) /\ ValidTiers(tiers)
      BY <1>2, <2>2, Billed
    <3> HIDE DEF tiers
    <3>3. PICK i \in 1..Len(tiers) :
             /\ Tier(tiers, 0) = tiers[i].rate
             /\ \A j \in 1..Len(tiers) : tiers[j].open \/ 0 <= tiers[j].upto => i <= j
      BY <3>2, TierFirst
    <3>4. 1 \in 1..Len(tiers) /\ tiers[1] \in TierType
      BY <3>2 DEF ValidTiers
    <3>5. 0 <= tiers[1].upto
      BY <3>4 DEF TierType
    <3>6. i = 1
      BY <3>2, <3>3, <3>4, <3>5
    <3>7. Tier(tiers, 0) = tiers[1].rate
      BY <3>3, <3>6
    <3> QED BY <1>2, <2>2, <3>1, <3>7 DEF Listed, RatesFor, tiers
  <2> QED BY <2>1, <2>2
<1> QED BY <1>1, <1>2

\* The first tier that holds a prompt is the cheapest band that does.
LEMMA FirstIsCheapest ==
    ASSUME NEW tiers \in Seq(TierType), ValidTiers(tiers), NEW size \in Nat
    PROVE  LET bands == {t \in Range(tiers) : t.open \/ t.upto >= size}
           IN  Tier(tiers, size) =
                 (CHOOSE t \in bands :
                     \A u \in bands : u.open \/ (~ t.open /\ t.upto <= u.upto)).rate
<1> DEFINE n == Len(tiers)
           bands == {t \in Range(tiers) : t.open \/ t.upto >= size}
           Cheapest(t) == \A u \in bands : u.open \/ (~ t.open /\ t.upto <= u.upto)
<1>1. PICK i \in 1..n :
         /\ Tier(tiers, size) = tiers[i].rate
         /\ tiers[i].open \/ size <= tiers[i].upto
         /\ \A j \in 1..n : tiers[j].open \/ size <= tiers[j].upto => i <= j
  BY TierFirst
<1>2. /\ n \in Nat /\ \A j \in 1..n : tiers[j] \in TierType
      /\ DOMAIN tiers = 1..n
  OBVIOUS
<1>3. \A j \in 1..n : tiers[j].upto \in Nat /\ (tiers[j].open <=> j = n)
  <2>1. \A j \in 1..n : tiers[j].open <=> j = n
    BY DEF ValidTiers
  <2>2. \A j \in 1..n : tiers[j].upto \in Nat
    BY <1>2 DEF TierType
  <2> QED BY <2>1, <2>2
<1>4. /\ tiers[i] \in bands
      /\ \A u \in bands : \E j \in 1..n : u = tiers[j] /\ i <= j
  <2>1. tiers[i] \in Range(tiers) /\ \A u \in Range(tiers) : \E j \in 1..n : u = tiers[j]
    BY <1>2 DEF Range
  <2>2. \A j \in 1..n : tiers[j].upto >= size <=> size <= tiers[j].upto
    BY <1>3
  <2> QED BY <1>1, <2>1, <2>2
<1>n. n \in Nat /\ n = Len(tiers)
  BY <1>2
<1> HIDE DEF n
<1>5. \A j \in 1..n : i < j /\ j # n => tiers[i].upto < tiers[j].upto
  <2> SUFFICES ASSUME NEW j \in 1..n, i < j, j # n
               PROVE  tiers[i].upto < tiers[j].upto
    OBVIOUS
  <2>1. i \in 1..n - 1 /\ j \in 1..n - 1
    BY <1>n
  <2> QED BY <1>n, <2>1, TiersAscend
<1> HIDE DEF bands
<1>6. Cheapest(tiers[i])
  <2> SUFFICES ASSUME NEW u \in bands, ~ u.open
               PROVE  ~ tiers[i].open /\ tiers[i].upto <= u.upto
    OBVIOUS
  <2>1. PICK j \in 1..n : u = tiers[j] /\ i <= j
    BY <1>4
  <2>2. j # n /\ i # n
    BY <1>n, <1>3, <2>1
  <2>3. ~ tiers[i].open
    BY <1>3, <2>2
  <2>4. tiers[i].upto <= tiers[j].upto
    BY <1>3, <1>5, <2>1, <2>2
  <2> QED BY <2>1, <2>3, <2>4
<1>7. ASSUME NEW t \in bands, Cheapest(t)
      PROVE  t = tiers[i]
  <2>1. PICK j \in 1..n : t = tiers[j] /\ i <= j
    BY <1>4
  <2>2. tiers[i].open \/ (~ t.open /\ t.upto <= tiers[i].upto)
    BY <1>4, <1>7
  <2>3. CASE i < j
    <3>1. i # n
      BY <1>n, <2>3
    <3>2. j # n /\ tiers[j].upto <= tiers[i].upto
      BY <1>3, <2>1, <2>2, <3>1
    <3>3. tiers[i].upto < tiers[j].upto
      BY <1>5, <2>3, <3>2
    <3> QED BY <1>3, <3>2, <3>3
  <2>4. CASE i = j
    BY <2>1, <2>4
  <2> QED BY <2>1, <2>3, <2>4
<1>8. (CHOOSE t \in bands : Cheapest(t)) = tiers[i]
  <2> HIDE DEF Cheapest
  <2> QED BY <1>4, <1>6, <1>7
<1> QED BY <1>1, <1>8 DEF bands

\* With no override, every model is billed as shipped.
LEMMA ShippedBilled == PriceInv => ShippedBillingRestored
<1> SUFFICES ASSUME PriceInv, overridden = {}, NEW m \in Model, NEW size \in Size
             PROVE  RatesFor(m, size) = ShippedRatesFor(m, size)
  BY DEF ShippedBillingRestored
<1>1. size \in Nat
  BY SizeIsNat
<1>2. /\ DOMAIN pricing = DOMAIN Shipped
      /\ \A x \in DOMAIN pricing :
            /\ pricing[x].tiers = Shipped[x].tiers
            /\ IF pricing[x].tiers = <<>> THEN pricing[x].flat = Shipped[x].flat
               ELSE x \notin DOMAIN rates
  BY DEF PriceInv, RowsAreShipped
<1>3. CASE m \notin DOMAIN Shipped
  <2>1. m \notin DOMAIN pricing /\ m \notin DOMAIN rates
    BY <1>2, <1>3 DEF PriceInv, TypeOK
  <2> QED BY <1>3, <2>1 DEF RatesFor, ShippedRatesFor
<1>4. CASE m \in DOMAIN Shipped /\ Shipped[m].tiers = <<>>
  BY <1>2, <1>4, Billed DEF RatesFor, ShippedRatesFor
<1>5. CASE m \in DOMAIN Shipped /\ Shipped[m].tiers # <<>>
  <2>1. /\ m \in DOMAIN pricing /\ m \notin DOMAIN rates
        /\ pricing[m].tiers = Shipped[m].tiers
    BY <1>2, <1>5
  <2>2. Shipped[m].tiers \in Seq(TierType) /\ ValidTiers(Shipped[m].tiers)
    BY <1>5, <2>1, Billed
  <2>3. RatesFor(m, size) = Tier(Shipped[m].tiers, size)
    BY <1>5, <2>1 DEF RatesFor
  <2>4. Tier(Shipped[m].tiers, size) = ShippedRatesFor(m, size)
    BY <1>1, <1>5, <2>2, FirstIsCheapest DEF ShippedRatesFor
  <2> QED BY <2>3, <2>4
<1> QED BY <1>3, <1>4, <1>5

-----------------------------------------------------------------------------
(* Sums *)

\* MapThenSumSet over a set is a function on its subsets that adds, to the value at
\* one element, its own value at the rest: Right says so of a function, Sum chooses one.
Step(F, g, s) ==
    IF s = {} THEN 0 ELSE LET x == CHOOSE x \in s : TRUE IN F[x] + g[s \ {x}]
Right(F, S, g) == g = [s \in SUBSET S |-> Step(F, g, s)]
Sum(F, S) == (CHOOSE g : Right(F, S, g))[S]

\* There is such a function: the one that is right on the sets of n elements is right on
\* those of n + 1 after one more step.
LEMMA RightExists ==
    ASSUME NEW S, IsFiniteSet(S), NEW F, \A x \in S : F[x] \in Int
    PROVE  \E g \in [SUBSET S -> Int] : Right(F, S, g)
<1> DEFINE Upto(n, g) == \A s \in SUBSET S : Cardinality(s) <= n => g[s] = Step(F, g, s)
           Wrong == {n \in Nat : ~ \E g \in [SUBSET S -> Int] : Upto(n, g)}
           Next1(g) == [s \in SUBSET S |-> Step(F, g, s)]
<1>1. \A s \in SUBSET S : IsFiniteSet(s) /\ Cardinality(s) \in Nat
                          /\ Cardinality(s) <= Cardinality(S)
  BY FS_Subset, FS_CardinalityType
<1>2. \A s \in SUBSET S : s # {} =>
        /\ (CHOOSE x \in s : TRUE) \in s
        /\ s \ {CHOOSE x \in s : TRUE} \in SUBSET S
        /\ Cardinality(s \ {CHOOSE x \in s : TRUE}) = Cardinality(s) - 1
  BY <1>1, FS_RemoveElement
<1>3. \A s \in SUBSET S : Cardinality(s) = 0 <=> s = {}
  BY <1>1, FS_EmptySet
<1>4. ASSUME NEW g \in [SUBSET S -> Int] PROVE Next1(g) \in [SUBSET S -> Int]
  BY <1>2 DEF Step
<1>5. ASSUME NEW n \in Nat, NEW g \in [SUBSET S -> Int], Upto(n, g)
      PROVE  Upto(n + 1, Next1(g))
  <2> SUFFICES ASSUME NEW s \in SUBSET S, Cardinality(s) <= n + 1
               PROVE  Step(F, g, s) = Step(F, Next1(g), s)
    OBVIOUS
  <2>1. CASE s = {}
    BY <2>1 DEF Step
  <2>2. CASE s # {}
    <3> DEFINE x == CHOOSE x \in s : TRUE
    <3>1. s \ {x} \in SUBSET S /\ Cardinality(s \ {x}) <= n
      BY <1>1, <1>2, <2>2
    <3>2. g[s \ {x}] = Step(F, g, s \ {x})
      BY <1>5, <3>1
    <3>3. Next1(g)[s \ {x}] = g[s \ {x}]
      BY <3>1, <3>2
    <3> HIDE DEF Next1
    <3> QED BY <2>2, <3>3 DEF Step
  <2> QED BY <2>1, <2>2
<1>6. \E g \in [SUBSET S -> Int] : Upto(0, g)
  <2> DEFINE g == [s \in SUBSET S |-> 0]
  <2>1. g \in [SUBSET S -> Int] /\ \A s \in SUBSET S : s = {} => g[s] = Step(F, g, s)
    BY DEF Step
  <2>2. Upto(0, g)
    BY <1>1, <1>3, <2>1
  <2> QED BY <2>1, <2>2
<1>7. Wrong = {}
  <2> SUFFICES ASSUME Wrong # {} PROVE FALSE
    OBVIOUS
  <2>1. PICK n \in Wrong : \A k \in Wrong : n <= k
    <3>1. Wrong \subseteq Nat
      OBVIOUS
    <3> HIDE DEF Wrong
    <3> QED BY <3>1, LeastElement
  <2>2. n \in Nat /\ ~ \E g \in [SUBSET S -> Int] : Upto(n, g)
    OBVIOUS
  <2>3. n - 1 \in Nat
    <3>1. n # 0
      BY <1>6, <2>2
    <3> QED BY <2>2, <3>1
  <2>4. n - 1 \notin Wrong
    <3> HIDE DEF Wrong
    <3> QED BY <2>1, <2>2, <2>3
  <2>5. PICK g \in [SUBSET S -> Int] : Upto(n - 1, g)
    <3> HIDE DEF Upto
    <3> QED BY <2>3, <2>4
  <2>6. n - 1 + 1 = n
    BY <2>2
  <2> HIDE DEF Upto, Next1
  <2> QED BY <1>4, <1>5, <2>2, <2>3, <2>5, <2>6
<1>8. PICK g \in [SUBSET S -> Int] : Upto(Cardinality(S), g)
  <2>1. Cardinality(S) \in Nat
    BY <1>1
  <2> HIDE DEF Upto
  <2> QED BY <1>7, <2>1
<1>9. \A s \in SUBSET S : g[s] = Step(F, g, s)
  BY <1>1, <1>8
<1> QED BY <1>9 DEF Right

\* And only one, also of the functions on the subsets of a part.
LEMMA RightUnique ==
    ASSUME NEW S, IsFiniteSet(S), NEW F, NEW P \in SUBSET S,
           NEW g, Right(F, S, g), NEW h, Right(F, P, h)
    PROVE  \A s \in SUBSET P : h[s] = g[s]
<1> DEFINE Wrong == {s \in SUBSET P : h[s] # g[s]}
           Sizes == {Cardinality(s) : s \in Wrong}
<1>1. SUFFICES ASSUME Wrong # {} PROVE FALSE
  OBVIOUS
<1>2. \A s \in SUBSET P : s \in SUBSET S /\ IsFiniteSet(s) /\ Cardinality(s) \in Nat
  BY FS_Subset, FS_CardinalityType
<1>3. Sizes \subseteq Nat /\ Sizes # {}
  BY <1>1, <1>2
<1>4. PICK n \in Sizes : \A k \in Sizes : n <= k
  <2> HIDE DEF Sizes
  <2> QED BY <1>3, LeastElement
<1>5. PICK s \in Wrong : n = Cardinality(s)
  OBVIOUS
<1>6. s \in SUBSET P /\ h[s] # g[s]
  OBVIOUS
<1>7. g[s] = Step(F, g, s) /\ h[s] = Step(F, h, s)
  <2>1. \A t \in SUBSET S : g[t] = Step(F, g, t)
    BY Zenon DEF Right
  <2>2. \A t \in SUBSET P : h[t] = Step(F, h, t)
    BY Zenon DEF Right
  <2> QED BY <1>2, <1>6, <2>1, <2>2
<1>8. s # {}
  BY <1>6, <1>7 DEF Step
<1> DEFINE x == CHOOSE x \in s : TRUE
<1>9. x \in s /\ Cardinality(s \ {x}) = Cardinality(s) - 1 /\ s \ {x} \in SUBSET P
  BY <1>2, <1>6, <1>8, FS_RemoveElement
<1>10. s \ {x} \notin Wrong
  <2>1. ~ (n <= Cardinality(s \ {x})) /\ Cardinality(s) \in Nat
    BY <1>2, <1>5, <1>6, <1>9
  <2>2. s \ {x} \in Wrong => Cardinality(s \ {x}) \in Sizes
    OBVIOUS
  <2> HIDE DEF Wrong, Sizes
  <2> QED BY <1>4, <2>1, <2>2
<1>11. h[s \ {x}] = g[s \ {x}]
  BY <1>9, <1>10
<1> QED BY <1>6, <1>7, <1>8, <1>11 DEF Step

\* A sum is a number, and can be taken apart at the element CHOOSE takes.
LEMMA SumApart ==
    ASSUME NEW S, IsFiniteSet(S), NEW F, \A x \in S : F[x] \in Int
    PROVE  /\ Sum(F, S) \in Int
           /\ S = {} => Sum(F, S) = 0
           /\ S # {} => LET x == CHOOSE x \in S : TRUE
                        IN  Sum(F, S) = F[x] + Sum(F, S \ {x})
<1>1. PICK g \in [SUBSET S -> Int] : Right(F, S, g)
  BY RightExists
<1>2. ASSUME NEW P \in SUBSET S PROVE Sum(F, P) = g[P]
  <2>1. IsFiniteSet(P) /\ \A x \in P : F[x] \in Int
    BY FS_Subset
  <2>2. \E h : Right(F, P, h)
    BY <2>1, RightExists
  <2>3. PICK h : h = CHOOSE k : Right(F, P, k)
    OBVIOUS
  <2>4. Right(F, P, h)
    BY <2>2, <2>3, Zenon
  <2>5. h[P] = g[P]
    BY <1>1, <2>4, RightUnique
  <2> QED BY <2>3, <2>5 DEF Sum
<1>3. g[S] = Step(F, g, S)
  <2>1. \A t \in SUBSET S : g[t] = Step(F, g, t)
    BY <1>1, Zenon DEF Right
  <2> QED BY <2>1
<1>4. Sum(F, S) = g[S] /\ g[S] \in Int
  BY <1>1, <1>2
<1>5. ASSUME S # {}, NEW x, x = CHOOSE y \in S : TRUE
      PROVE  Sum(F, S) = F[x] + Sum(F, S \ {x})
  <2>1. Sum(F, S \ {x}) = g[S \ {x}]
    BY <1>2
  <2> QED BY <1>3, <1>4, <1>5, <2>1 DEF Step
<1> QED BY <1>3, <1>4, <1>5 DEF Step

\* A sum can be taken apart at any element: at the one CHOOSE takes and then at the
\* other, or the other way round.
LEMMA SumRemove ==
    ASSUME NEW S, IsFiniteSet(S), NEW F, \A x \in S : F[x] \in Int, NEW e \in S
    PROVE  Sum(F, S) = F[e] + Sum(F, S \ {e})
<1> DEFINE Apart(T) == \A x \in T : Sum(F, T) = F[x] + Sum(F, T \ {x})
           Wrong == {T \in SUBSET S : ~ Apart(T)}
           Sizes == {Cardinality(T) : T \in Wrong}
<1>1. SUFFICES ASSUME Wrong # {} PROVE FALSE
  OBVIOUS
<1>2. \A T \in SUBSET S : IsFiniteSet(T) /\ Cardinality(T) \in Nat
  BY FS_Subset, FS_CardinalityType
<1>3. Sizes \subseteq Nat /\ Sizes # {}
  <2> HIDE DEF Apart
  <2> QED BY <1>1, <1>2
<1>4. PICK n \in Sizes : \A k \in Sizes : n <= k
  <2> HIDE DEF Sizes
  <2> QED BY <1>3, LeastElement
<1>5. PICK T \in Wrong : n = Cardinality(T)
  <2> HIDE DEF Wrong
  <2> QED OBVIOUS
<1>6. T \in SUBSET S /\ ~ Apart(T)
  <2> HIDE DEF Apart
  <2> QED OBVIOUS
<1>7. ASSUME NEW R \in SUBSET S, Cardinality(R) < Cardinality(T) PROVE Apart(R)
  <2>1. ~ (n <= Cardinality(R))
    BY <1>2, <1>5, <1>6, <1>7
  <2>2. R \in Wrong => Cardinality(R) \in Sizes
    OBVIOUS
  <2>3. R \notin Wrong
    <3> HIDE DEF Wrong, Sizes
    <3> QED BY <1>4, <2>1, <2>2
  <2> HIDE DEF Apart
  <2> QED BY <2>3
<1>8. PICK x \in T : Sum(F, T) # F[x] + Sum(F, T \ {x})
  BY <1>6
<1>9. PICK c : c = CHOOSE y \in T : TRUE
  OBVIOUS
<1>10. c \in T /\ x \in S /\ c \in S /\ Sum(F, T) = F[c] + Sum(F, T \ {c})
  BY <1>2, <1>6, <1>9, SumApart
<1>11. c # x
  BY <1>8, <1>10
<1>12. \A y \in T : /\ T \ {y} \in SUBSET S /\ Cardinality(T \ {y}) < Cardinality(T)
                    /\ IsFiniteSet(T \ {y})
  BY <1>2, <1>6, FS_RemoveElement
<1>13. Sum(F, T \ {c}) = F[x] + Sum(F, (T \ {c}) \ {x})
  <2>1. Apart(T \ {c}) /\ x \in T \ {c}
    BY <1>7, <1>10, <1>11, <1>12
  <2> QED BY <2>1
<1>14. Sum(F, T \ {x}) = F[c] + Sum(F, (T \ {x}) \ {c})
  <2>1. Apart(T \ {x}) /\ c \in T \ {x}
    BY <1>7, <1>8, <1>10, <1>11, <1>12
  <2> QED BY <2>1
<1>15. PICK R : R = (T \ {c}) \ {x} /\ R = (T \ {x}) \ {c}
  OBVIOUS
<1>16. Sum(F, R) \in Int /\ F[x] \in Int /\ F[c] \in Int
  <2>1. IsFiniteSet(R) /\ \A y \in R : F[y] \in Int
    BY <1>2, <1>6, <1>15
  <2> QED BY <2>1, <1>10, SumApart
<1>17. Sum(F, T \ {c}) = F[x] + Sum(F, R) /\ Sum(F, T \ {x}) = F[c] + Sum(F, R)
  BY <1>13, <1>14, <1>15, Zenon
<1>18. F[c] + (F[x] + Sum(F, R)) = F[x] + (F[c] + Sum(F, R))
  BY <1>16
<1> QED BY <1>8, <1>10, <1>17, <1>18, Zenon

\* Where a function is zero, the sum may leave its elements out.
LEMMA SumPart ==
    ASSUME NEW S, IsFiniteSet(S), NEW F, \A x \in S : F[x] \in Int,
           NEW P \in SUBSET S, \A x \in S \ P : F[x] = 0
    PROVE  Sum(F, S) = Sum(F, P)
<1> DEFINE Wrong == {T \in SUBSET S : P \subseteq T /\ Sum(F, T) # Sum(F, P)}
           Sizes == {Cardinality(T) : T \in Wrong}
<1>1. SUFFICES ASSUME Wrong # {} PROVE FALSE
  OBVIOUS
<1>2. \A T \in SUBSET S : IsFiniteSet(T) /\ Cardinality(T) \in Nat
  BY FS_Subset, FS_CardinalityType
<1>3. Sizes \subseteq Nat /\ Sizes # {}
  BY <1>1, <1>2
<1>4. PICK n \in Sizes : \A k \in Sizes : n <= k
  <2> HIDE DEF Sizes
  <2> QED BY <1>3, LeastElement
<1>5. PICK T \in Wrong : n = Cardinality(T)
  OBVIOUS
<1>6. T \in SUBSET S /\ P \subseteq T /\ Sum(F, T) # Sum(F, P)
  OBVIOUS
<1>7. PICK e \in T : e \notin P
  BY <1>6
<1>8. Cardinality(T \ {e}) < Cardinality(T) /\ T \ {e} \in SUBSET S /\ P \subseteq T \ {e}
  BY <1>2, <1>6, <1>7, FS_RemoveElement
<1>9. T \ {e} \notin Wrong
  <2>1. ~ (n <= Cardinality(T \ {e}))
    BY <1>2, <1>5, <1>6, <1>8
  <2>2. T \ {e} \in Wrong => Cardinality(T \ {e}) \in Sizes
    OBVIOUS
  <2> HIDE DEF Wrong, Sizes
  <2> QED BY <1>4, <2>1, <2>2
<1>10. Sum(F, T \ {e}) = Sum(F, P)
  BY <1>8, <1>9
<1>11. Sum(F, T) = F[e] + Sum(F, T \ {e})
  BY <1>2, <1>6, SumRemove
<1>12. F[e] = 0 /\ Sum(F, P) \in Int
  <2>1. IsFiniteSet(P) /\ \A x \in P : F[x] \in Int
    BY <1>2
  <2> QED BY <1>6, <1>7, <2>1, SumApart
<1> QED BY <1>6, <1>10, <1>11, <1>12

\* MapThenSumSet of products, its definition expanded, is such a sum, of any function
\* that has the products for its values.
ProductStep(a, b, g, s) ==
    IF s = {} THEN 0 ELSE LET x == CHOOSE x \in s : TRUE IN a[x] * b[x] + g[s \ {x}]
ProductRight(a, b, S, g) == g = [s \in SUBSET S |-> ProductStep(a, b, g, s)]

LEMMA SumOfProducts ==
    ASSUME NEW a, NEW b, NEW S, NEW F, \A t \in S : F[t] = a[t] * b[t]
    PROVE  (CHOOSE g : ProductRight(a, b, S, g))[S] = Sum(F, S)
<1>1. ASSUME NEW g PROVE ProductRight(a, b, S, g) <=> Right(F, S, g)
  <2>1. ASSUME NEW s \in SUBSET S PROVE ProductStep(a, b, g, s) = Step(F, g, s)
    <3>1. s # {} => (CHOOSE x \in s : TRUE) \in S
      OBVIOUS
    <3> QED BY <3>1, Zenon DEF Step, ProductStep
  <2>2. [s \in SUBSET S |-> ProductStep(a, b, g, s)] = [s \in SUBSET S |-> Step(F, g, s)]
    BY <2>1, Zenon
  <2> QED BY <2>2, Zenon DEF Right, ProductRight
<1>2. (CHOOSE g : ProductRight(a, b, S, g)) = (CHOOSE g : Right(F, S, g))
  BY <1>1, Zenon
<1> QED BY <1>2, Zenon DEF Sum

-----------------------------------------------------------------------------
(* The price of an answer *)

\* A listed model is billed at a rate for each way of serving a token, for any prompt.
LEMMA ListedIsBilled ==
    ASSUME PriceInv, NEW m \in DOMAIN pricing, NEW size \in Nat
    PROVE  RatesFor(m, size) \in [RateKey -> Int] /\ RatesFor(m, size) # NoRates
<1>1. CASE m \in DOMAIN rates
  BY <1>1, Billed DEF RatesFor
<1>2. CASE m \notin DOMAIN rates
  <2> DEFINE tiers == pricing[m].tiers
  <2>1. tiers # <<>> /\ tiers \in Seq(TierType) /\ ValidTiers(tiers)
    BY <1>2, Billed
  <2>2. RatesFor(m, size) = Tier(tiers, size)
    BY <1>2, <2>1 DEF RatesFor
  <2> HIDE DEF tiers
  <2>3. PICK i \in 1..Len(tiers) : Tier(tiers, size) = tiers[i].rate
    BY <2>1, TierFirst
  <2>4. tiers[i] \in TierType
    BY <2>1
  <2>5. tiers[i].rate \in [RateKey -> Int]
    BY <2>4 DEF TierType
  <2>6. Tier(tiers, size) # NoRates
    BY <2>1, TierCharges
  <2> QED BY <2>2, <2>3, <2>5, <2>6
<1> QED BY <1>1, <1>2

\* What _cost makes of four counts is a number, at the rates of the input size.
LEMMA CostIs ==
    ASSUME PriceInv, NEW m \in DOMAIN pricing, NEW r,
           NEW input \in Nat, NEW output \in Nat, NEW read \in Nat, NEW write \in Nat,
           r = RatesFor(m, input)
    PROVE  /\ r[Input] \in Int /\ r[Output] \in Int /\ r[Read] \in Int /\ r[Write] \in Int
           /\ Cost(m, input, output, read, write) =
                input * r[Input] + output * r[Output] + read * r[Read] + write * r[Write]
<1>1. r \in [RateKey -> Int] /\ r # NoRates
  BY ListedIsBilled
<1>2. {Input, Output, Read, Write} \subseteq RateKey
  BY MeteringAssumption
<1>3. r[Input] \in Int /\ r[Output] \in Int /\ r[Read] \in Int /\ r[Write] \in Int
  BY <1>1, <1>2
<1> QED BY <1>1, <1>3, Zenon DEF Cost

LEMMA ProductType == \A n, k \in Int : n * k \in Int /\ 0 * k = 0
OBVIOUS

\* A report without tools costs nothing for tools.
LEMMA NoToolCost == ServerToolCost(<<>>) = 0
<1>1. PICK none : none = <<>>
  OBVIOUS
<1>2. DOMAIN none \cap DOMAIN ToolRate = {}
  BY <1>1
<1>3. ServerToolCost(none) = (CHOOSE g : ProductRight(none, ToolRate, {}, g))[{}]
  BY <1>2, Zenon DEF ServerToolCost, MapThenSumSet, MapThenFoldSet, ProductRight, ProductStep
<1>4. PICK F : F = [t \in {} |-> 0]
  OBVIOUS
<1>5. (CHOOSE g : ProductRight(none, ToolRate, {}, g))[{}] = Sum(F, {})
  BY SumOfProducts, Zenon
<1>6. Sum(F, {}) = 0
  <2>1. IsFiniteSet({}) /\ \A t \in {} : F[t] \in Int
    BY FS_EmptySet
  <2> QED BY <2>1, SumApart
<1> QED BY <1>1, <1>3, <1>5, <1>6

\* Leaving out the tools that have no count, and those that have no rate, leaves out
\* nothing that would be charged.
LEMMA ToolsCharged ==
    ASSUME NEW tools \in [Tool -> Uses \cup {None}],
           NEW counted, counted = [tool \in {t \in Tool : tools[t] # None} |-> tools[tool]],
           NEW uses, uses = [t \in DOMAIN ToolRate |-> OrZero(tools[t])]
    PROVE  ServerToolCost(counted) = ChargeFor(uses) /\ ChargeFor(uses) \in Int
<1> DEFINE S == DOMAIN ToolRate
           P == DOMAIN counted \cap S
           F == [t \in S |-> uses[t] * ToolRate[t]]
<1>1. S \subseteq Tool /\ IsFiniteSet(S) /\ ToolRate \in [S -> Nat] /\ Uses \subseteq Nat
      /\ None \notin Nat
  BY MeteringAssumption
<1>2. ASSUME NEW t \in S
      PROVE  /\ uses[t] \in Nat /\ ToolRate[t] \in Nat
             /\ t \in P => uses[t] = counted[t]
             /\ t \notin P => uses[t] = 0
  <2>1. uses[t] = OrZero(tools[t]) /\ t \in Tool /\ tools[t] \in Uses \cup {None}
    BY <1>1
  <2>2. (t \in P <=> tools[t] # None) /\ (t \in P => counted[t] = tools[t])
    BY <2>1
  <2>3. ToolRate[t] \in Nat
    BY <1>1
  <2> QED BY <1>1, <2>1, <2>2, <2>3 DEF OrZero
<1>3. ASSUME NEW t \in S
      PROVE  /\ F[t] = uses[t] * ToolRate[t] /\ F[t] \in Int
             /\ t \in P => F[t] = counted[t] * ToolRate[t]
             /\ t \notin P => F[t] = 0
  <2> HIDE DEF P
  <2>1. F[t] = uses[t] * ToolRate[t]
    OBVIOUS
  <2>2. uses[t] \in Int /\ ToolRate[t] \in Int
    BY <1>2
  <2> QED BY <1>2, <2>1, <2>2, ProductType
<1>4. P \in SUBSET S /\ \A t \in S \ P : F[t] = 0
  BY <1>3
<1> HIDE DEF F, P, S
<1>5. ChargeFor(uses) = Sum(F, S)
  <2>1. ChargeFor(uses) = (CHOOSE g : ProductRight(uses, ToolRate, S, g))[S]
    BY Zenon DEF ChargeFor, MapThenSumSet, MapThenFoldSet, ProductRight, ProductStep, S
  <2>2. \A t \in S : F[t] = uses[t] * ToolRate[t]
    BY <1>3
  <2>3. PICK b : b = ToolRate
    OBVIOUS
  <2>4. \A t \in S : F[t] = uses[t] * b[t]
    BY <2>2, <2>3, Zenon
  <2>5. (CHOOSE g : ProductRight(uses, b, S, g))[S] = Sum(F, S)
    BY <2>4, SumOfProducts
  <2> QED BY <2>1, <2>3, <2>5, Zenon
<1>6. ServerToolCost(counted) = Sum(F, P)
  <2>1. ServerToolCost(counted) = (CHOOSE g : ProductRight(counted, ToolRate, P, g))[P]
    BY Zenon DEF ServerToolCost, MapThenSumSet, MapThenFoldSet, ProductRight, ProductStep, P, S
  <2>2. \A t \in P : F[t] = counted[t] * ToolRate[t]
    BY <1>3, <1>4
  <2>3. (CHOOSE g : ProductRight(counted, ToolRate, P, g))[P] = Sum(F, P)
    BY <2>2, SumOfProducts
  <2> QED BY <2>1, <2>3
<1>7. \A t \in S : F[t] \in Int
  BY <1>3
<1>8. Sum(F, S) = Sum(F, P)
  BY <1>1, <1>4, <1>7, SumPart
<1>9. Sum(F, S) \in Int
  BY <1>1, <1>7, SumApart
<1> QED BY <1>5, <1>6, <1>8, <1>9

\* An openai report: the prompt less what is reported as cached is what was served
\* fresh, what was written to the cache, and what was read from it unreported.
LEMMA OpenAICharged ==
    ASSUME PriceInv, NEW m \in DOMAIN pricing, NEW a \in Answer, NEW u \in OpenAIReports(a),
           NEW hidden, hidden = IF u.cached = None THEN a.cached ELSE 0,
           NEW uncached, uncached = a.fresh + a.written + hidden,
           NEW r, r = RatesFor(m, uncached)
    PROVE  UsdForUsage(m, OpenAIUsage(u)) =
             uncached * r[Input] + (a.cached - hidden) * r[Read]
               + a.output * r[Output]
<1>1. /\ a.fresh \in Nat /\ a.cached \in Nat /\ a.written \in Nat /\ a.output \in Nat
      /\ None \notin Nat
  BY MeteringAssumption DEF Answer
<1>2. /\ u.prompt = a.fresh + a.cached + a.written /\ u.completion = a.output
      /\ u.cached \in {a.cached, None}
  BY DEF OpenAIReports
<1>3. /\ OrZero(u.cached) = a.cached - hidden
      /\ hidden \in Nat /\ a.cached - hidden \in Nat /\ uncached \in Nat
  BY <1>1, <1>2 DEF OrZero
<1>4. Max({u.prompt - OrZero(u.cached), 0}) = uncached
  <2>1. u.prompt - OrZero(u.cached) = uncached
    BY <1>1, <1>2, <1>3
  <2>2. PICK n \in Nat : n = uncached
    BY <1>3
  <2>3. Max({n, 0}) = n
    BY DEF Max
  <2> QED BY <2>1, <2>2, <2>3
<1>5. OrZero(None) = 0
  BY DEF OrZero
<1>6. /\ OpenAIUsage(u).input = uncached /\ OpenAIUsage(u).output = a.output
      /\ OrZero(OpenAIUsage(u).read) = a.cached - hidden
      /\ OrZero(OpenAIUsage(u).write) = 0 /\ OpenAIUsage(u).tools = <<>>
  BY <1>2, <1>3, <1>4, <1>5 DEF OpenAIUsage
<1>7. UsdForUsage(m, OpenAIUsage(u)) =
        0 + Cost(m, uncached, a.output, a.cached - hidden, 0)
  BY <1>6, NoToolCost DEF UsdForUsage
<1>8. /\ r[Input] \in Int /\ r[Output] \in Int /\ r[Read] \in Int /\ r[Write] \in Int
      /\ Cost(m, uncached, a.output, a.cached - hidden, 0) =
           uncached * r[Input] + a.output * r[Output]
             + (a.cached - hidden) * r[Read] + 0 * r[Write]
  <2>1. PICK n \in Nat, k \in Nat, z \in Nat :
          n = uncached /\ k = a.cached - hidden /\ z = 0
    BY <1>1, <1>3
  <2>2. /\ r[Input] \in Int /\ r[Output] \in Int /\ r[Read] \in Int /\ r[Write] \in Int
        /\ Cost(m, n, a.output, k, z) =
             n * r[Input] + a.output * r[Output] + k * r[Read] + z * r[Write]
    <3>1. r = RatesFor(m, n)
      BY <2>1
    <3> HIDE <2>1
    <3> QED BY <1>1, <3>1, CostIs
  <2> QED BY <2>1, <2>2, Zenon
<1> DEFINE i == uncached * r[Input]
           o == a.output * r[Output]
           c == (a.cached - hidden) * r[Read]
<1>9. i \in Int /\ o \in Int /\ c \in Int /\ 0 * r[Write] = 0
  <2>1. uncached \in Int /\ a.output \in Int /\ a.cached - hidden \in Int
    BY <1>1, <1>3
  <2> QED BY <1>8, <2>1, ProductType
<1>10. UsdForUsage(m, OpenAIUsage(u)) = 0 + (i + o + c + 0)
  BY <1>7, <1>8, <1>9
<1> HIDE DEF i, o, c
<1>11. UsdForUsage(m, OpenAIUsage(u)) = i + c + o
  BY <1>9, <1>10
<1> QED BY <1>11 DEF i, o, c

\* An anthropic report: the counts stand apart, and one left out was zero.
LEMMA AnthropicCharged ==
    ASSUME PriceInv, NEW m \in DOMAIN pricing, NEW a \in Answer,
           NEW u \in AnthropicReports(a), NEW r, r = RatesFor(m, a.fresh),
           NEW uses, uses = [t \in DOMAIN ToolRate |-> OrZero(u.tools[t])]
    PROVE  UsdForUsage(m, AnthropicUsage(u)) =
             a.fresh * r[Input] + a.cached * r[Read] + a.written * r[Write]
               + a.output * r[Output]
               + ChargeFor(uses)
<1>1. /\ a.fresh \in Nat /\ a.cached \in Nat /\ a.written \in Nat /\ a.output \in Nat
      /\ None \notin Nat
  BY MeteringAssumption DEF Answer
<1>2. /\ u.input = a.fresh /\ u.output = a.output
      /\ u.read = a.cached \/ (u.read = None /\ a.cached = 0)
      /\ u.write = a.written \/ (u.write = None /\ a.written = 0)
      /\ u.tools \in [Tool -> Uses \cup {None}]
  <2>1. PICK rd \in {a.cached} \cup {x \in {None} : a.cached = 0},
             wr \in {a.written} \cup {x \in {None} : a.written = 0},
             ts \in [Tool -> Uses \cup {None}] :
          u = [input |-> a.fresh, output |-> a.output, read |-> rd, write |-> wr, tools |-> ts]
    BY DEF AnthropicReports
  <2> QED BY <2>1
<1>3. OrZero(u.read) = a.cached /\ OrZero(u.write) = a.written
  BY <1>1, <1>2 DEF OrZero
<1>4. PICK counted : counted = [tool \in {t \in Tool : u.tools[t] # None} |-> u.tools[tool]]
  OBVIOUS
<1>5. DOMAIN u.tools = Tool
  BY <1>2
<1>6. /\ AnthropicUsage(u).input = a.fresh /\ AnthropicUsage(u).output = a.output
      /\ AnthropicUsage(u).read = u.read /\ AnthropicUsage(u).write = u.write
      /\ AnthropicUsage(u).tools = counted
  BY <1>2, <1>4, <1>5 DEF AnthropicUsage
<1> DEFINE tool == ChargeFor(uses)
<1>7. ServerToolCost(counted) = tool /\ tool \in Int
  BY <1>2, <1>4, ToolsCharged
<1>8. UsdForUsage(m, AnthropicUsage(u)) =
        ServerToolCost(counted) + Cost(m, a.fresh, a.output, a.cached, a.written)
  BY <1>3, <1>6 DEF UsdForUsage
<1>9. /\ r[Input] \in Int /\ r[Output] \in Int /\ r[Read] \in Int /\ r[Write] \in Int
      /\ Cost(m, a.fresh, a.output, a.cached, a.written) =
           a.fresh * r[Input] + a.output * r[Output] + a.cached * r[Read]
             + a.written * r[Write]
  BY <1>1, CostIs
<1> HIDE DEF tool
<1> DEFINE i == a.fresh * r[Input]
           o == a.output * r[Output]
           c == a.cached * r[Read]
           w == a.written * r[Write]
<1>10. i \in Int /\ o \in Int /\ c \in Int /\ w \in Int
  <2>1. a.fresh \in Int /\ a.output \in Int /\ a.cached \in Int /\ a.written \in Int
    BY <1>1
  <2> QED BY <1>9, <2>1, ProductType
<1>11. UsdForUsage(m, AnthropicUsage(u)) = tool + (i + o + c + w)
  BY <1>7, <1>8, <1>9
<1> HIDE DEF i, o, c, w
<1>12. UsdForUsage(m, AnthropicUsage(u)) = i + c + w + o + tool
  BY <1>7, <1>10, <1>11
<1> QED BY <1>12 DEF i, o, c, w, tool

\* Each token is charged once, at the rate of the way the report says it was served.
LEMMA AnswerCharged == PriceInv => EveryTokenChargedOnce
<1> SUFFICES ASSUME PriceInv, NEW m \in DOMAIN pricing, NEW a \in Answer
             PROVE  /\ \A u \in OpenAIReports(a) :
                          LET hidden == IF u.cached = None THEN a.cached ELSE 0
                              uncached == a.fresh + a.written + hidden
                              r == RatesFor(m, uncached)
                          IN  UsdForUsage(m, OpenAIUsage(u)) =
                                uncached * r[Input] + (a.cached - hidden) * r[Read]
                                  + a.output * r[Output]
                    /\ LET r == RatesFor(m, a.fresh)
                           tokens == a.fresh * r[Input] + a.cached * r[Read]
                                       + a.written * r[Write] + a.output * r[Output]
                       IN  \A u \in AnthropicReports(a) :
                              UsdForUsage(m, AnthropicUsage(u)) =
                                tokens
                                  + ChargeFor([t \in DOMAIN ToolRate |-> OrZero(u.tools[t])])
  BY Zenon DEF EveryTokenChargedOnce
<1>1. ASSUME NEW u \in OpenAIReports(a), NEW hidden, NEW uncached, NEW r,
             hidden = IF u.cached = None THEN a.cached ELSE 0,
             uncached = a.fresh + a.written + hidden, r = RatesFor(m, uncached)
      PROVE  UsdForUsage(m, OpenAIUsage(u)) =
               uncached * r[Input] + (a.cached - hidden) * r[Read]
                 + a.output * r[Output]
  BY <1>1, OpenAICharged
<1>2. ASSUME NEW u \in AnthropicReports(a), NEW r, r = RatesFor(m, a.fresh)
      PROVE  UsdForUsage(m, AnthropicUsage(u)) =
               a.fresh * r[Input] + a.cached * r[Read] + a.written * r[Write]
                 + a.output * r[Output]
                 + ChargeFor([t \in DOMAIN ToolRate |-> OrZero(u.tools[t])])
  BY <1>2, AnthropicCharged
<1>3. ASSUME NEW u \in OpenAIReports(a)
      PROVE  LET hidden == IF u.cached = None THEN a.cached ELSE 0
                 uncached == a.fresh + a.written + hidden
                 r == RatesFor(m, uncached)
             IN  UsdForUsage(m, OpenAIUsage(u)) =
                   uncached * r[Input] + (a.cached - hidden) * r[Read]
                     + a.output * r[Output]
  <2>1. PICK hidden : hidden = IF u.cached = None THEN a.cached ELSE 0
    OBVIOUS
  <2>2. PICK uncached : uncached = a.fresh + a.written + hidden
    OBVIOUS
  <2>3. PICK r : r = RatesFor(m, uncached)
    OBVIOUS
  <2>4. UsdForUsage(m, OpenAIUsage(u)) =
          uncached * r[Input] + (a.cached - hidden) * r[Read] + a.output * r[Output]
    BY <1>1, <2>1, <2>2, <2>3
  <2> QED BY <2>1, <2>2, <2>3, <2>4, Zenon
<1> QED BY <1>2, <1>3, Zenon

-----------------------------------------------------------------------------
(* The calls *)

\* What every step preserves beside the tables.
CallInv == MeterTypeOK /\ ReportInv

LEMMA ReportingType ==
    ASSUME NEW x
    PROVE  /\ Reporting(x) \subseteq Thread /\ IsFiniteSet(Reporting(x))
           /\ Cardinality(Reporting(x)) \in Nat /\ Cardinality(Thread) \in Nat
           /\ Cardinality(Reporting(x)) <= Cardinality(Thread)
<1>1. Reporting(x) \subseteq Thread /\ IsFiniteSet(Thread)
  BY MeteringAssumption DEF Reporting
<1> QED BY <1>1, FS_Subset, FS_CardinalityType

\* A name that a call turns out to have no rate for can be reported.
LEMMA UnpricedType ==
    ASSUME CallInv, NEW th \in Thread, pc[th] = "price", NEW x \in Unpriced(th)
    PROVE  x \in Unbilled
<1>1. DOMAIN ToolRate \subseteq Tool /\ Model \cap Tool = {}
  BY MeteringAssumption
<1>2. left[th] \subseteq Tool /\ model[th] \in Model
  BY DEF CallInv, MeterTypeOK, ReportInv
<1> QED BY <1>1, <1>2 DEF Unpriced, Unbilled

\* The step of a thread that does not report, and reports no name afterwards.
LEMMA QuietStep ==
    ASSUME CallInv, NEW th \in Thread, pc[th] \in {"idle", "price"},
           pc' = [pc EXCEPT ![th] = "idle"] \/ pc' = [pc EXCEPT ![th] = "price"],
           UNCHANGED <<name, warned, alerts>>,
           free' \subseteq warned, \A t \in Thread : pc'[t] # "idle" => model'[t] \in Model
    PROVE  ReportInv'
<1>1. /\ pc \in [Thread -> {"idle", "price", "add", "alert"}] /\ ReportInv
  BY DEF CallInv, MeterTypeOK
<1>2. /\ pc'[th] \in {"idle", "price"}
      /\ \A t \in Thread \ {th} : pc'[t] = pc[t]
  BY <1>1
<1>3. \A x : Reporting(x)' = Reporting(x)
  BY <1>2 DEF Reporting
<1>4. \A t \in Thread : pc'[t] \in {"add", "alert"} => pc'[t] = pc[t]
  BY <1>2
<1>5. \A x \in warned : alerts[x] > 0 \/ \E t \in Thread : pc'[t] = "alert" /\ name[t] = x
  <2> SUFFICES ASSUME NEW x \in warned, ~ (alerts[x] > 0)
               PROVE  \E t \in Thread : pc'[t] = "alert" /\ name[t] = x
    OBVIOUS
  <2>1. PICK t \in Thread : pc[t] = "alert" /\ name[t] = x
    BY <1>1 DEF ReportInv
  <2>2. t # th
    BY <2>1
  <2> QED BY <1>2, <2>1, <2>2
<1> QED BY <1>1, <1>3, <1>4, <1>5 DEF ReportInv

LEMMA BeginKeeps ==
    ASSUME CallInv, NEW th \in Thread, Begin(th)
    PROVE  CallInv'
<1>1. MeterTypeOK /\ ReportInv
  BY DEF CallInv
<1>2. PICK m \in Model, tools \in SUBSET Tool :
         /\ model' = [model EXCEPT ![th] = m]
         /\ left' = [left EXCEPT ![th] = tools]
  BY DEF Begin
<1>3. MeterTypeOK'
  BY <1>1, <1>2 DEF MeterTypeOK, TypeOK, Begin, vars, tables
<1>4. \A t \in Thread : pc'[t] # "idle" => model'[t] \in Model
  BY <1>1, <1>2 DEF MeterTypeOK, ReportInv, Begin
<1>5. ReportInv'
  BY <1>1, <1>4, QuietStep DEF Begin, ReportInv
<1> QED BY <1>3, <1>5 DEF CallInv

LEMMA PriceToolKeeps ==
    ASSUME CallInv, NEW th \in Thread, PriceTool(th)
    PROVE  CallInv'
<1>1. MeterTypeOK /\ ReportInv
  BY DEF CallInv
<1>2. PICK tool \in left[th] : left' = [left EXCEPT ![th] = @ \ {tool}]
  BY DEF PriceTool
<1>3. MeterTypeOK'
  BY <1>1, <1>2 DEF MeterTypeOK, TypeOK, PriceTool, vars, tables
<1>4. pc' = [pc EXCEPT ![th] = "price"]
  BY <1>1 DEF MeterTypeOK, PriceTool
<1>5. ReportInv'
  BY <1>1, <1>4, QuietStep DEF PriceTool, ReportInv
<1> QED BY <1>3, <1>5 DEF CallInv

LEMMA PriceModelKeeps ==
    ASSUME CallInv, NEW th \in Thread, PriceModel(th)
    PROVE  CallInv'
<1>1. MeterTypeOK /\ ReportInv
  BY DEF CallInv
<1>2. MeterTypeOK'
  BY <1>1 DEF MeterTypeOK, TypeOK, PriceModel, vars, tables
<1>3. \A t \in Thread : pc'[t] # "idle" => model'[t] \in Model
  BY <1>1 DEF MeterTypeOK, ReportInv, PriceModel
<1>4. ReportInv'
  BY <1>1, <1>3, QuietStep DEF PriceModel, ReportInv
<1> QED BY <1>2, <1>4 DEF CallInv

\* Where a thread goes on after a name that was charged nothing.
LEMMA ChargedType ==
    ASSUME CallInv, NEW th \in Thread, pc[th] # "idle", NEW x \in Unbilled, Charged(th, x)
    PROVE  /\ pc' \in [Thread -> {"idle", "price", "add", "alert"}]
           /\ pc' = [pc EXCEPT ![th] = "idle"] \/ pc' = [pc EXCEPT ![th] = "price"]
           /\ model' \in [Thread -> Model \cup {None}]
           /\ left' \in [Thread -> SUBSET Tool]
           /\ free' \subseteq Unbilled
           /\ \A t \in Thread : pc'[t] # "idle" => model'[t] \in Model
<1>1. MeterTypeOK /\ ReportInv
  BY DEF CallInv
<1>2. CASE x \in Model
  BY <1>1, <1>2 DEF MeterTypeOK, ReportInv, Charged
<1>3. CASE x \notin Model
  BY <1>1, <1>3 DEF MeterTypeOK, ReportInv, Charged
<1> QED BY <1>2, <1>3

LEMMA WarnedKeeps ==
    ASSUME CallInv, NEW th \in Thread, Warned(th)
    PROVE  CallInv'
<1>1. MeterTypeOK /\ ReportInv
  BY DEF CallInv
<1>2. PICK x \in Unpriced(th) : x \in warned /\ Charged(th, x)
  BY DEF Warned
<1>3. pc[th] = "price" /\ UNCHANGED <<vars, name, warned, alerts>>
  BY DEF Warned
<1>4. x \in Unbilled
  BY <1>3, UnpricedType
<1>5. MeterTypeOK'
  BY <1>1, <1>2, <1>3, <1>4, ChargedType DEF MeterTypeOK, TypeOK, vars, tables
<1>6. free' \subseteq warned
  BY <1>1, <1>2 DEF ReportInv, Charged
<1>7. ReportInv'
  BY <1>2, <1>3, <1>4, <1>6, ChargedType, QuietStep
<1> QED BY <1>5, <1>7 DEF CallInv

\* A thread that found the name missing joins those that report it, of which none has
\* sent its alert.
LEMMA UnwarnedKeeps ==
    ASSUME CallInv, NEW th \in Thread, Unwarned(th)
    PROVE  CallInv'
<1>1. MeterTypeOK /\ ReportInv
  BY DEF CallInv
<1>2. PICK x \in Unpriced(th) : x \notin warned /\ name' = [name EXCEPT ![th] = x]
  BY DEF Unwarned
<1>3. /\ pc[th] = "price" /\ pc' = [pc EXCEPT ![th] = "add"]
      /\ UNCHANGED <<vars, model, left, warned, alerts, free>>
  BY DEF Unwarned
<1>4. x \in Unbilled
  BY <1>3, UnpricedType
<1>5. MeterTypeOK'
  BY <1>1, <1>2, <1>3, <1>4 DEF MeterTypeOK, TypeOK, vars, tables
<1>6. /\ pc'[th] = "add" /\ name'[th] = x
      /\ \A t \in Thread \ {th} : pc'[t] = pc[t] /\ name'[t] = name[t]
  BY <1>1, <1>2, <1>3 DEF MeterTypeOK
<1>7. ASSUME NEW y \in Unbilled
      PROVE  alerts[y] + Cardinality(Reporting(y)') <= Cardinality(Thread)
  <2>1. CASE y = x
    <3>1. alerts[y] = 0
      BY <1>1, <1>2, <2>1 DEF ReportInv
    <3>2. Reporting(y)' \subseteq Thread /\ IsFiniteSet(Thread)
      BY MeteringAssumption DEF Reporting
    <3>3. /\ Cardinality(Reporting(y)') <= Cardinality(Thread)
          /\ Cardinality(Reporting(y)') \in Nat
      BY <3>2, FS_Subset, FS_CardinalityType
    <3> QED BY <3>1, <3>3
  <2>2. CASE y # x
    <3>1. Reporting(y)' = Reporting(y)
      BY <1>3, <1>6, <2>2 DEF Reporting
    <3> QED BY <1>1, <3>1 DEF ReportInv
  <2> QED BY <2>1, <2>2
<1>8. ASSUME NEW y \in warned
      PROVE  alerts[y] > 0 \/ \E t \in Thread : pc'[t] = "alert" /\ name'[t] = y
  <2> SUFFICES ASSUME ~ (alerts[y] > 0)
               PROVE  \E t \in Thread : pc'[t] = "alert" /\ name'[t] = y
    OBVIOUS
  <2>1. PICK t \in Thread : pc[t] = "alert" /\ name[t] = y
    BY <1>1 DEF ReportInv
  <2>2. t # th
    BY <1>3, <2>1
  <2> QED BY <1>6, <2>1, <2>2
<1>9. /\ \A t \in Thread : pc'[t] # "idle" => model'[t] \in Model
      /\ \A t \in Thread : pc'[t] \in {"add", "alert"} => name'[t] \in Unbilled
      /\ \A t \in Thread : pc'[t] = "alert" => name'[t] \in warned'
  BY <1>1, <1>3, <1>4, <1>6 DEF ReportInv
<1>10. ReportInv'
  BY <1>1, <1>3, <1>7, <1>8, <1>9 DEF ReportInv
<1> QED BY <1>5, <1>10 DEF CallInv

LEMMA AddKeeps ==
    ASSUME CallInv, NEW th \in Thread, Add(th)
    PROVE  CallInv'
<1>1. MeterTypeOK /\ ReportInv
  BY DEF CallInv
<1>2. /\ pc[th] = "add" /\ pc' = [pc EXCEPT ![th] = "alert"]
      /\ warned' = warned \cup {name[th]}
      /\ UNCHANGED <<vars, model, left, name, alerts, free>>
  BY DEF Add
<1>3. name[th] \in Unbilled
  BY <1>1, <1>2 DEF ReportInv
<1>4. MeterTypeOK'
  BY <1>1, <1>2, <1>3 DEF MeterTypeOK, TypeOK, vars, tables
<1>5. pc'[th] = "alert" /\ \A t \in Thread \ {th} : pc'[t] = pc[t]
  BY <1>1, <1>2 DEF MeterTypeOK
<1>6. \A x : Reporting(x)' = Reporting(x)
  BY <1>2, <1>5 DEF Reporting
<1>7. ASSUME NEW y \in warned'
      PROVE  alerts[y] > 0 \/ \E t \in Thread : pc'[t] = "alert" /\ name[t] = y
  <2>1. CASE y = name[th]
    BY <1>5, <2>1
  <2>2. CASE y # name[th]
    <3>1. y \in warned
      BY <1>2, <2>2
    <3> QED BY <1>1, <1>2, <1>5, <3>1 DEF ReportInv
  <2> QED BY <2>1, <2>2
<1>8. /\ \A t \in Thread : pc'[t] # "idle" => model'[t] \in Model
      /\ \A t \in Thread : pc'[t] \in {"add", "alert"} => name'[t] \in Unbilled
      /\ \A t \in Thread : pc'[t] = "alert" => name'[t] \in warned'
      /\ free' \subseteq warned'
  BY <1>1, <1>2, <1>3, <1>5 DEF ReportInv
<1>9. ReportInv'
  BY <1>1, <1>2, <1>6, <1>7, <1>8 DEF ReportInv
<1> QED BY <1>4, <1>9 DEF CallInv

\* A thread that has sent its alert is no longer one of those that report the name.
LEMMA AlertKeeps ==
    ASSUME CallInv, NEW th \in Thread, Alert(th)
    PROVE  CallInv'
<1>1. MeterTypeOK /\ ReportInv
  BY DEF CallInv
<1>2. PICK x : x = name[th]
  OBVIOUS
<1>3. /\ pc[th] = "alert" /\ Charged(th, x)
      /\ alerts' = [alerts EXCEPT ![x] = @ + 1]
      /\ name' = [name EXCEPT ![th] = None]
      /\ UNCHANGED <<vars, warned>>
  BY <1>2 DEF Alert
<1>4. x \in Unbilled /\ x \in warned
  BY <1>1, <1>2, <1>3 DEF ReportInv
<1>5. MeterTypeOK'
  BY <1>1, <1>3, <1>4, ChargedType DEF MeterTypeOK, TypeOK, vars, tables
<1>6. /\ pc'[th] \in {"idle", "price"}
      /\ \A t \in Thread \ {th} : pc'[t] = pc[t] /\ name'[t] = name[t]
  <2>1. pc' = [pc EXCEPT ![th] = "idle"] \/ pc' = [pc EXCEPT ![th] = "price"]
    BY <1>3, <1>4, ChargedType
  <2> QED BY <1>1, <1>3, <2>1 DEF MeterTypeOK
<1>7. /\ alerts'[x] = alerts[x] + 1 /\ alerts[x] \in Nat
      /\ \A y \in Unbilled \ {x} : alerts'[y] = alerts[y]
  BY <1>1, <1>3, <1>4 DEF MeterTypeOK
<1>8. ASSUME NEW y \in Unbilled
      PROVE  alerts'[y] + Cardinality(Reporting(y)') <= Cardinality(Thread)
  <2>1. CASE y = x
    <3>1. Reporting(x)' = Reporting(x) \ {th} /\ th \in Reporting(x)
      BY <1>2, <1>3, <1>6 DEF Reporting
    <3>2. Cardinality(Reporting(x)') = Cardinality(Reporting(x)) - 1
      BY <3>1, FS_RemoveElement, ReportingType
    <3>3. alerts[x] + Cardinality(Reporting(x)) <= Cardinality(Thread)
      BY <1>1, <1>4 DEF ReportInv
    <3>4. Cardinality(Reporting(x)) \in Nat /\ Cardinality(Thread) \in Nat
      BY ReportingType
    <3> QED BY <1>7, <2>1, <3>2, <3>3, <3>4
  <2>2. CASE y # x
    <3>1. Reporting(y)' = Reporting(y)
      BY <1>2, <1>6, <2>2 DEF Reporting
    <3> QED BY <1>1, <1>7, <2>2, <3>1 DEF ReportInv
  <2> QED BY <2>1, <2>2
<1>9. ASSUME NEW y \in warned
      PROVE  alerts'[y] > 0 \/ \E t \in Thread : pc'[t] = "alert" /\ name'[t] = y
  <2>1. CASE y = x
    BY <1>7, <2>1
  <2>2. CASE y # x
    <3>1. alerts'[y] = alerts[y]
      BY <1>1, <1>7, <2>2 DEF MeterTypeOK
    <3>2. alerts[y] > 0 \/ \E t \in Thread : pc[t] = "alert" /\ name[t] = y
      BY <1>1 DEF ReportInv
    <3>3. ASSUME NEW t \in Thread, pc[t] = "alert", name[t] = y
          PROVE  pc'[t] = "alert" /\ name'[t] = y
      BY <1>2, <1>6, <2>2, <3>3
    <3> QED BY <3>1, <3>2, <3>3
  <2> QED BY <2>1, <2>2
<1>10. /\ \A t \in Thread : pc'[t] # "idle" => model'[t] \in Model
       /\ \A t \in Thread : pc'[t] \in {"add", "alert"} => name'[t] \in Unbilled
       /\ \A t \in Thread : pc'[t] = "alert" => name'[t] \in warned'
       /\ free' \subseteq warned'
       /\ \A y \in Unbilled : y \notin warned' => alerts'[y] = 0
  <2>1. \A t \in Thread : pc'[t] # "idle" => model'[t] \in Model
    BY <1>3, <1>4, ChargedType
  <2>2. /\ \A t \in Thread : pc'[t] \in {"add", "alert"} => name'[t] \in Unbilled
        /\ \A t \in Thread : pc'[t] = "alert" => name'[t] \in warned'
    BY <1>1, <1>3, <1>6 DEF ReportInv
  <2>3. free' \subseteq warned'
    BY <1>1, <1>3, <1>4 DEF ReportInv, Charged
  <2>4. \A y \in Unbilled : y \notin warned' => alerts'[y] = 0
    BY <1>1, <1>3, <1>4, <1>7 DEF ReportInv
  <2> QED BY <2>1, <2>2, <2>3, <2>4
<1>11. ReportInv'
  BY <1>3, <1>8, <1>9, <1>10 DEF ReportInv
<1> QED BY <1>5, <1>11 DEF CallInv

\* Rates are registered, loaded or reset between calls.
LEMMA RatesKeeps ==
    ASSUME MeteringInv, Rates
    PROVE  MeteringInv'
<1>1. MeterTypeOK /\ PriceInv /\ ReportInv
  BY DEF MeteringInv
<1>2. PriceInv'
  <2>1. CASE Next
    BY <1>1, <2>1, NextKeepsPrice
  <2>2. CASE LoadRatesFails
    BY <1>1, <2>2 DEF LoadRatesFails, tables, PriceInv, TypeOK, RatesAreMerged, RowsAreShipped
  <2> QED BY <2>1, <2>2 DEF Rates
<1>3. UNCHANGED meterVars
  BY DEF Rates
<1>4. MeterTypeOK'
  BY <1>1, <1>2, <1>3 DEF MeterTypeOK, PriceInv, meterVars, callVars
<1>5. \A x : Reporting(x)' = Reporting(x)
  BY <1>3 DEF Reporting, meterVars, callVars
<1>6. ReportInv'
  BY <1>1, <1>3, <1>5 DEF ReportInv, meterVars, callVars
<1> QED BY <1>2, <1>4, <1>6 DEF MeteringInv

\* Pricing a call changes no table.
LEMMA CallKeeps ==
    ASSUME MeteringInv, NEW th \in Thread, Call(th)
    PROVE  MeteringInv'
<1>1. CallInv /\ PriceInv
  BY DEF MeteringInv, CallInv
<1>2. CallInv'
  BY <1>1, BeginKeeps, PriceToolKeeps, PriceModelKeeps, WarnedKeeps, UnwarnedKeeps, AddKeeps,
     AlertKeeps DEF Call
<1>3. UNCHANGED vars
  BY DEF Call, Begin, PriceTool, PriceModel, Warned, Unwarned, Add, Alert
<1>4. PriceInv'
  BY <1>1, <1>3 DEF vars, tables, PriceInv, TypeOK, RatesAreMerged, RowsAreShipped
<1> QED BY <1>2, <1>4 DEF MeteringInv, CallInv

-----------------------------------------------------------------------------
(* Theorems *)

LEMMA InitMetering == MeterInit => MeteringInv
<1> SUFFICES ASSUME MeterInit PROVE MeteringInv
  OBVIOUS
<1>1. PriceInv
  BY InitPrice DEF MeterInit
<1>2. MeterTypeOK
  BY <1>1 DEF MeterInit, MeterTypeOK, PriceInv
<1>3. \A x \in Unbilled : alerts[x] + Cardinality(Reporting(x)) <= Cardinality(Thread)
  <2> SUFFICES ASSUME NEW x \in Unbilled
               PROVE  alerts[x] + Cardinality(Reporting(x)) <= Cardinality(Thread)
    OBVIOUS
  <2>1. alerts[x] = 0
    BY DEF MeterInit
  <2> QED BY <2>1, ReportingType
<1>4. ReportInv
  BY <1>3 DEF MeterInit, ReportInv
<1> QED BY <1>1, <1>2, <1>4 DEF MeteringInv

LEMMA StepMetering == MeteringInv /\ [MeterNext]_mvars => MeteringInv'
<1> SUFFICES ASSUME MeteringInv, [MeterNext]_mvars PROVE MeteringInv'
  OBVIOUS
<1>1. CASE Rates
  BY <1>1, RatesKeeps
<1>2. ASSUME NEW th \in Thread, Call(th) PROVE MeteringInv'
  BY <1>2, CallKeeps
<1>3. CASE UNCHANGED mvars
  <2>1. \A x : Reporting(x)' = Reporting(x)
    BY <1>3 DEF Reporting, mvars, meterVars, callVars
  <2>2. TypeOK' = TypeOK /\ PriceInv' = PriceInv
    BY <1>3 DEF mvars, vars, tables, PriceInv, TypeOK, RatesAreMerged, RowsAreShipped
  <2>3. MeterTypeOK'
    BY <1>3, <2>2 DEF MeteringInv, MeterTypeOK, mvars, meterVars, callVars
  <2>4. ReportInv'
    BY <1>3, <2>1 DEF MeteringInv, ReportInv, mvars, meterVars, callVars
  <2> QED BY <2>2, <2>3, <2>4 DEF MeteringInv
<1> QED BY <1>1, <1>2, <1>3 DEF MeterNext

\* The registry, its projection and the overrides fit each other, and a name is in the
\* set of reported ones before its alert is sent, whatever the threads and the
\* registrations do.
THEOREM MeteringInvariant == MeterSpec => []MeteringInv
<1> QED BY InitMetering, StepMetering, PTL DEF MeterSpec

\* is_priced() and the calculator agree on every model and prompt size.
THEOREM GateAlwaysMatches == MeterSpec => []GateMatchesCost
<1>1. MeteringInv => GateMatchesCost
  BY GateAgrees DEF MeteringInv
<1> QED BY <1>1, MeteringInvariant, PTL

\* MODEL_PRICING, RATES and the catalogue agree, also after a registration that raised
\* between the two.
THEOREM TablesAlwaysAgree == MeterSpec => []TablesAgree
<1>1. MeteringInv => TablesAgree
  BY TablesDoAgree DEF MeteringInv
<1> QED BY <1>1, MeteringInvariant, PTL

\* Without an override, every call is billed as shipped, whatever came before.
THEOREM BillingRestored == MeterSpec => []ShippedBillingRestored
<1>1. MeteringInv => ShippedBillingRestored
  BY ShippedBilled DEF MeteringInv
<1> QED BY <1>1, MeteringInvariant, PTL

\* Every token of an answer, and every use of a tool that has a rate, is charged once,
\* whichever adapter reads it and whatever registrations came before: at the rate of
\* the way it was served where the report tells it, at the input rate where it does
\* not, as for the tokens an openai model has written to its cache.
THEOREM TokensChargedOnce == MeterSpec => []EveryTokenChargedOnce
<1>1. MeteringInv => EveryTokenChargedOnce
  BY AnswerCharged DEF MeteringInv
<1> QED BY <1>1, MeteringInvariant, PTL

\* Nothing is charged $0 for want of a rate without an alert sent or on its way, and no
\* name has more alerts than there are threads.
THEOREM FreeAlwaysReported == MeterSpec => []FreeIsReported
<1>1. MeteringInv => FreeIsReported
  <2> SUFFICES ASSUME MeteringInv PROVE FreeIsReported
    OBVIOUS
  <2>1. MeterTypeOK /\ ReportInv
    BY DEF MeteringInv
  <2>2. ASSUME NEW x \in Unbilled PROVE alerts[x] <= Cardinality(Thread)
    <3>1. /\ alerts[x] \in Nat
          /\ alerts[x] + Cardinality(Reporting(x)) <= Cardinality(Thread)
      BY <2>1 DEF MeterTypeOK, ReportInv
    <3> QED BY <3>1, ReportingType
  <2> QED BY <2>1, <2>2 DEF ReportInv, FreeIsReported
<1> QED BY <1>1, MeteringInvariant, PTL
=============================================================================
