--------------------------- MODULE AdmissionGate ---------------------------
(***************************************************************************)
(* What a spending cap promises when the check and the charge are apart:   *)
(* a caller is admitted while less than the cap has been spent, makes its  *)
(* call, and is charged when it is over.  Nothing is reserved, so callers  *)
(* that are admitted together go over the cap, by less than one call each. *)
(*                                                                         *)
(* There is a gate for every pot of money; one step may pass several.      *)
(***************************************************************************)
EXTENDS Integers, FiniteSets

CONSTANTS
    Thread,     \* callers, each with one call at a time
    Pot,
    Enforced,   \* the caps are in force
    Cap,        \* the cap of each pot
    MaxCost     \* the largest cost of one call

\* What the bound needs of the constants.
GateAssumption ==
    /\ IsFiniteSet(Thread) /\ Thread # {}
    /\ Enforced \in BOOLEAN
    /\ Cap \in [Pot -> Nat \ {0}]
    /\ MaxCost \in Nat

VARIABLES
    spent,      \* what the admitted calls have been charged, per pot
    inflight    \* admitted callers that may yet be charged, per pot

vars == <<spent, inflight>>

Init ==
    /\ spent = [p \in Pot |-> 0]
    /\ inflight = [p \in Pot |-> {}]

Admit(p, th) ==
    /\ Enforced => spent[p] < Cap[p]
    /\ inflight'[p] = inflight[p] \cup {th}
    /\ spent'[p] = spent[p]

\* A caller is charged once for its admission.
Charge(p, th) ==
    /\ th \in inflight[p]
    /\ \E usd \in 0..MaxCost : spent'[p] = spent[p] + usd
    /\ inflight'[p] = inflight[p] \ {th}

\* Callers can no longer be charged here: their calls have failed, or will be
\* charged to a later pot.
Leave(p) ==
    /\ inflight'[p] \subseteq inflight[p]
    /\ spent'[p] = spent[p]

Next ==
    /\ spent' \in [Pot -> Nat]
    /\ inflight' \in [Pot -> SUBSET Thread]
    /\ \A p \in Pot : (\E th \in Thread : Admit(p, th) \/ Charge(p, th)) \/ Leave(p)

Spec == Init /\ [][Next]_vars

-----------------------------------------------------------------------------
\* The cap of a pot is overshot by less than one call for every caller.
OvershootBounded ==
    Enforced => \A p \in Pot : spent[p] < Cap[p] + MaxCost * Cardinality(Thread)

\* The inductive invariant behind it: money is set aside for the callers in flight.
Reserved ==
    /\ spent \in [Pot -> Nat]
    /\ inflight \in [Pot -> SUBSET Thread]
    /\ Enforced => \A p \in Pot :
          spent[p] + MaxCost * Cardinality(inflight[p])
              < Cap[p] + MaxCost * Cardinality(Thread)
=============================================================================
