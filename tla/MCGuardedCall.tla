---------------------------- MODULE MCGuardedCall ----------------------------
(* GuardedCall with a gate, two nested budgets, a counter, totals and one more hook. *)
EXTENDS GuardedCall, TLC

CONSTANTS SmallLimit, LargeLimit

MCHook == {"gate", "run", "sweep", "windowed", "totals", "log"}

MCKind == [h \in MCHook |-> CASE h = "gate" -> "gate"
                              [] h \in {"run", "sweep"} -> "budget"
                              [] h = "windowed" -> "cap"
                              [] h = "totals" -> "totals"
                              [] OTHER -> "other"]

MCLimit == [h \in {"run", "sweep", "windowed"} |->
              IF h = "run" THEN SmallLimit ELSE LargeLimit]

\* The gate first and the log last, and the other way round.
MCChains == {<<"gate", "run", "sweep", "windowed", "totals", "log">>,
             <<"log", "totals", "windowed", "sweep", "run", "gate">>}

Symmetry == Permutations(Thread)
=============================================================================
