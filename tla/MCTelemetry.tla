---------------------------- MODULE MCTelemetry ----------------------------
(* Telemetry with the hooks in the order the docs give, and in another. *)
EXTENDS Telemetry, TLC

\* The span is opened before the identity is stamped on it, after, and without any.
MCChains == {<<"span", "identity", "other", "log">>,
             <<"other", "identity", "log", "span">>,
             <<"other", "span">>}

Symmetry == Permutations(Thread)
=============================================================================
