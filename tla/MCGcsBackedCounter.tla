------------------------ MODULE MCGcsBackedCounter ------------------------
(* GcsBackedCounter on a few calls. *)
EXTENDS GcsBackedCounter, TLC

Symmetry == Permutations(Call)
=============================================================================
