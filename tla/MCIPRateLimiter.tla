-------------------------- MODULE MCIPRateLimiter --------------------------
(* IPRateLimiter on one client and windows of a few ticks. *)
EXTENDS IPRateLimiter, TLC

Symmetry == Permutations(Thread)
=============================================================================
