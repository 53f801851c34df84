----------------------- MODULE MCRollingWeekCounter -----------------------
(* RollingWeekCounter with one cap for every dimension. *)
EXTENDS RollingWeekCounter, TLC

CONSTANTS EveryCap, EveryMaxKeys, InstantsPerWeek

MCCap == [d \in Dim |-> EveryCap]
MCMaxKeys == [d \in Dim |-> EveryMaxKeys]
MCWeek == [t \in 0..MaxClock |-> t \div InstantsPerWeek]

Symmetry == Permutations(Thread) \cup Permutations(Key)
=============================================================================
