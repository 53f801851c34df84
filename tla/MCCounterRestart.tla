------------------------- MODULE MCCounterRestart --------------------------
(* CounterRestart on small calendars and caps. *)
EXTENDS CounterRestart, TLC

CONSTANTS HourlyCap, DailyCap, WeeklyCap, KeepEach, HoursPerDay, HoursPerWeek

MCCap == [hourly |-> HourlyCap, daily |-> DailyCap, weekly |-> WeeklyCap]
MCKeep == [w \in Window |-> KeepEach]

\* One instant per hour.
MCBucket ==
    [hourly |-> [t \in 0..MaxClock |-> t],
     daily  |-> [t \in 0..MaxClock |-> t \div HoursPerDay],
     weekly |-> [t \in 0..MaxClock |-> t \div HoursPerWeek]]

Symmetry == Permutations(Thread)
=============================================================================
