--------------------------- MODULE MCCostCounter ---------------------------
(* CostCounter on small calendars and caps. *)
EXTENDS CostCounter, TLC

CONSTANTS HourlyCap, DailyCap, WeeklyCap, KeepHourly, KeepDaily, KeepWeekly,
          HoursPerDay, HoursPerWeek

MCCap == [hourly |-> HourlyCap, daily |-> DailyCap, weekly |-> WeeklyCap]
MCKeep == [hourly |-> KeepHourly, daily |-> KeepDaily, weekly |-> KeepWeekly]

\* One instant per hour.
MCBucket ==
    [hourly |-> [t \in 0..MaxClock |-> t],
     daily  |-> [t \in 0..MaxClock |-> t \div HoursPerDay],
     weekly |-> [t \in 0..MaxClock |-> t \div HoursPerWeek]]

Symmetry == Permutations(Thread) \cup Permutations(Token)
=============================================================================
