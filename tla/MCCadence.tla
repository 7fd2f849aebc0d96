----------------------------- MODULE MCCadence -----------------------------
(* Days of the collector for TLC, around the Sunday in March on which the   *)
(* clocks go forward at 10:00 UTC; minute 0 is Monday 00:00 UTC.  With a     *)
(* stream on that Sunday its window is on the new clock, its first hours    *)
(* are on the old one.                                                     *)
EXTENDS Cadence

MCWeekdays == {1, 3, 5, 6}
MCDelays == {0, 14}
MCChange == 6 * 1440 + 10 * 60

\* Tuesday and Friday under standard time, the Sunday of 23 hours.
MCDays == {[start |-> 1440 + 480,     end |-> 2 * 1440 + 480],
           [start |-> 4 * 1440 + 480, end |-> 5 * 1440 + 480],
           [start |-> 6 * 1440 + 480, end |-> 7 * 1440 + 420]}

\* The counts OPERATIONS.md:50 gives for the deployed window: 16 slots, and 12
\* more batches than a day has hours.
ASSUME Deployed == WindowSlots = 16 /\ WindowSlots - WindowHours = 12

\* The days above are as the theorems about a day suppose.
ASSUME Supposed == Aligned /\ Cadenced /\ LocalDays
=============================================================================
