------------------------------ MODULE Cadence ------------------------------
(***************************************************************************)
(* A local day of the collector under its 15-minute trigger.  A sample     *)
(* run is one step here (module Collector has its inside): it starts on    *)
(* time or late, skips if its timestamp has a batch, and otherwise stores a *)
(* batch or fails.  A trigger may also be lost: no runner, a superseded    *)
(* job.                                                                    *)
(***************************************************************************)
EXTENDS Tiers, FiniteSets

CONSTANTS
    Days,          \* the days: each the instants of two successive midnights
    TriggerEvery,  \* the period of the external trigger
    Delays,        \* how late a run may start
    MaxFaults      \* bound: late, failed and lost triggers in a day

ASSUME DayAssumption ==
    /\ \A d \in Days : d.start \in Int /\ d.end \in Int /\ d.start < d.end
    /\ TriggerEvery \in Nat \ {0}
    /\ Delays \subseteq 0..(TriggerEvery - 1)
    /\ MaxFaults \in Nat

\* The window opens and closes on slot boundaries, and clocks change on a whole
\* UTC hour: so in the deployed schedule (18:30 to 22:30 by 15, 02:00 local),
\* but StreamSchedule does not demand the first.
Aligned ==
    /\ Start % Granularity = 0
    /\ End % Granularity = 0
    /\ ClockChange % 60 = 0

\* The trigger fires at every boundary, from one boundary to another, and a run
\* starts before the next: so in the deployed cadence, every 15 minutes.
Cadenced ==
    /\ TriggerEvery = Granularity
    /\ \A d \in Days : d.start % Granularity = 0 /\ d.end % Granularity = 0

\* The days run from local midnight to local midnight, and clocks change, if they
\* do, before the window opens, on the old clock and on the new one.
LocalDays ==
    \A d \in Days :
        /\ LocalTime(d.start) % MinutesPerDay = 0
        /\ LocalTime(d.end) = LocalTime(d.start) + MinutesPerDay
        /\ d.start < ClockChange /\ ClockChange <= d.end =>
             /\ ClockChange - d.start <= Start
             /\ LocalTime(ClockChange) - LocalTime(d.start) \in 0..Start

VARIABLES
    day,      \* the day that is modelled
    due,      \* when the next trigger is due
    batches,  \* the slots of the batches stored
    lost,     \* the triggers that left no batch: lost or failed
    faults

dayVars == <<day, due, batches, lost, faults>>

DuesOf == [d \in Days |->
    {t \in d.start..(d.end - 1) : (t - d.start) % TriggerEvery = 0}]
Dues == DuesOf[day]

DayTypeOK ==
    /\ day \in Days
    /\ due \in Dues \cup {day.end}
    /\ batches \in SUBSET Slot
    /\ lost \subseteq Dues
    /\ faults \in 0..MaxFaults

DayInit ==
    /\ day \in Days
    /\ due = day.start /\ batches = {} /\ lost = {} /\ faults = 0

\* Slip: timestamps compared by the hour.
SampledHour(ts) == \E b \in batches : b.ts \div 60 = ts \div 60

Sampled(ts) == \E b \in batches : b.ts = ts

Fault == faults < MaxFaults /\ faults' = faults + 1

\* The run due now, starting delay minutes late, and ending well.
Sample(delay) ==
    /\ due < day.end
    /\ IF delay = 0 THEN faults' = faults ELSE Fault
    /\ LET s == ResolveSlot(due + delay)
       IN  batches' = IF Sampled(s.ts) THEN batches ELSE batches \cup {s}
    /\ due' = due + TriggerEvery
    /\ UNCHANGED <<day, lost>>

\* The run finds its timestamp empty and fails, or there is no run.
Lose ==
    /\ due < day.end
    /\ Fault
    /\ lost' = lost \cup {due}
    /\ due' = due + TriggerEvery
    /\ UNCHANGED <<day, batches>>

DayNext == Lose \/ \E delay \in Delays : Sample(delay)

DaySpec == DayInit /\ [][DayNext]_dayVars

----------------------------------------------------------------------------
(* Properties *)

OfTier(tier) == {b \in batches : b.tier = tier}
DayOver == due = day.end

\* A slot that is due stays unsampled only if every one of its triggers was
\* lost: a baseline hour is recovered by any later run of the hour, and a late
\* run never samples a slot other than its own (OPERATIONS.md:126, tiers.py:16).
OnlyLostTriggersLoseSlots ==
    \A t \in Dues : t < due =>
        \/ Sampled(ResolveSlot(t).ts)
        \/ \A u \in Dues :
             u < due /\ ResolveSlot(u).ts = ResolveSlot(t).ts => u \in lost

\* A window slot has exactly one trigger (OPERATIONS.md:128): it has a window
\* batch unless that trigger was lost, and a later baseline run under the same
\* timestamp never passes for it.
WindowSlotHasOneTrigger ==
    \A t \in Dues : t < due /\ ResolveSlot(t).tier = "window" =>
        (ResolveSlot(t) \in batches <=> t \notin lost)

Hours == (day.end - day.start) \div 60
StreamDay == Weekday(day.start) \in Weekdays

\* The slots of the window, and the whole hours it takes from the baseline.
WindowSlots == (End - Start) \div Granularity
WindowHours == Cardinality({h \in 0..23 : Start <= 60 * h /\ 60 * h < End})

\* What the routine check expects of a day in which nothing was lost, late runs
\* or not (OPERATIONS.md:50): every slot of the window and every hour outside it,
\* in a day of 24 hours, or of 23 or 25 when the clocks change.
DayTotals ==
    DayOver /\ lost = {} =>
        IF StreamDay
        THEN /\ Cardinality(OfTier("window")) = WindowSlots
             /\ Cardinality(batches) = Hours + WindowSlots - WindowHours
        ELSE OfTier("window") = {} /\ Cardinality(batches) = Hours

\* The window batches are those of the local clock, counted back from the
\* midnight after it: also on the day the clocks change, on the new clock
\* (tiers.py:98).
WindowOnTheWall ==
    DayOver /\ lost = {} /\ StreamDay =>
        {b.ts : b \in OfTier("window")} =
            {day.end - MinutesPerDay + Start + Granularity * k : k \in 0..(WindowSlots - 1)}
=============================================================================
