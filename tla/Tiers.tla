------------------------------- MODULE Tiers -------------------------------
(***************************************************************************)
(* The tier decision and the slot timestamp of src/twitch_scout/collect/    *)
(* tiers.py: a pure function of the instant at which the collector reads    *)
(* its clock.                                                              *)
(*                                                                         *)
(* An instant is an integer number of minutes in UTC, counted from some    *)
(* Monday 00:00 UTC.  The code also discards seconds and microseconds when *)
(* it floors, and its window bounds are whole minutes, so two instants of  *)
(* the same minute are never told apart.                                   *)
(***************************************************************************)
EXTENDS Integers

CONSTANTS
    Weekdays,      \* local weekdays with a stream, Monday = 0
    Start, End,    \* the stream window, minutes after local midnight
    Granularity,   \* width of a window slot in minutes
    ClockChange,   \* instant of the one DST change of the modelled span
    OffsetBefore,  \* minutes Pacific time is behind UTC before ClockChange
    OffsetAfter    \* and from ClockChange on

MinutesPerHour == 60
MinutesPerDay == 24 * MinutesPerHour

\* StreamSchedule.__post_init__ raises ValueError on anything else.
ScheduleOK ==
    /\ Weekdays # {} /\ Weekdays \subseteq 0..6
    /\ Start \in 0..(MinutesPerDay - 1)
    /\ End \in 0..(MinutesPerDay - 1)
    /\ Start < End
    /\ Granularity \in 1..MinutesPerHour
    /\ MinutesPerHour % Granularity = 0

ASSUME ScheduleAssumption == ScheduleOK

\* America/Los_Angeles is 8 hours behind UTC, or 7 under daylight saving.
ASSUME ZoneAssumption ==
    /\ ClockChange \in Int
    /\ OffsetBefore \in {420, 480}
    /\ OffsetAfter \in {420, 480}

Tier == {"window", "baseline"}
Slot == [tier : Tier, ts : Int]

----------------------------------------------------------------------------
\* zoneinfo: the local wall clock at UTC instant t.
PacificOffset(t) == IF t < ClockChange THEN OffsetBefore ELSE OffsetAfter
LocalTime(t) == t - PacificOffset(t)
Weekday(t) == (LocalTime(t) \div MinutesPerDay) % 7

\* Slip: the time of day is standard time, also in summer.
StandardMinute(t) == (t - OffsetBefore) % MinutesPerDay

MinuteOfDay(t) == LocalTime(t) % MinutesPerDay

\* Slip: the window closed at its end.
InClosedWindow(t) ==
    /\ Weekday(t) \in Weekdays
    /\ Start <= MinuteOfDay(t)
    /\ MinuteOfDay(t) <= End

InStreamWindow(t) ==
    /\ Weekday(t) \in Weekdays
    /\ Start <= MinuteOfDay(t)
    /\ MinuteOfDay(t) < End

\* Slip: rounding to the nearest boundary.
NearestBoundary(t, minutes) ==
    LET f == t + (minutes \div 2)
    IN  f - ((f % MinutesPerHour) % minutes)

\* Flooring works on the minute of the UTC hour, not on the minutes since an
\* origin; the two agree because the granularity divides 60.
FloorToMinutes(t, minutes) == t - ((t % MinutesPerHour) % minutes)
FloorToHour(t) == t - (t % MinutesPerHour)

\* slot_for: the slot of an instant under a forced tier.
SlotFor(t, tier) ==
    [tier |-> tier,
     ts   |-> IF tier = "window" THEN FloorToMinutes(t, Granularity)
                                 ELSE FloorToHour(t)]

\* resolve_slot: the clock decides the tier as well.
ResolveSlot(t) ==
    SlotFor(t, IF InStreamWindow(t) THEN "window" ELSE "baseline")
=============================================================================
