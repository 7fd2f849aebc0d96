---------------------------- MODULE TiersProofs ----------------------------
(***************************************************************************)
(* What the flooring of instants to slots guarantees, for every schedule   *)
(* StreamSchedule accepts and every instant, and what follows from it for  *)
(* a day of triggers.                                                      *)
(***************************************************************************)
EXTENDS Cadence, FiniteSetTheorems, TLAPS

\* The granularities that __post_init__ lets through.
LEMMA Divisors == Granularity \in {1, 2, 3, 4, 5, 6, 10, 12, 15, 20, 30, 60}
BY ScheduleAssumption, Z3 DEF ScheduleOK, MinutesPerHour

\* Flooring the minute of the hour is flooring the instant.
LEMMA FloorByRemainder ==
    ASSUME NEW t \in Int
    PROVE  /\ (t % 60) % Granularity = t % Granularity
           /\ t % Granularity \in 0..(Granularity - 1)
           /\ t % Granularity <= t % 60
<1>1. CASE Granularity \in {1, 2, 3, 4, 5, 6}
  BY <1>1, Z3
<1>2. CASE Granularity \in {10, 12, 15, 20, 30, 60}
  BY <1>2, Z3
<1> QED
  BY <1>1, <1>2, Divisors

LEMMA FloorIsRemainder ==
    ASSUME NEW t \in Int
    PROVE  /\ FloorToMinutes(t, Granularity) = t - (t % Granularity)
           /\ FloorToHour(t) = t - (t % 60)
BY FloorByRemainder DEF FloorToMinutes, FloorToHour, MinutesPerHour

\* Within a slot, every instant floors to the same boundary.
LEMMA SameSlot ==
    ASSUME NEW t \in Int, NEW d \in 0..(Granularity - 1), t % Granularity = 0
    PROVE  /\ t + d \in Int
           /\ (t + d) % Granularity = d
           /\ (t + d) % 60 = (t % 60) + d
<1>1. d \in Int /\ 0 <= d
  BY Divisors
<1>2. CASE Granularity \in {1, 2, 3, 4, 5, 6}
  BY <1>1, <1>2, Z3
<1>3. CASE Granularity \in {10, 12, 15, 20, 30, 60}
  BY <1>1, <1>3, Z3
<1> QED
  BY <1>1, <1>2, <1>3, Divisors

\* No boundary lies strictly inside a slot.
LEMMA NoBoundaryInside ==
    ASSUME NEW a \in Int, NEW b \in Int, NEW d \in 0..(Granularity - 1),
           a % Granularity = 0, b % Granularity = 0
    PROVE  a <= b + d <=> a <= b
<1>1. d \in Int /\ 0 <= d /\ d < Granularity
  BY Divisors
<1>2. CASE Granularity \in {1, 2, 3}
  BY <1>1, <1>2, Z3
<1>3. CASE Granularity \in {4, 5, 6}
  BY <1>1, <1>3, Z3
<1>4. CASE Granularity \in {10, 12, 15}
  BY <1>1, <1>4, Z3
<1>5. CASE Granularity \in {20, 30, 60}
  BY <1>1, <1>5, Z3
<1> QED
  BY <1>2, <1>3, <1>4, <1>5, Divisors

\* A slot boundary in UTC is one on the local clock, and the minutes that follow
\* it within the slot stay on one local day and one side of the DST change.
LEMMA LocalClock ==
    ASSUME Aligned, NEW t \in Int, NEW d \in 0..(Granularity - 1),
           t % Granularity = 0
    PROVE  /\ PacificOffset(t + d) = PacificOffset(t)
           /\ MinuteOfDay(t) \in 0..1439
           /\ MinuteOfDay(t) % Granularity = 0
           /\ MinuteOfDay(t + d) = MinuteOfDay(t) + d
           /\ Weekday(t + d) = Weekday(t)
<1>1. d \in Int /\ 0 <= d /\ Granularity \in Int /\ d < Granularity
  BY Divisors
<1>2. ClockChange \in Int /\ ClockChange % 60 = 0
  BY ZoneAssumption DEF Aligned
<1>3. PacificOffset(t + d) = PacificOffset(t)
  <2>1. t < ClockChange => t + d < ClockChange
    <3>1. CASE Granularity \in {1, 2, 3, 4, 5, 6}
      BY <1>1, <1>2, <3>1, Z3
    <3>2. CASE Granularity \in {10, 12, 15, 20, 30, 60}
      BY <1>1, <1>2, <3>2, Z3
    <3> QED
      BY <3>1, <3>2, Divisors
  <2> QED
    BY <1>1, <1>2, <2>1 DEF PacificOffset
<1>4. PacificOffset(t) \in {420, 480}
  BY ZoneAssumption DEF PacificOffset
<1>5. PICK off \in {420, 480} : off = PacificOffset(t)
  BY <1>4
<1>6. LocalTime(t) = t - off /\ LocalTime(t + d) = (t - off) + d
  BY <1>1, <1>3, <1>5 DEF LocalTime
<1>7. (t - off) % Granularity = 0
  <2>1. CASE Granularity \in {1, 2, 3, 4, 5, 6}
    BY <1>5, <2>1, Z3
  <2>2. CASE Granularity \in {10, 12, 15, 20, 30, 60}
    BY <1>5, <2>2, Z3
  <2> QED
    BY <2>1, <2>2, Divisors
<1>8. PICK l \in Int : l = t - off
  BY <1>5
<1>9. /\ l % 1440 \in 0..1439
      /\ (l % 1440) % Granularity = 0
      /\ (l + d) % 1440 = (l % 1440) + d
      /\ (l + d) \div 1440 = l \div 1440
  <2>1. l % Granularity = 0
    BY <1>7, <1>8
  <2>2. CASE Granularity \in {1, 2, 3, 4, 5, 6}
    BY <1>1, <2>1, <2>2, Z3
  <2>3. CASE Granularity \in {10, 12, 15}
    BY <1>1, <2>1, <2>3, Z3
  <2>4. CASE Granularity \in {20, 30, 60}
    BY <1>1, <2>1, <2>4, Z3
  <2> QED
    BY <2>2, <2>3, <2>4, Divisors
<1> QED
  BY <1>3, <1>6, <1>8, <1>9 DEF MinuteOfDay, Weekday, MinutesPerDay, MinutesPerHour

\* In and out of the window does not change within a slot.
LEMMA SameTier ==
    ASSUME Aligned, NEW t \in Int, NEW d \in 0..(Granularity - 1),
           t % Granularity = 0
    PROVE  InStreamWindow(t + d) <=> InStreamWindow(t)
<1>1. /\ Start \in Int /\ End \in Int
      /\ Start % Granularity = 0 /\ End % Granularity = 0
  BY ScheduleAssumption DEF ScheduleOK, Aligned, MinutesPerDay, MinutesPerHour
<1>2. /\ MinuteOfDay(t) \in 0..1439
      /\ MinuteOfDay(t) % Granularity = 0
      /\ MinuteOfDay(t + d) = MinuteOfDay(t) + d
      /\ Weekday(t + d) = Weekday(t)
  BY LocalClock
<1>3. MinuteOfDay(t) \in Int /\ d \in Int
  BY <1>2, Divisors
<1>4. Start <= MinuteOfDay(t) + d <=> Start <= MinuteOfDay(t)
  BY <1>1, <1>2, <1>3, NoBoundaryInside
<1>5. End <= MinuteOfDay(t) + d <=> End <= MinuteOfDay(t)
  BY <1>1, <1>2, <1>3, NoBoundaryInside
<1> QED
  BY <1>1, <1>2, <1>3, <1>4, <1>5 DEF InStreamWindow

\* "The granularity matches the trigger cadence so a late fire stays in its
\* intended slot instead of colliding with the next one" (tiers.py:16): a run
\* that starts less than a granularity after its slot's boundary resolves to
\* the tier and the timestamp it would have resolved to on time, in the stream
\* window, outside, at both edges and around a change of the clocks.
THEOREM LateFireKeepsSlot ==
    ASSUME Aligned, NEW t \in Int, NEW d \in 0..(Granularity - 1),
           t % Granularity = 0
    PROVE  ResolveSlot(t + d) = ResolveSlot(t)
<1>1. d \in Int /\ t % 60 \in Int
  BY Divisors
<1>2. /\ t + d \in Int
      /\ (t + d) % Granularity = d
      /\ (t + d) % 60 = (t % 60) + d
  BY SameSlot
<1>3. /\ FloorToMinutes(t + d, Granularity) = (t + d) - d
      /\ FloorToMinutes(t, Granularity) = t - 0
  BY <1>2, FloorIsRemainder
<1>4. /\ FloorToHour(t + d) = (t + d) - ((t % 60) + d)
      /\ FloorToHour(t) = t - (t % 60)
  BY <1>2, FloorIsRemainder
<1>5. /\ FloorToMinutes(t + d, Granularity) = FloorToMinutes(t, Granularity)
      /\ FloorToHour(t + d) = FloorToHour(t)
  BY <1>1, <1>3, <1>4
<1> QED
  BY <1>5, SameTier DEF ResolveSlot, SlotFor

\* The timestamp of a window slot is itself an instant of the stream window, on
\* a boundary; that of a baseline slot is a whole hour.
THEOREM SlotFitsTier ==
    ASSUME Aligned, NEW t \in Int
    PROVE  LET s == ResolveSlot(t)
           IN  IF s.tier = "window"
               THEN InStreamWindow(s.ts) /\ s.ts % Granularity = 0
               ELSE s.ts % 60 = 0
<1> DEFINE f == t - (t % Granularity)
<1>1. /\ f \in Int /\ f % Granularity = 0
      /\ t % Granularity \in 0..(Granularity - 1)
      /\ t = f + (t % Granularity)
  <2>1. CASE Granularity \in {1, 2, 3, 4, 5, 6}
    BY <2>1, Z3
  <2>2. CASE Granularity \in {10, 12, 15, 20, 30, 60}
    BY <2>2, Z3
  <2> QED
    BY <2>1, <2>2, Divisors
<1> HIDE DEF f
<1>2. InStreamWindow(t) <=> InStreamWindow(f)
  BY <1>1, SameTier
<1>3. (t - (t % 60)) % 60 = 0
  BY Z3
<1> QED
  BY <1>1, <1>2, <1>3, FloorIsRemainder DEF ResolveSlot, SlotFor, f

----------------------------------------------------------------------------
(* A day of triggers *)

\* The triggers are due at the boundaries of the day.
LEMMA DuesAreBoundaries ==
    ASSUME Cadenced, day \in Days
    PROVE  /\ day.start \in Int /\ day.end \in Int /\ day.start < day.end
           /\ day.start % Granularity = 0 /\ day.end % Granularity = 0
           /\ \A t : t \in Dues <=>
                        /\ t \in Int /\ day.start <= t /\ t < day.end
                        /\ t % Granularity = 0
<1>1. /\ day.start \in Int /\ day.end \in Int /\ day.start < day.end
      /\ day.start % Granularity = 0 /\ day.end % Granularity = 0
  BY DayAssumption DEF Cadenced
<1>2. Dues = {t \in day.start..(day.end - 1) : (t - day.start) % Granularity = 0}
  BY DEF Dues, DuesOf, Cadenced
<1>3. PICK s \in Int : s = day.start
  BY <1>1
<1>4. ASSUME NEW t \in Int
      PROVE  (t - s) % Granularity = 0 <=> t % Granularity = 0
  <2>1. s % Granularity = 0
    BY <1>1, <1>3
  <2>2. CASE Granularity \in {1, 2, 3, 4, 5, 6}
    BY <2>1, <2>2, Z3
  <2>3. CASE Granularity \in {10, 12, 15, 20, 30, 60}
    BY <2>1, <2>3, Z3
  <2> QED
    BY <2>2, <2>3, Divisors
<1> QED
  BY <1>1, <1>2, <1>3, <1>4

\* After a boundary comes the next one.
LEMMA NextBoundary ==
    ASSUME NEW t \in Int, NEW u \in Int, t % Granularity = 0, u % Granularity = 0
    PROVE  /\ t + Granularity \in Int /\ (t + Granularity) % Granularity = 0
           /\ u < t + Granularity <=> u <= t
<1>1. CASE Granularity \in {1, 2, 3}
  BY <1>1, Z3
<1>2. CASE Granularity \in {4, 5, 6}
  BY <1>2, Z3
<1>3. CASE Granularity \in {10, 12, 15}
  BY <1>3, Z3
<1>4. CASE Granularity \in {20, 30, 60}
  BY <1>4, Z3
<1> QED
  BY <1>1, <1>2, <1>3, <1>4, Divisors

\* The slot of a boundary: no later than the boundary, and the boundary itself
\* in the stream window.
LEMMA SlotOfBoundary ==
    ASSUME NEW t \in Int, t % Granularity = 0
    PROVE  /\ ResolveSlot(t) \in Slot
           /\ ResolveSlot(t).ts \in Int /\ ResolveSlot(t).ts <= t
           /\ ResolveSlot(t).tier = "window" => ResolveSlot(t).ts = t
<1>1. FloorToMinutes(t, Granularity) = t
  BY FloorIsRemainder
<1>2. /\ FloorToHour(t) = t - (t % 60)
      /\ t % 60 \in 0..59
  BY FloorIsRemainder
<1>3. FloorToHour(t) \in Int /\ FloorToHour(t) <= t
  BY <1>2
<1>4. CASE InStreamWindow(t)
  <2>1. ResolveSlot(t) = [tier |-> "window", ts |-> t]
    BY <1>1, <1>4 DEF ResolveSlot, SlotFor
  <2> QED
    BY <2>1 DEF Slot, Tier
<1>5. CASE ~InStreamWindow(t)
  <2>1. ResolveSlot(t) = [tier |-> "baseline", ts |-> FloorToHour(t)]
    BY <1>5 DEF ResolveSlot, SlotFor
  <2> QED
    BY <2>1, <1>3 DEF Slot, Tier
<1> QED
  BY <1>4, <1>5

\* What has passed: the triggers before the next one left every batch, and the
\* lost ones are among them.
Past ==
    /\ \A u \in lost : u < due
    /\ \A b \in batches : \E u \in Dues : u < due /\ b = ResolveSlot(u)

Follows ==
    /\ day' = day /\ due' \in Dues \cup {day.end}
    /\ \A t \in Dues : t < due' <=> t <= due
    /\ faults' \in 0..MaxFaults
    /\ \/ lost' = lost \cup {due} /\ batches' = batches
       \/ /\ lost' = lost
          /\ IF Sampled(ResolveSlot(due).ts)
             THEN batches' = batches
             ELSE batches' = batches \cup {ResolveSlot(due)}

\* A step deals with the trigger that is due, whose slot a late run keeps.
LEMMA EveryTrigger ==
    ASSUME Aligned, Cadenced, DayTypeOK, DayNext
    PROVE  due \in Dues /\ Follows
<1>1. /\ day \in Days /\ due \in Dues \cup {day.end}
      /\ faults \in 0..MaxFaults
  BY DEF DayTypeOK
<1>2. /\ TriggerEvery = Granularity /\ MaxFaults \in Nat
      /\ Delays \subseteq 0..(Granularity - 1)
  BY DayAssumption DEF Cadenced
<1>3. /\ day.end \in Int /\ day.end % Granularity = 0
      /\ \A t : t \in Dues <=>
                   /\ t \in Int /\ day.start <= t /\ t < day.end
                   /\ t % Granularity = 0
  BY <1>1, DuesAreBoundaries
<1>4. day' = day /\ due < day.end /\ due' = due + Granularity
  BY <1>2 DEF DayNext, Lose, Sample
<1>5. due \in Dues /\ due \in Int /\ day.start <= due /\ due % Granularity = 0
  BY <1>1, <1>3, <1>4
<1>6. due' \in Int /\ due' % Granularity = 0 /\ day.start <= due'
  <2>1. Granularity \in Nat
    BY Divisors
  <2>2. due' \in Int /\ due' % Granularity = 0
    BY <1>4, <1>5, NextBoundary
  <2>3. day.start \in Int
    BY <1>1, DuesAreBoundaries
  <2> QED
    BY <1>4, <1>5, <2>1, <2>2, <2>3
<1>7. \A t \in Dues : t < due' <=> t <= due
  BY <1>3, <1>4, <1>5, NextBoundary
<1>8. due' \in Dues \cup {day.end}
  <2>1. day.end < due' <=> day.end <= due
    BY <1>3, <1>4, <1>5, NextBoundary
  <2>2. due' < day.end \/ due' = day.end
    BY <1>3, <1>4, <1>5, <1>6, <2>1
  <2> QED
    BY <1>3, <1>6, <2>2
<1>9. faults' \in 0..MaxFaults
  BY <1>1, <1>2 DEF DayNext, Lose, Sample, Fault
<1>10. CASE Lose
  BY <1>4, <1>5, <1>7, <1>8, <1>9, <1>10 DEF Lose, Follows
<1>11. ASSUME NEW delay \in Delays, Sample(delay)
       PROVE  Follows
  <2>1. ResolveSlot(due + delay) = ResolveSlot(due)
    BY <1>2, <1>5, LateFireKeepsSlot
  <2> QED
    BY <1>4, <1>7, <1>8, <1>9, <1>11, <2>1 DEF Sample, Follows
<1> QED
  BY <1>5, <1>10, <1>11 DEF DayNext

\* A run stores nothing under a timestamp that has a batch.
OneOfEach == \A b, c \in batches : b.ts = c.ts => b = c

DayInv ==
    /\ DayTypeOK
    /\ Past
    /\ OneOfEach
    /\ OnlyLostTriggersLoseSlots
    /\ WindowSlotHasOneTrigger

LEMMA DueSlots ==
    ASSUME Aligned, Cadenced, day \in Days
    PROVE  \A t \in Dues :
             /\ t \in Int /\ ResolveSlot(t) \in Slot
             /\ ResolveSlot(t).ts \in Int /\ ResolveSlot(t).ts <= t
             /\ ResolveSlot(t).tier = "window" => ResolveSlot(t).ts = t
BY DuesAreBoundaries, SlotOfBoundary

LEMMA DayStarts ==
    ASSUME Aligned, Cadenced, DayInit
    PROVE  DayInv
<1>1. day \in Days /\ due = day.start /\ batches = {} /\ lost = {} /\ faults = 0
  BY DEF DayInit
<1>2. due \in Dues /\ ~\E t \in Dues : t < due
  BY <1>1, DuesAreBoundaries
<1>3. MaxFaults \in Nat
  BY DayAssumption DEF Cadenced
<1> QED
  BY <1>1, <1>2, <1>3 DEF DayInv, Past, DayTypeOK, OneOfEach,
     OnlyLostTriggersLoseSlots, WindowSlotHasOneTrigger

LEMMA DayTyped ==
    ASSUME Aligned, Cadenced, DayInv, due \in Dues, Follows
    PROVE  DayTypeOK' /\ Past' /\ OneOfEach'
<1>1. day \in Days /\ batches \in SUBSET Slot /\ lost \subseteq Dues
  BY DEF DayInv, DayTypeOK
<1>2. day' = day /\ Dues' = Dues
  BY DEF Follows, Dues, DuesOf
<1>3. ResolveSlot(due) \in Slot
  BY <1>1, DueSlots
<1>4. DayTypeOK'
  BY <1>1, <1>2, <1>3 DEF Follows, DayTypeOK
<1>5. /\ \A t \in Dues : t < due' <=> t <= due
      /\ \A t \in Dues : t \in Int
  BY <1>1, DueSlots DEF Follows
<1>6. \A u \in lost' : u < due'
  BY <1>1, <1>5 DEF Follows, DayInv, Past
<1>7. \A b \in batches' : \E u \in Dues : u < due' /\ b = ResolveSlot(u)
  BY <1>5 DEF Follows, DayInv, Past
<1>8. OneOfEach'
  BY DEF Follows, DayInv, OneOfEach, Sampled
<1> QED
  BY <1>2, <1>4, <1>6, <1>7, <1>8 DEF Past

\* Among the triggers of a slot, one that left no batch is lost.
LEMMA DayLosesLost ==
    ASSUME Aligned, Cadenced, DayInv, due \in Dues, Follows
    PROVE  OnlyLostTriggersLoseSlots'
<1>1. day' = day /\ Dues' = Dues
  BY DEF Follows, Dues, DuesOf
<1>2. /\ \A t \in Dues : t < due' <=> t <= due
      /\ \A t \in Dues : t \in Int
  BY DueSlots DEF Follows, DayInv, DayTypeOK
<1>3. \A t \in Dues : t < due' => t < due \/ t = due
  BY <1>2
<1>4. lost \subseteq lost' /\ batches \subseteq batches'
  BY DEF Follows
<1> DEFINE Stored(ts)  == \E b \in batches : b.ts = ts
<1> DEFINE StoredN(ts) == \E b \in batches' : b.ts = ts
<1>5. \A t \in Dues : t < due =>
        \/ Stored(ResolveSlot(t).ts)
        \/ \A u \in Dues :
             u < due /\ ResolveSlot(u).ts = ResolveSlot(t).ts => u \in lost
  BY DEF DayInv, OnlyLostTriggersLoseSlots, Sampled
<1>6. \A ts : Stored(ts) => StoredN(ts)
  BY <1>4
<1>7. due \in lost' \/ StoredN(ResolveSlot(due).ts)
  BY <1>6 DEF Follows, Sampled
<1> HIDE DEF Stored, StoredN
<1>8. ASSUME NEW t \in Dues, t < due',
             NEW u \in Dues, u < due', ResolveSlot(u).ts = ResolveSlot(t).ts
      PROVE  u \in lost' \/ StoredN(ResolveSlot(t).ts)
  BY <1>3, <1>4, <1>5, <1>6, <1>7, <1>8
<1>9. \A t \in Dues : t < due' =>
        \/ StoredN(ResolveSlot(t).ts)
        \/ \A u \in Dues :
             u < due' /\ ResolveSlot(u).ts = ResolveSlot(t).ts => u \in lost'
  BY <1>8
<1> QED
  BY <1>1, <1>9
     DEF StoredN, OnlyLostTriggersLoseSlots, Sampled

\* No other trigger of the day has the timestamp of a window slot.
LEMMA DayKeepsWindow ==
    ASSUME Aligned, Cadenced, DayInv, due \in Dues, Follows
    PROVE  WindowSlotHasOneTrigger'
<1>1. day' = day /\ Dues' = Dues
  BY DEF Follows, Dues, DuesOf
<1>2. /\ \A t \in Dues : t < due' <=> t <= due
      /\ \A t \in Dues :
           /\ t \in Int /\ ResolveSlot(t).ts \in Int /\ ResolveSlot(t).ts <= t
           /\ ResolveSlot(t).tier = "window" => ResolveSlot(t).ts = t
  BY DueSlots DEF Follows, DayInv, DayTypeOK
<1>3. \A t \in Dues : t < due' => t < due \/ t = due
  BY <1>2
<1>4. /\ \A u \in lost : u < due
      /\ \A b \in batches : \E u \in Dues : u < due /\ b = ResolveSlot(u)
  BY DEF DayInv, Past
<1>5. \A t \in Dues : t < due /\ ResolveSlot(t).tier = "window" =>
        (ResolveSlot(t) \in batches <=> t \notin lost)
  BY DEF DayInv, WindowSlotHasOneTrigger
<1>6. ASSUME NEW t \in Dues, t < due, ResolveSlot(t).tier = "window"
      PROVE  ResolveSlot(t) \in batches' <=> t \notin lost'
  <2>1. t # due /\ ResolveSlot(t) # ResolveSlot(due)
    BY <1>2, <1>6
  <2> QED
    BY <1>5, <1>6, <2>1 DEF Follows
<1>7. ASSUME ResolveSlot(due).tier = "window"
      PROVE  ResolveSlot(due) \in batches' <=> due \notin lost'
  <2>1. \A b \in batches : b.ts # ResolveSlot(due).ts
    BY <1>2, <1>4, <1>7
  <2>2. due \notin lost
    BY <1>2, <1>4
  <2> QED
    BY <2>1, <2>2 DEF Follows, Sampled
<1>8. \A t \in Dues : t < due' /\ ResolveSlot(t).tier = "window" =>
        (ResolveSlot(t) \in batches' <=> t \notin lost')
  BY <1>3, <1>6, <1>7
<1> QED
  BY <1>1, <1>8 DEF WindowSlotHasOneTrigger

LEMMA DayHolds ==
    ASSUME Aligned, Cadenced
    PROVE  DaySpec => []DayInv
<1>1. DayInit => DayInv
  BY DayStarts
<1>2. DayInv /\ [DayNext]_dayVars => DayInv'
  <2> SUFFICES ASSUME DayInv, [DayNext]_dayVars
               PROVE  DayInv'
    OBVIOUS
  <2>1. CASE DayNext
    <3>1. due \in Dues /\ Follows
      BY <2>1, EveryTrigger DEF DayInv
    <3> QED
      BY <3>1, DayTyped, DayLosesLost, DayKeepsWindow DEF DayInv
  <2>2. CASE UNCHANGED dayVars
    BY <2>2 DEF dayVars, DayInv, Past, DayTypeOK, OneOfEach, Dues, DuesOf,
       OnlyLostTriggersLoseSlots, WindowSlotHasOneTrigger, Sampled
  <2> QED
    BY <2>1, <2>2
<1> QED
  BY <1>1, <1>2, PTL DEF DaySpec

\* The variables of the day keep their types: triggers stay on the boundaries of
\* the day, to its end, and what a run stores is a slot.
THEOREM DayIsTyped ==
    ASSUME Aligned, Cadenced
    PROVE  DaySpec => []DayTypeOK
<1>1. DayInv => DayTypeOK
  BY DEF DayInv
<1> QED
  BY <1>1, DayHolds, PTL

\* A slot that is due goes unsampled only if every one of its triggers was lost
\* (OPERATIONS.md:126, tiers.py:16), for every schedule on the boundaries, every
\* day, and late runs, lost triggers and failed runs in any order and number.
THEOREM RecoveryIsComplete ==
    ASSUME Aligned, Cadenced
    PROVE  DaySpec => []OnlyLostTriggersLoseSlots
<1>1. DayInv => OnlyLostTriggersLoseSlots
  BY DEF DayInv
<1> QED
  BY <1>1, DayHolds, PTL

\* A window slot has one trigger (OPERATIONS.md:128): it is stored exactly when
\* that trigger was not lost.
THEOREM WindowHasNoRecovery ==
    ASSUME Aligned, Cadenced
    PROVE  DaySpec => []WindowSlotHasOneTrigger
<1>1. DayInv => WindowSlotHasOneTrigger
  BY DEF DayInv
<1> QED
  BY <1>1, DayHolds, PTL

----------------------------------------------------------------------------
(* The batches of a whole day *)

\* A set that is in one-to-one correspondence with a finite one.
LEMMA SameSize ==
    ASSUME NEW S, NEW T, IsFiniteSet(S), NEW f \in [S -> T],
           \A x, y \in S : f[x] = f[y] => x = y,
           \A y \in T : \E x \in S : y = f[x]
    PROVE  IsFiniteSet(T) /\ Cardinality(T) = Cardinality(S)
<1>1. f \in Bijection(S, T)
  BY DEF Bijection, Injection, Surjection, IsInjective
<1> QED
  BY <1>1, FS_Bijection DEF ExistsBijection

\* n instants, a step apart.
LEMMA Progression ==
    ASSUME NEW a \in Int, NEW step \in Nat \ {0}, NEW n \in Nat
    PROVE  LET P == {a + step * k : k \in 0..(n - 1)}
           IN  IsFiniteSet(P) /\ Cardinality(P) = n
<1> DEFINE S == 0..(n - 1)
<1> DEFINE P == {a + step * k : k \in S}
<1> DEFINE f == [k \in S |-> a + step * k]
<1>1. IsFiniteSet(S) /\ Cardinality(S) = n
  BY FS_Interval
<1>2. \A x, y \in S : step * x = step * y => x = y
  BY SMT
<1>3. f \in [S -> P] /\ \A y \in P : \E x \in S : y = f[x]
  OBVIOUS
<1>4. \A x \in S : step * x \in Int
  OBVIOUS
<1>5. \A x, y \in S : f[x] = f[y] => x = y
  BY <1>2, <1>4
<1> HIDE DEF f, P, S
<1>6. IsFiniteSet(P) /\ Cardinality(P) = Cardinality(S)
  BY <1>1, <1>3, <1>5, SameSize
<1> QED
  BY <1>1, <1>6 DEF P, S

Boundaries == {x \in Int : x % Granularity = 0}

\* Boundaries are the multiples of the granularity, whole hours among them.
LEMMA Multiples ==
    /\ \A x \in Boundaries : \E k \in Int : x = Granularity * k
    /\ \A k \in Int : Granularity * k \in Boundaries
    /\ \A x, y \in Boundaries : x + y \in Boundaries /\ x - y \in Boundaries
    /\ \A x \in Int : x % 60 = 0 => x \in Boundaries
<1>1. ASSUME NEW x \in Int
      PROVE  /\ x % Granularity = 0 => x = Granularity * (x \div Granularity)
             /\ x \div Granularity \in Int
             /\ Granularity * x \in Int /\ (Granularity * x) % Granularity = 0
             /\ x % 60 = 0 => x % Granularity = 0
  <2>1. CASE Granularity \in {1, 2, 3, 4, 5, 6}
    BY <2>1, Z3
  <2>2. CASE Granularity \in {10, 12, 15, 20, 30, 60}
    BY <2>2, Z3
  <2> QED
    BY <2>1, <2>2, Divisors
<1>2. ASSUME NEW x \in Boundaries, NEW y \in Boundaries
      PROVE  x + y \in Boundaries /\ x - y \in Boundaries
  <2>1. x \in Int /\ y \in Int /\ x % Granularity = 0 /\ y % Granularity = 0
    BY DEF Boundaries
  <2>2. (x + y) % Granularity = 0 /\ (x - y) % Granularity = 0
    <3>1. CASE Granularity \in {1, 2, 3, 4, 5, 6}
      BY <2>1, <3>1, Z3
    <3>2. CASE Granularity \in {10, 12, 15, 20, 30, 60}
      BY <2>1, <3>2, Z3
    <3> QED
      BY <3>1, <3>2, Divisors
  <2> QED
    BY <2>1, <2>2 DEF Boundaries
<1>3. ASSUME NEW x \in Boundaries
      PROVE  \E k \in Int : x = Granularity * k
  <2>1. x \in Int /\ x % Granularity = 0
    BY DEF Boundaries
  <2> QED
    BY <1>1, <2>1
<1>4. ASSUME NEW k \in Int
      PROVE  Granularity * k \in Boundaries
  BY <1>1 DEF Boundaries
<1>5. ASSUME NEW x \in Int, x % 60 = 0
      PROVE  x \in Boundaries
  BY <1>1, <1>5 DEF Boundaries
<1> QED
  BY <1>2, <1>3, <1>4, <1>5

\* The instant at which the window opens.
Opening == day.end - 1440 + Start

\* All instants of the day have the weekday of its start; in the window, the
\* local clock runs back from the midnight at its end.
LEMMA ClockOfDay ==
    ASSUME LocalDays, day \in Days
    PROVE  /\ day.start % 60 = 0 /\ day.end % 60 = 0
           /\ Opening \in Int /\ day.start <= Opening
           /\ \A t \in day.start..(day.end - 1) :
                /\ Weekday(t) = Weekday(day.start)
                /\ Start <= MinuteOfDay(t) <=> Opening <= t
                /\ Start <= MinuteOfDay(t) => MinuteOfDay(t) = t - (day.end - 1440)
<1>1. /\ ClockChange \in Int
      /\ OffsetBefore \in {420, 480} /\ OffsetAfter \in {420, 480}
  BY ZoneAssumption
<1>2. Start \in Int /\ 0 <= Start /\ Start <= 1439
  BY ScheduleAssumption DEF ScheduleOK, MinutesPerDay, MinutesPerHour
<1>3. day.start \in Int /\ day.end \in Int /\ day.start < day.end
  BY DayAssumption
<1>4. PICK s \in Int, e \in Int : s = day.start /\ e = day.end
  BY <1>3
<1>5. PICK before \in {420, 480}, after \in {420, 480} :
        before = OffsetBefore /\ after = OffsetAfter
  BY <1>1
<1>6. \A t \in Int : /\ t < ClockChange => LocalTime(t) = t - before
                     /\ ~(t < ClockChange) => LocalTime(t) = t - after
  BY <1>1, <1>5 DEF LocalTime, PacificOffset
<1>7. PICK l \in Int : l = LocalTime(s)
  BY <1>1, <1>4, <1>5, <1>6
<1>8. /\ l % 1440 = 0
      /\ LocalTime(e) = l + 1440
      /\ s < ClockChange /\ ClockChange <= e =>
           /\ ClockChange - s <= Start
           /\ LocalTime(ClockChange) - l \in 0..Start
  BY <1>4, <1>7 DEF LocalDays, MinutesPerDay, MinutesPerHour
<1>9. s % 60 = 0 /\ e % 60 = 0
  <2>1. l % 60 = 0 /\ (l + 1440) % 60 = 0
    BY <1>8, Z3
  <2>2. s - l \in {420, 480} /\ e - (l + 1440) \in {420, 480}
    BY <1>1, <1>5, <1>6, <1>7, <1>8
  <2> QED
    BY <2>1, <2>2, Z3
<1> DEFINE Reads(t) == \E m \in Int :
        /\ 0 <= m /\ m <= 1439
        /\ LocalTime(t) = l + m
        /\ Start <= m <=> e - 1440 + Start <= t
        /\ Start <= m => m = t - (e - 1440)
<1> DEFINE ClockRuns == s <= e - 1440 + Start /\ \A t \in s..(e - 1) : Reads(t)
<1>10. ASSUME s < ClockChange, ClockChange <= e PROVE ClockRuns
  <2>1. l = s - before /\ l + 1440 = e - after
    BY <1>1, <1>4, <1>6, <1>7, <1>8, <1>10
  <2>2. LocalTime(ClockChange) = ClockChange - after
    BY <1>1, <1>6
  <2>3. /\ ClockChange - s <= Start
        /\ 0 <= ClockChange - after - l /\ ClockChange - after - l <= Start
    BY <1>1, <1>2, <1>5, <1>8, <1>10, <2>2
  <2>4. /\ s <= e - 1440 + Start
        /\ e - 1440 <= ClockChange /\ ClockChange <= e - 1440 + Start
    BY <1>1, <1>2, <1>10, <2>1, <2>3
  <2>5. ASSUME NEW t \in s..(e - 1)
        PROVE  Reads(t)
    <3>1. t \in Int /\ s <= t /\ t < e
      OBVIOUS
    <3>2. CASE t < ClockChange
      <4>1. LocalTime(t) = l + (t - s)
        BY <1>6, <2>1, <3>1, <3>2
      <4>2. t - s < Start /\ t - s \in 0..1439
        BY <1>1, <1>2, <2>3, <3>1, <3>2
      <4>3. t < e - 1440 + Start
        BY <1>1, <1>2, <2>4, <3>1, <3>2
      <4>4. PICK m \in Int : m = t - s /\ 0 <= m /\ m <= 1439
        BY <3>1, <4>2
      <4>5. LocalTime(t) = l + m /\ ~(Start <= m) /\ ~(e - 1440 + Start <= t)
        BY <1>2, <3>1, <4>1, <4>2, <4>3, <4>4
      <4> QED
        BY <4>4, <4>5
    <3>3. CASE ~(t < ClockChange)
      <4>1. LocalTime(t) = l + (t - (e - 1440))
        BY <1>6, <2>1, <3>1, <3>3
      <4>2. e - 1440 <= t /\ t < (e - 1440) + 1440
        BY <1>1, <2>4, <3>1, <3>3
      <4>3. PICK m \in Int : m = t - (e - 1440) /\ 0 <= m /\ m <= 1439
        BY <3>1, <4>2
      <4>4. /\ LocalTime(t) = l + m
            /\ Start <= m <=> e - 1440 + Start <= t
            /\ m = t - (e - 1440)
        BY <1>2, <3>1, <4>1, <4>3
      <4> QED
        BY <4>3, <4>4
    <3> HIDE DEF Reads
    <3> QED
      BY <3>2, <3>3
  <2> HIDE DEF Reads
  <2> QED
    BY <2>4, <2>5
<1>11. ASSUME ~(s < ClockChange /\ ClockChange <= e) PROVE ClockRuns
  <2>1. \E off \in {420, 480} : \A t \in s..e : LocalTime(t) = t - off
    BY <1>1, <1>6, <1>11
  <2>2. PICK off \in {420, 480} : \A t \in s..e : LocalTime(t) = t - off
    BY <2>1
  <2>3. l = s - off /\ l + 1440 = e - off
    BY <1>3, <1>4, <1>7, <1>8, <2>2
  <2>4. ASSUME NEW t \in s..(e - 1)
        PROVE  Reads(t)
    <3>1. /\ LocalTime(t) = l + (t - s)
          /\ t - s \in 0..1439 /\ s = e - 1440
      BY <2>2, <2>3
    <3>2. PICK m \in Int : m = t - s /\ 0 <= m /\ m <= 1439
      BY <3>1
    <3>3. LocalTime(t) = l + m /\ t = (e - 1440) + m
      BY <3>1, <3>2
    <3>4. (Start <= m <=> e - 1440 + Start <= t) /\ m = t - (e - 1440)
      BY <1>2, <3>2, <3>3
    <3> QED
      BY <3>2, <3>3, <3>4
  <2> HIDE DEF Reads
  <2> QED
    BY <1>2, <2>3, <2>4
<1> HIDE DEF Reads
<1>12. ClockRuns
  BY <1>10, <1>11
<1>13. ASSUME NEW t \in s..(e - 1)
       PROVE  /\ Weekday(t) = Weekday(s)
              /\ Start <= MinuteOfDay(t) <=> e - 1440 + Start <= t
              /\ Start <= MinuteOfDay(t) => MinuteOfDay(t) = t - (e - 1440)
  <2> HIDE DEF Reads
  <2>0. Reads(t)
    BY <1>12
  <2>1. PICK m \in Int :
          /\ 0 <= m /\ m <= 1439
          /\ LocalTime(t) = l + m
          /\ Start <= m <=> e - 1440 + Start <= t
          /\ Start <= m => m = t - (e - 1440)
    BY <2>0 DEF Reads
  <2>2. l % 1440 = 0
    BY <1>8
  <2>3. (l + m) % 1440 = m /\ (l + m) \div 1440 = l \div 1440
    BY <2>1, <2>2, Z3
  <2>4. LocalTime(t) % 1440 = m /\ LocalTime(t) \div 1440 = l \div 1440
    BY <2>1, <2>3
  <2> QED
    BY <1>7, <2>1, <2>4 DEF MinuteOfDay, Weekday, MinutesPerDay, MinutesPerHour
<1> QED
  <2>1. Opening = e - 1440 + Start /\ Opening \in Int
    BY <1>2, <1>4 DEF Opening
  <2>2. s <= e - 1440 + Start
    BY <1>12
  <2> QED
    BY <1>4, <1>9, <1>13, <2>1, <2>2

\* The triggers due in the window, and the whole hours of the day.
WindowDues == {t \in Dues : InStreamWindow(t)}
HourDues == {t \in day.start..(day.end - 1) : t % 60 = 0}

\* On a stream day the triggers of the window are a granularity apart from its
\* opening on; on another day there are none.
LEMMA WindowOfDay ==
    ASSUME Aligned, Cadenced, LocalDays, day \in Days
    PROVE  /\ WindowSlots \in Nat
           /\ WindowDues = IF StreamDay
                           THEN {Opening + Granularity * k : k \in 0..(WindowSlots - 1)}
                           ELSE {}
<1>1. /\ Start \in 0..1439 /\ End \in 0..1439 /\ Start < End
      /\ Start \in Boundaries /\ End \in Boundaries
  BY ScheduleAssumption
     DEF ScheduleOK, Aligned, Boundaries, MinutesPerDay, MinutesPerHour
<1>2. /\ day.start \in Int /\ day.end \in Boundaries
      /\ \A t : t \in Dues <=>
                   t \in Boundaries /\ day.start <= t /\ t < day.end
  BY DuesAreBoundaries DEF Boundaries
<1>3. /\ Opening \in Int /\ day.start <= Opening
      /\ Opening = (day.end - 1440) + Start
      /\ \A t \in day.start..(day.end - 1) :
           /\ Weekday(t) = Weekday(day.start)
           /\ Start <= MinuteOfDay(t) <=> Opening <= t
           /\ Start <= MinuteOfDay(t) => MinuteOfDay(t) = t - (day.end - 1440)
  BY ClockOfDay DEF Opening
<1>4. Boundaries \subseteq Int /\ Opening \in Boundaries
  <2>1. 1440 % 60 = 0
    BY Z3
  <2>2. 1440 \in Boundaries
    BY <2>1, Multiples
  <2>3. day.end - 1440 \in Boundaries
    BY <1>2, <2>2, Multiples
  <2>4. PICK x \in Boundaries : x = day.end - 1440
    BY <2>3
  <2>5. x + Start \in Boundaries
    BY <1>1, Multiples
  <2> QED
    BY <1>3, <2>4, <2>5 DEF Boundaries
<1>5. Granularity \in Nat \ {0}
  BY Divisors
<1>6. WindowSlots \in Nat /\ End - Start = Granularity * WindowSlots
  <2>1. End - Start \in Boundaries
    BY <1>1, Multiples
  <2>2. PICK k \in Int : End - Start = Granularity * k
    BY <2>1, Multiples
  <2>3. (Granularity * k) \div Granularity = k
    BY Divisors, Z3
  <2> QED
    BY <1>1, <1>5, <2>2, <2>3, SMT DEF WindowSlots
<1>7. \A t \in Dues : InStreamWindow(t) <=>
        StreamDay /\ Opening <= t /\ t < Opening + Granularity * WindowSlots
  <2> SUFFICES ASSUME NEW t \in Dues
               PROVE  InStreamWindow(t) <=>
                        StreamDay /\ Opening <= t /\ t < Opening + Granularity * WindowSlots
    OBVIOUS
  <2>1. t \in Int /\ day.end \in Int /\ day.start <= t /\ t < day.end
    BY <1>2, <1>4
  <2>2. /\ Weekday(t) = Weekday(day.start)
        /\ Start <= MinuteOfDay(t) <=> Opening <= t
        /\ Start <= MinuteOfDay(t) => MinuteOfDay(t) = t - (day.end - 1440)
    BY <1>2, <1>3, <2>1
  <2>3. Opening + Granularity * WindowSlots = (day.end - 1440) + End
    BY <1>1, <1>3, <1>6, <2>1
  <2> QED
    BY <1>1, <2>1, <2>2, <2>3 DEF InStreamWindow, StreamDay
<1>8. CASE ~StreamDay
  BY <1>6, <1>7, <1>8 DEF WindowDues
<1>9. CASE StreamDay
  <2>1. ASSUME NEW t \in WindowDues
        PROVE  \E k \in 0..(WindowSlots - 1) : t = Opening + Granularity * k
    <3>1. /\ t \in Boundaries /\ t \in Int
          /\ Opening <= t /\ t < Opening + Granularity * WindowSlots
      BY <1>2, <1>4, <1>7 DEF WindowDues
    <3>2. t - Opening \in Boundaries
      BY <1>4, <3>1, Multiples
    <3>3. PICK k \in Int : t - Opening = Granularity * k
      BY <3>2, Multiples
    <3>4. 0 <= k /\ k < WindowSlots
      <4>1. 0 <= Granularity * k /\ Granularity * k < Granularity * WindowSlots
        BY <1>3, <1>5, <1>6, <3>1, <3>3
      <4> QED
        BY <1>5, <1>6, <4>1, SMT
    <3> QED
      BY <1>3, <1>6, <3>1, <3>3, <3>4
  <2>2. ASSUME NEW k \in 0..(WindowSlots - 1)
        PROVE  Opening + Granularity * k \in WindowDues
    <3>1. /\ Granularity * k \in Int
          /\ 0 <= Granularity * k /\ Granularity * k < Granularity * WindowSlots
      BY <1>5, <1>6, SMT
    <3>2. PICK t \in Int : t = Opening + Granularity * k
      BY <1>3, <3>1
    <3>3. t \in Boundaries
      <4>1. Granularity * k \in Boundaries
        BY Multiples
      <4> QED
        BY <1>4, <3>2, <4>1, Multiples
    <3>4. t \in Dues
      <4>1. day.end \in Int
        BY <1>2, <1>4
      <4>2. day.start <= t /\ t < day.end
        <5>1. PICK x \in Int : x = Granularity * k
          BY <3>1
        <5>2. 0 <= x /\ x < End - Start
          BY <1>6, <3>1, <5>1
        <5>3. t = Opening + x
          BY <3>2, <5>1
        <5>4. day.start \in Int /\ Opening \in Int
          BY <1>2, <1>3
        <5> QED
          BY <1>1, <1>3, <4>1, <5>2, <5>3, <5>4
      <4> QED
        BY <1>2, <3>3, <4>2
    <3>5. Opening <= t /\ t < Opening + Granularity * WindowSlots
      BY <1>3, <1>5, <1>6, <3>1, <3>2
    <3> QED
      BY <1>7, <1>9, <3>2, <3>4, <3>5 DEF WindowDues
  <2> QED
    BY <1>6, <1>9, <2>1, <2>2
<1> QED
  BY <1>8, <1>9

\* A day has a whole hour every 60 minutes from its start on.
LEMMA HoursOfDay ==
    ASSUME LocalDays, day \in Days
    PROVE  IsFiniteSet(HourDues) /\ Cardinality(HourDues) = Hours
<1>1. /\ day.start \in Int /\ day.end \in Int /\ day.start < day.end
      /\ day.start % 60 = 0 /\ day.end % 60 = 0
  BY DayAssumption, ClockOfDay
<1>2. Hours \in Nat /\ day.end = day.start + 60 * Hours
  BY <1>1, Z3 DEF Hours
<1>3. HourDues = {day.start + 60 * k : k \in 0..(Hours - 1)}
  <2>1. ASSUME NEW t \in HourDues
        PROVE  \E k \in 0..(Hours - 1) : t = day.start + 60 * k
    <3>1. t \in Int /\ day.start <= t /\ t < day.end /\ t % 60 = 0
      BY <1>1 DEF HourDues
    <3>2. PICK x \in Int, k \in Int : x = t - day.start /\ k = x \div 60
      BY <1>1, <3>1
    <3>3. x % 60 = 0
      BY <1>1, <3>1, <3>2, Z3
    <3>4. x = 60 * k
      BY <3>2, <3>3, Z3
    <3> QED
      BY <1>1, <1>2, <3>1, <3>2, <3>4
  <2>2. ASSUME NEW k \in 0..(Hours - 1)
        PROVE  day.start + 60 * k \in HourDues
    <3>1. (day.start + 60 * k) % 60 = 0
      BY <1>1, Z3
    <3> QED
      BY <1>1, <1>2, <3>1 DEF HourDues
  <2> QED
    BY <2>1, <2>2
<1>4. IsFiniteSet({day.start + 60 * k : k \in 0..(Hours - 1)}) /\
      Cardinality({day.start + 60 * k : k \in 0..(Hours - 1)}) = Hours
  <2>1. PICK n \in Nat, first \in Int : n = Hours /\ first = day.start
    BY <1>1, <1>2
  <2>2. 60 \in Nat \ {0}
    OBVIOUS
  <2>3. LET T == {first + 60 * k : k \in 0..(n - 1)}
        IN  IsFiniteSet(T) /\ Cardinality(T) = n
    BY <2>2, Progression
  <2> QED
    BY <2>1, <2>3
<1> QED
  BY <1>3, <1>4

\* The whole hours that the window takes from the baseline.
LEMMA HoursInWindow ==
    ASSUME Aligned, Cadenced, LocalDays, day \in Days, StreamDay
    PROVE  Cardinality(WindowDues \cap HourDues) = WindowHours
<1> DEFINE H == {h \in 0..23 : Start <= 60 * h /\ 60 * h < End}
<1> DEFINE T == WindowDues \cap HourDues
<1> DEFINE f == [h \in H |-> (day.end - 1440) + 60 * h]
<1>1. /\ Start \in Int /\ 0 <= Start /\ End \in Int /\ End <= 1439 /\ Start < End
      /\ Weekday(day.start) \in Weekdays
  BY ScheduleAssumption DEF ScheduleOK, MinutesPerDay, MinutesPerHour, StreamDay
<1>2. /\ day.start \in Int /\ day.end \in Int
      /\ \A t : t \in Dues <=>
                   /\ t \in Int /\ day.start <= t /\ t < day.end
                   /\ t % Granularity = 0
  BY DuesAreBoundaries
<1>3. /\ day.end % 60 = 0
      /\ Opening = (day.end - 1440) + Start /\ day.start <= Opening
      /\ \A t \in day.start..(day.end - 1) :
           /\ Weekday(t) = Weekday(day.start)
           /\ Start <= MinuteOfDay(t) <=> Opening <= t
           /\ Start <= MinuteOfDay(t) => MinuteOfDay(t) = t - (day.end - 1440)
  BY ClockOfDay DEF Opening
<1>4. \A t \in day.start..(day.end - 1) :
        InStreamWindow(t) <=>
          Start <= t - (day.end - 1440) /\ t - (day.end - 1440) < End
  BY <1>1, <1>2, <1>3 DEF InStreamWindow
<1>5. ASSUME NEW h \in H
      PROVE  (day.end - 1440) + 60 * h \in T
  <2>1. h \in 0..23 /\ Start <= 60 * h /\ 60 * h < End
    OBVIOUS
  <2>2. PICK t \in Int : t = (day.end - 1440) + 60 * h
    BY <1>2, <2>1
  <2>3. t % 60 = 0
    BY <1>2, <1>3, <2>1, <2>2, Z3
  <2>4. t \in day.start..(day.end - 1)
    BY <1>1, <1>2, <1>3, <2>1, <2>2
  <2>5. t \in Dues
    <3>1. t \in Boundaries
      BY <2>3, Multiples
    <3> QED
      BY <1>2, <2>4, <3>1 DEF Boundaries
  <2>6. InStreamWindow(t)
    BY <1>2, <1>4, <2>1, <2>2, <2>4
  <2> QED
    BY <2>2, <2>3, <2>4, <2>5, <2>6 DEF WindowDues, HourDues
<1>6. ASSUME NEW t \in T
      PROVE  \E h \in H : t = (day.end - 1440) + 60 * h
  <2>1. /\ t \in day.start..(day.end - 1) /\ t \in Int /\ t % 60 = 0
        /\ InStreamWindow(t)
    BY <1>2 DEF WindowDues, HourDues
  <2>2. PICK x \in Int : x = t - (day.end - 1440)
    BY <1>2, <2>1
  <2>3. Start <= x /\ x < End
    BY <1>4, <2>1, <2>2
  <2>4. x % 60 = 0
    BY <1>2, <1>3, <2>1, <2>2, Z3
  <2>5. PICK h \in Int : x = 60 * h
    <3>1. x = 60 * (x \div 60) /\ x \div 60 \in Int
      BY <2>4, Z3
    <3> QED
      BY <3>1
  <2>6. h \in 0..23
    <3>1. 0 <= x /\ x <= 1439
      BY <1>1, <2>3
    <3> QED
      BY <2>5, <3>1, Z3
  <2> QED
    BY <1>2, <2>1, <2>2, <2>3, <2>5, <2>6
<1>7. H \subseteq Int /\ IsFiniteSet(H)
  <2>1. \A n \in Int : IsFiniteSet(0..n)
    BY FS_Interval
  <2>2. 23 \in Int
    OBVIOUS
  <2>3. IsFiniteSet(0..23)
    BY <2>1, <2>2, Zenon
  <2>4. H \in SUBSET (0..23) /\ H \subseteq Int
    OBVIOUS
  <2> HIDE DEF H
  <2> QED
    BY <2>3, <2>4, FS_Subset
<1> HIDE DEF H, T
<1>8. f \in [H -> T] /\ \A t \in T : \E h \in H : t = f[h]
  BY <1>5, <1>6
<1>9. \A x, y \in H : f[x] = f[y] => x = y
  BY <1>2, <1>7
<1> HIDE DEF f
<1>10. Cardinality(T) = Cardinality(H)
  BY <1>7, <1>8, <1>9, SameSize
<1> QED
  BY <1>10 DEF WindowHours, H, T

\* The timestamps of the day: every slot of the window and every whole hour.
LEMMA TimesOfDay ==
    ASSUME Aligned, Cadenced, LocalDays, day \in Days
    PROVE  {ResolveSlot(t).ts : t \in Dues} = WindowDues \cup HourDues
<1>1. /\ day.start \in Int /\ day.end \in Int /\ day.start % 60 = 0
      /\ \A t : t \in Dues <=>
                   /\ t \in Int /\ day.start <= t /\ t < day.end
                   /\ t % Granularity = 0
  BY DuesAreBoundaries, ClockOfDay
<1>2. ASSUME NEW t \in Dues, InStreamWindow(t)
      PROVE  ResolveSlot(t).ts = t /\ t \in WindowDues
  BY <1>1, <1>2, SlotOfBoundary DEF ResolveSlot, SlotFor, WindowDues
<1>3. ASSUME NEW t \in Dues, ~InStreamWindow(t)
      PROVE  ResolveSlot(t).ts = t - (t % 60)
  BY <1>1, <1>3, FloorIsRemainder DEF ResolveSlot, SlotFor
<1>4. ASSUME NEW t \in Dues
      PROVE  t - (t % 60) \in HourDues
  <2>1. t \in Int /\ day.start <= t /\ t < day.end
    BY <1>1
  <2>2. PICK s \in Int : s = day.start
    BY <1>1
  <2>3. s % 60 = 0 /\ s <= t
    BY <1>1, <2>1, <2>2
  <2>4. /\ t - (t % 60) \in Int /\ (t - (t % 60)) % 60 = 0
        /\ s <= t - (t % 60) /\ t - (t % 60) <= t
    BY <2>1, <2>3, Z3
  <2> QED
    BY <1>1, <2>1, <2>2, <2>4 DEF HourDues
<1>5. ASSUME NEW t \in HourDues
      PROVE  t \in Dues /\ ResolveSlot(t).ts = t
  <2>1. t \in Int /\ day.start <= t /\ t < day.end /\ t % 60 = 0
    BY <1>1 DEF HourDues
  <2>2. t \in Dues
    BY <1>1, <2>1, Multiples DEF Boundaries
  <2> QED
    BY <1>2, <1>3, <2>1, <2>2
<1>6. WindowDues \subseteq Dues /\ \A t \in WindowDues : InStreamWindow(t)
  BY DEF WindowDues
<1>7. ASSUME NEW t \in Dues
      PROVE  ResolveSlot(t).ts \in WindowDues \cup HourDues
  BY <1>2, <1>3, <1>4
<1>8. ASSUME NEW ts \in WindowDues \cup HourDues
      PROVE  ts \in Dues /\ ResolveSlot(ts).ts = ts
  BY <1>2, <1>5, <1>6
<1> QED
  BY <1>7, <1>8

\* At the end of a day without losses, the batches are those of its window slots
\* and its hours.
LEMMA WholeDay ==
    ASSUME Aligned, Cadenced, LocalDays, DayInv, DayOver, lost = {}
    PROVE  /\ OfTier("window") = {[tier |-> "window", ts |-> t] : t \in WindowDues}
           /\ {b.ts : b \in batches} = WindowDues \cup HourDues
<1>1. /\ day \in Days /\ due = day.end
      /\ \A b \in batches : \E u \in Dues : u < due /\ b = ResolveSlot(u)
  BY DEF DayInv, DayTypeOK, DayOver, Past
<1>2. \A t \in Dues : /\ t \in Int /\ t < due /\ t % Granularity = 0
                      /\ ResolveSlot(t).tier = "window" =>
                           ResolveSlot(t).ts = t
  BY <1>1, DuesAreBoundaries, DueSlots
<1>3. \A t \in Dues : ResolveSlot(t).tier = "window" <=> InStreamWindow(t)
  BY DEF ResolveSlot, SlotFor
<1>4. ASSUME NEW t \in WindowDues
      PROVE  /\ ResolveSlot(t) = [tier |-> "window", ts |-> t]
             /\ ResolveSlot(t) \in batches
  <2>1. t \in Dues /\ InStreamWindow(t)
    BY DEF WindowDues
  <2>2. ResolveSlot(t).ts = t /\ ResolveSlot(t).tier = "window"
    BY <1>2, <1>3, <2>1
  <2>3. ResolveSlot(t) = [tier |-> "window", ts |-> t]
    BY <2>1, <2>2 DEF ResolveSlot, SlotFor
  <2>4. ResolveSlot(t) \in batches
    BY <1>2, <2>1, <2>2 DEF DayInv, WindowSlotHasOneTrigger
  <2> QED
    BY <2>3, <2>4
<1>5. ASSUME NEW b \in OfTier("window")
      PROVE  \E t \in WindowDues : b = [tier |-> "window", ts |-> t]
  <2>1. PICK u \in Dues : b = ResolveSlot(u)
    BY <1>1 DEF OfTier
  <2>2. u \in WindowDues
    BY <1>3, <2>1 DEF OfTier, WindowDues
  <2> QED
    BY <1>4, <2>1, <2>2
<1>6. OfTier("window") = {[tier |-> "window", ts |-> t] : t \in WindowDues}
  BY <1>4, <1>5 DEF OfTier
<1>7. {b.ts : b \in batches} = {ResolveSlot(t).ts : t \in Dues}
  <2>1. ASSUME NEW t \in Dues
        PROVE  \E b \in batches : b.ts = ResolveSlot(t).ts
    BY <1>2 DEF DayInv, OnlyLostTriggersLoseSlots, Sampled
  <2> QED
    BY <1>1, <2>1
<1> QED
  BY <1>1, <1>6, <1>7, TimesOfDay

\* The window batches of a stream day without losses lie where the local clock
\* has the window, for every schedule on the boundaries, in a day of any length
\* (tiers.py:98).
THEOREM WindowFollowsTheClock ==
    ASSUME Aligned, Cadenced, LocalDays
    PROVE  DaySpec => []WindowOnTheWall
<1>1. DayInv => WindowOnTheWall
  <2> SUFFICES ASSUME DayInv, DayOver, lost = {}, StreamDay
               PROVE  {b.ts : b \in OfTier("window")} =
                        {Opening + Granularity * k : k \in 0..(WindowSlots - 1)}
    BY DEF WindowOnTheWall, Opening, MinutesPerDay, MinutesPerHour
  <2>1. {b.ts : b \in OfTier("window")} = WindowDues
    <3>1. OfTier("window") = {[tier |-> "window", ts |-> t] : t \in WindowDues}
      BY WholeDay
    <3>2. ASSUME NEW t \in WindowDues
          PROVE  \E b \in OfTier("window") : t = b.ts
      <4>1. [tier |-> "window", ts |-> t].ts = t
        OBVIOUS
      <4> QED
        BY <3>1, <4>1
    <3>3. \A b \in OfTier("window") : b.ts \in WindowDues
      BY <3>1
    <3> QED
      BY <3>2, <3>3
  <2>2. day \in Days
    BY DEF DayInv, DayTypeOK
  <2> QED
    BY <2>1, <2>2, WindowOfDay
<1> QED
  BY <1>1, DayHolds, PTL

\* The counts of the routine check (OPERATIONS.md:50), as counts of any window
\* on the boundaries: a day without losses ends with a batch for every slot of
\* the window and every hour outside, also when it has 23 or 25.
THEOREM RoutineCheckCounts ==
    ASSUME Aligned, Cadenced, LocalDays
    PROVE  DaySpec => []DayTotals
<1>1. ASSUME DayInv, DayOver, lost = {}
      PROVE  IF StreamDay
             THEN /\ Cardinality(OfTier("window")) = WindowSlots
                  /\ Cardinality(batches) = Hours + WindowSlots - WindowHours
             ELSE OfTier("window") = {} /\ Cardinality(batches) = Hours
  <2> DEFINE Times == {b.ts : b \in batches}
  <2> DEFINE Windows == {[tier |-> "window", ts |-> t] : t \in WindowDues}
  <2>1. day \in Days /\ OneOfEach
    BY <1>1 DEF DayInv, DayTypeOK
  <2>2. OfTier("window") = Windows /\ Times = WindowDues \cup HourDues
    BY <1>1, WholeDay
  <2>3. /\ WindowSlots \in Nat
        /\ WindowDues = IF StreamDay
                        THEN {Opening + Granularity * k : k \in 0..(WindowSlots - 1)}
                        ELSE {}
    BY <2>1, WindowOfDay
  <2>4. /\ IsFiniteSet(WindowDues)
        /\ Cardinality(WindowDues) = IF StreamDay THEN WindowSlots ELSE 0
    <3>1. Opening \in Int /\ Granularity \in Nat \ {0}
      BY <2>1, ClockOfDay, Divisors
    <3>2. CASE StreamDay
      BY <2>3, <3>1, <3>2, Progression
    <3>3. CASE ~StreamDay
      BY <2>3, <3>3, FS_EmptySet
    <3> QED
      BY <3>2, <3>3
  <2>5. IsFiniteSet(HourDues) /\ Cardinality(HourDues) = Hours
    BY <2>1, HoursOfDay
  <2>6. /\ IsFiniteSet(Times)
        /\ Cardinality(Times) = Cardinality(WindowDues) + Hours
                                  - Cardinality(WindowDues \cap HourDues)
    BY <2>2, <2>4, <2>5, FS_Union
  <2>7. Cardinality(batches) = Cardinality(Times)
    <3> DEFINE f == [ts \in Times |-> CHOOSE b \in batches : b.ts = ts]
    <3>1. \A ts \in Times : f[ts] \in batches /\ f[ts].ts = ts
      OBVIOUS
    <3>2. \A b \in batches : b.ts \in Times /\ f[b.ts] = b
      BY <2>1, <3>1 DEF OneOfEach
    <3>3. f \in [Times -> batches]
      BY <3>1
    <3> HIDE DEF f, Times
    <3>4. \A x, y \in Times : f[x] = f[y] => x = y
      BY <3>1
    <3>5. \A b \in batches : \E x \in Times : b = f[x]
      BY <3>2
    <3> QED
      BY <2>6, <3>3, <3>4, <3>5, SameSize
  <2>8. Cardinality(Windows) = Cardinality(WindowDues)
    <3> DEFINE f == [t \in WindowDues |-> [tier |-> "window", ts |-> t]]
    <3>1. /\ f \in [WindowDues -> Windows]
          /\ \A x, y \in WindowDues : f[x] = f[y] => x = y
          /\ \A b \in Windows : \E t \in WindowDues : b = f[t]
      OBVIOUS
    <3> HIDE DEF f, Windows
    <3> QED
      BY <2>4, <3>1, SameSize
  <2> HIDE DEF Times, Windows
  <2>9. CASE StreamDay
    <3>1. Cardinality(WindowDues \cap HourDues) = WindowHours
      BY <2>1, <2>9, HoursInWindow
    <3>2. Hours \in Nat
      BY <2>5, FS_CardinalityType
    <3>3. WindowHours \in Nat
      BY <2>4, <3>1, FS_Intersection, FS_CardinalityType
    <3> QED
      BY <2>2, <2>3, <2>4, <2>6, <2>7, <2>8, <2>9, <3>1, <3>2, <3>3
  <2>10. CASE ~StreamDay
    <3>1. WindowDues = {} /\ Windows = {}
      BY <2>3, <2>10 DEF Windows
    <3>2. Times = HourDues
      BY <2>2, <3>1
    <3> QED
      BY <2>2, <2>5, <2>7, <2>10, <3>1, <3>2
  <2> QED
    BY <2>9, <2>10
<1>2. DayInv => DayTotals
  BY <1>1 DEF DayTotals
<1> QED
  BY <1>2, DayHolds, PTL
=============================================================================
