------------------------ MODULE CollectorProperties ------------------------
(***************************************************************************)
(* What scout collect must get right.  Rows carry the run that wrote them  *)
(* (by) and the list position they were read at (at), which the database   *)
(* does not store: they stand for the readings themselves and let the      *)
(* properties say whose they are.                                          *)
(***************************************************************************)
EXTENDS Collector

RowsBy(r) == {row \in snapshots : row.by = r}
Stored(ts, game) == \E row \in snapshots : row.ts = ts /\ row.game = game

(* Under the workflow alone: serialised, unforced, the clock's tier *)

\* A batch is one sample run (snapshots.py:3): rows with one timestamp come
\* from one run and have one tier, although a crashed run is redone, a late
\* trigger shares its slot with the next, and the 22:30 baseline sample floors
\* to the timestamp of the 22:00 window sample.
OneRunPerBatch ==
    \A x, y \in snapshots : x.ts = y.ts => x.by = y.by /\ x.tier = y.tier

\* A stored timestamp belongs to its tier: a window row's lies in a stream
\* window, on a granularity boundary, even when the run that wrote it began
\* late; a baseline row's is a whole hour.
TierFitsSlot ==
    \A row \in snapshots :
        IF row.tier = "window"
        THEN /\ Weekday(row.ts) \in Weekdays
             /\ MinuteOfDay(row.ts) \in Start..(End - 1)
             /\ row.ts % Granularity = 0
        ELSE row.ts % 60 = 0

\* has_batch looks at the timestamp only, so a baseline batch under a window
\* timestamp would make the window run skip; it never does, since a run that
\* resolves to that baseline slot starts after the window slot is over.
WindowNotPreempted ==
    \A r \in Runs :
        pc[r] = "skipped" /\ slot[r].tier = "window"
            => \E row \in snapshots : row.ts = slot[r].ts /\ row.tier = "window"

\* The batches in the table, as their readers see them.
Published ==
    {[slot |-> [tier |-> row.tier, ts |-> row.ts],
      by |-> row.by,
      games |-> {other.game : other \in {x \in snapshots :
                                            x.ts = row.ts /\ x.by = row.by}}]
        : row \in snapshots}

Log == INSTANCE SampleLog
         WITH log <- Published, Slots <- {ResolveSlot(t) : t \in Instants}

\* The runs of the workflow implement the log of batches.
ImplementsLog == Log!Spec

(* Under any mixture of scheduled, manual and forced runs *)

\* PRIMARY KEY (ts, game_id): no key is stored twice, although Helix repeats
\* games across pages and runs overlap.
PrimaryKey ==
    \A x, y \in snapshots : x.ts = y.ts /\ x.game = y.game => x = y

\* A batch is all-or-nothing (snapshots.py:76): once a row of a run shows, the
\* run has committed and every game it read is in its slot.
NoPartialBatch ==
    \A r \in Runs :
        RowsBy(r) # {} =>
            /\ published[r] # {}
            /\ \A e \in published[r] : Stored(slot[r].ts, e.game)

\* A run that reports success leaves its slot sampled, and what it read is in
\* the table, whatever other runs did to the slot meanwhile.
SuccessIsVisible ==
    \A r \in Runs :
        /\ pc[r] = "skipped" => \E row \in snapshots : row.ts = slot[r].ts
        /\ pc[r] = "done" => \A e \in readings[r] : Stored(slot[r].ts, e.game)

\* A window run without failures has sampled every game of the Steam library
\* as the run read it, in the top games or beside them.
LibraryCovered ==
    \A r \in Runs :
        pc[r] = "done" /\ slot[r].tier = "window" /\ failed[r] = {}
            => \A g \in owned[r] : Stored(slot[r].ts, g)

\* Every reading that is stored is the run's last one of that game.
LastReadingStored ==
    \A r \in Runs : pc[r] = "done" =>
        \A row \in RowsBy(r), e \in readings[r] :
            e.game = row.game => e.at <= row.at

(* Progress *)

\* A trigger is not lost: its job runs and ends, or a newer one replaces it.
EveryTriggerEnds ==
    \A r \in Scheduled : pc[r] = "queued" ~> pc[r] \in Ended

\* How far a run is from its end: the calls before it, and in the two loops, of the
\* sample and of the statements, what they have left to go through.
CallsLeft(place) ==
    CASE place = "starting" -> 6
      [] place = "checking" -> 5
      [] place = "listing" -> 4
      [] place = "extending" -> 3
      [] place = "sampling" -> 2
      [] place = "writing" -> 1
      [] OTHER -> 0

Advances(r) ==
    \/ CallsLeft(pc'[r]) < CallsLeft(pc[r])
    \/ /\ pc'[r] = pc[r]
       /\ todo'[r] \subseteq todo[r] /\ unsent'[r] \subseteq unsent[r]
       /\ <<todo'[r], unsent'[r]>> # <<todo[r], unsent[r]>>

\* The group has one job in progress and one waiting, so that a trigger waits for
\* one run at most; and a run gets nearer to its end with every step it takes,
\* through loops over finite sets, and no other process sets it back
\* (collect.yml:13, collector.py:128, snapshots.py:90).
RunsAdvance ==
    /\ [](\A q, r \in Scheduled :
            (pc[q] = "queued" /\ pc[r] = "queued") \/ (InProgress(q) /\ InProgress(r))
                => q = r)
    /\ [](\A r \in Runs : IsFiniteSet(todo[r]) /\ IsFiniteSet(unsent[r]))
    /\ [][\A r \in Runs :
            /\ RunStep(r) => Advances(r)
            /\ InProgress(r) => Advances(r) \/ UNCHANGED <<pc[r], todo[r], unsent[r]>>]_vars

(* What the documentation says and the code does not do *)

\* "One flaky category never aborts the whole sample" (collector.py:10).
FlakyCategoryNeverAborts ==
    [][\A r \in Runs : ~(pc[r] = "sampling" /\ pc'[r] = "aborted")]_vars
=============================================================================
