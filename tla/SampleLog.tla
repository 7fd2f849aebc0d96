----------------------------- MODULE SampleLog -----------------------------
(***************************************************************************)
(* What the collector promises its reader, the ranking: a log of batches.  *)
(* A batch appears whole, in a slot that has none, under a slot the clock  *)
(* could have resolved, and never changes afterwards.                      *)
(***************************************************************************)
CONSTANTS
    Runs,   \* who samples
    Games,
    Slots   \* the slots the clock resolves to

VARIABLE log

Batches == [slot : Slots, by : Runs, games : (SUBSET Games) \ {{}}]

Init == log = {}

Publish(b) ==
    /\ \A old \in log : old.slot.ts # b.slot.ts /\ old.by # b.by
    /\ log' = log \cup {b}

Next == \E b \in Batches : Publish(b)

Spec == Init /\ [][Next]_log
=============================================================================
