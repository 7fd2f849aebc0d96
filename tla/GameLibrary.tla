---------------------------- MODULE GameLibrary ----------------------------
(***************************************************************************)
(* What steam-sync promises the ranking: a library that changes only as a  *)
(* whole, when a run publishes games that Steam had shown it.  A run does  *)
(* so at most once; it takes games away only by publishing all it was      *)
(* shown.                                                                  *)
(***************************************************************************)
CONSTANTS
    Syncs,       \* who publishes
    Apps,
    Categories,
    None         \* no category, no entry

VARIABLES
    owned,    \* what the account owns
    library,  \* what the ranking reads: an entry of each game, or None
    status,   \* of each run: "new", "shown" what is owned, "over"
    shown     \* what each run was shown

vars == <<owned, library, status, shown>>

Init ==
    /\ owned \in SUBSET Apps
    /\ library = [a \in Apps |-> None]
    /\ status = [p \in Syncs |-> "new"]
    /\ shown = [p \in Syncs |-> {}]

Show(p) ==
    /\ status[p] = "new"
    /\ status' = [status EXCEPT ![p] = "shown"]
    /\ shown' = [shown EXCEPT ![p] = owned]
    /\ UNCHANGED <<owned, library>>

Finish(p) ==
    /\ status[p] # "over"
    /\ status' = [status EXCEPT ![p] = "over"]
    /\ UNCHANGED <<owned, shown>>

\* Some of the games shown, or all of them, and then no others are left.
Publish(p) ==
    /\ status[p] = "shown"
    /\ Finish(p)
    /\ \E some \in SUBSET shown[p], all \in BOOLEAN :
         \E found \in [some -> Categories \cup {None}] :
           /\ some # {} /\ (all => some = shown[p])
           /\ library' = [a \in Apps |->
                IF a \in some THEN [category |-> found[a], by |-> p]
                ELSE IF all THEN None ELSE library[a]]

GiveUp(p) == Finish(p) /\ UNCHANGED library

AccountChanges ==
    /\ owned' \in SUBSET Apps
    /\ UNCHANGED <<library, status, shown>>

Next ==
    \/ \E p \in Syncs : Show(p) \/ Publish(p) \/ GiveUp(p)
    \/ AccountChanges

Spec == Init /\ [][Next]_vars
=============================================================================
