----------------------------- MODULE SteamSync -----------------------------
(***************************************************************************)
(* scout steam-sync: the owned Steam library fetched, resolved to Twitch   *)
(* categories and stored in table steam_games (src/twitch_scout/steam/      *)
(* sync.py, steam/client.py, store/steam.py).  An operator runs it by hand, *)
(* so two may overlap, and the account changes meanwhile.  Steam may leave *)
(* games out of its answer, send items that are malformed, or, of a private *)
(* profile, nothing at all.  The database is Turso, as in module Collector. *)
(***************************************************************************)
EXTENDS Naturals, FiniteSets

CONSTANTS
    Syncs,       \* runs of the command, each a process
    Apps,        \* Steam appids
    Categories,  \* Twitch categories
    None         \* no category, no row, no run

Row == [category : Categories \cup {None}, by : Syncs]

ASSUME SyncAssumption ==
    /\ None \notin Syncs /\ None \notin Categories /\ None \notin Row
    /\ IsFiniteSet(Apps)

VARIABLES
    owned,     \* Steam: what the account owns
    library,   \* table steam_games
    pc,        \* where each process is
    games,     \* OwnedLibrary.games: the items that passed validation
    blank,     \* those of them whose name is blank
    complete,  \* OwnedLibrary.complete
    matches,   \* the category of each game, or None
    unsent,    \* rows not yet sent in the open transaction
    truth,     \* history: what the account owned when Steam answered
    last       \* history: the process that committed last

answer == <<games, blank, complete, truth>>
vars == <<owned, library, pc, answer, matches, unsent, last>>

Busy == {"fetching", "resolving", "storing", "writing", "committing"}
Ended == {"done", "aborted", "invalid", "crashed"}

TypeOK ==
    /\ owned \subseteq Apps
    /\ library \in [Apps -> Row \cup {None}]
    /\ pc \in [Syncs -> {"idle"} \cup Busy \cup Ended]
    /\ games \in [Syncs -> SUBSET Apps]
    /\ blank \in [Syncs -> SUBSET Apps]
    /\ complete \in [Syncs -> BOOLEAN]
    /\ matches \in [Syncs -> [Apps -> Categories \cup {None}]]
    /\ unsent \in [Syncs -> SUBSET Apps]
    /\ truth \in [Syncs -> SUBSET Apps]
    /\ last \in Syncs \cup {None}

Init ==
    /\ owned \in SUBSET Apps
    /\ library = [a \in Apps |-> None]
    /\ pc = [p \in Syncs |-> "idle"]
    /\ games = [p \in Syncs |-> {}]
    /\ blank = [p \in Syncs |-> {}]
    /\ complete = [p \in Syncs |-> FALSE]
    /\ matches = [p \in Syncs |-> [a \in Apps |-> None]]
    /\ unsent = [p \in Syncs |-> {}]
    /\ truth = [p \in Syncs |-> {}]
    /\ last = None

Goto(p, place) == pc' = [pc EXCEPT ![p] = place]

Start(p) ==
    /\ pc[p] = "idle"
    /\ Goto(p, "fetching")
    /\ UNCHANGED <<owned, library, answer, matches, unsent, last>>

\* Slip: fewer items than game_count not noticed.
CompleteIfClean(items, bad) == bad = {}

\* Nothing was dropped, and as many items came as Steam says there are.
Complete(items, bad) == bad = {} /\ Cardinality(items) = Cardinality(owned)

\* get_owned_games: the malformed items are dropped.  An item that has a name of
\* spaces only passes: Field(min_length=1) does not strip.
GetOwnedGames(p) ==
    /\ pc[p] = "fetching"
    /\ \E items \in SUBSET owned : \E bad, spaces \in SUBSET items :
         /\ bad \cap spaces = {}
         /\ games' = [games EXCEPT ![p] = items \ bad]
         /\ blank' = [blank EXCEPT ![p] = spaces]
         /\ complete' = [complete EXCEPT ![p] = Complete(items, bad)]
    /\ truth' = [truth EXCEPT ![p] = owned]
    /\ Goto(p, "resolving")
    /\ UNCHANGED <<owned, library, matches, unsent, last>>

\* A private profile has no games and game_count 0, and counts as complete.
GetPrivateProfile(p) ==
    /\ pc[p] = "fetching"
    /\ complete' = [complete EXCEPT ![p] = TRUE]
    /\ truth' = [truth EXCEPT ![p] = owned]
    /\ Goto(p, "resolving")
    /\ UNCHANGED <<owned, library, games, blank, matches, unsent, last>>

\* resolve_names: a game has a category or none, as Twitch and the search budget
\* allow this time; a blank name finds nothing.
ResolveNames(p) ==
    /\ pc[p] = "resolving"
    /\ \E found \in [games[p] \ blank[p] -> Categories \cup {None}] :
         matches' = [matches EXCEPT ![p] =
             [a \in Apps |-> IF a \in DOMAIN found THEN found[a] ELSE None]]
    /\ Goto(p, "storing")
    /\ UNCHANGED <<owned, library, answer, unsent, last>>

\* Slip: an answer without games not set apart: the DELETE then empties the table.
StoreEvenNothing(p) ==
    /\ pc[p] = "storing"
    /\ IF blank[p] # {} THEN Goto(p, "invalid") /\ UNCHANGED unsent
       ELSE Goto(p, "writing") /\ unsent' = [unsent EXCEPT ![p] = games[p]]
    /\ UNCHANGED <<owned, library, answer, matches, last>>

\* The SteamGame rows, and the start of replace_owned_games: a blank name raises
\* ValueError, and without games there is nothing to do.
StoreLibrary(p) ==
    /\ pc[p] = "storing"
    /\ IF blank[p] # {} THEN Goto(p, "invalid") /\ UNCHANGED unsent
       ELSE IF games[p] = {} THEN Goto(p, "done") /\ UNCHANGED unsent
       ELSE Goto(p, "writing") /\ unsent' = [unsent EXCEPT ![p] = games[p]]
    /\ UNCHANGED <<owned, library, answer, matches, last>>

InTransaction(p) ==
    pc[p] = "committing" \/ (pc[p] = "writing" /\ unsent[p] # games[p])

\* Slip: every row commits by itself.
UpsertAutocommit(p) ==
    /\ pc[p] = "writing"
    /\ \A q \in Syncs \ {p} : ~InTransaction(q)
    /\ \E a \in unsent[p] :
         /\ unsent' = [unsent EXCEPT ![p] = @ \ {a}]
         /\ library' = [library EXCEPT ![a] =
                          [category |-> matches[p][a], by |-> p]]
    /\ UNCHANGED <<owned, pc, answer, matches, last>>

\* executemany: a statement for each row.
UpsertRow(p) ==
    /\ pc[p] = "writing"
    /\ \A q \in Syncs \ {p} : ~InTransaction(q)
    /\ \E a \in unsent[p] : unsent' = [unsent EXCEPT ![p] = @ \ {a}]
    /\ UNCHANGED <<owned, library, pc, answer, matches, last>>

\* The DELETE, if the answer was complete.
Prune(p) ==
    /\ pc[p] = "writing" /\ unsent[p] = {}
    /\ Goto(p, "committing")
    /\ UNCHANGED <<owned, library, answer, matches, unsent, last>>

\* The effect of a commit on the table.
Replace(p) ==
    /\ library' = [a \in Apps |->
         IF a \in games[p] THEN [category |-> matches[p][a], by |-> p]
         ELSE IF complete[p] THEN None ELSE library[a]]
    /\ last' = p

Commit(p) ==
    /\ pc[p] = "committing"
    /\ Replace(p)
    /\ Goto(p, "done")
    /\ UNCHANGED <<owned, answer, matches, unsent>>

\* An exception: a Steam or Twitch error, a statement that fails (then the
\* transaction rolls back), or a commit that raises and may have taken effect.
Abort(p) ==
    /\ pc[p] \in Busy \ {"storing"}
    /\ \/ pc[p] = "committing" /\ Replace(p)
       \/ UNCHANGED <<library, last>>
    /\ Goto(p, "aborted")
    /\ UNCHANGED <<owned, answer, matches, unsent>>

Crash(p) ==
    /\ pc[p] \in Busy
    /\ \/ pc[p] = "committing" /\ Replace(p)
       \/ UNCHANGED <<library, last>>
    /\ Goto(p, "crashed")
    /\ UNCHANGED <<owned, answer, matches, unsent>>

\* Games are bought, refunded or delisted.
AccountChanges ==
    /\ \E a \in Apps : owned' = IF a \in owned THEN owned \ {a} ELSE owned \cup {a}
    /\ UNCHANGED <<library, pc, answer, matches, unsent, last>>

Next ==
    \/ \E p \in Syncs :
         \/ Start(p) \/ GetOwnedGames(p) \/ GetPrivateProfile(p)
         \/ ResolveNames(p) \/ StoreLibrary(p)
         \/ UpsertRow(p) \/ Prune(p) \/ Commit(p)
         \/ Abort(p) \/ Crash(p)
    \/ AccountChanges

Spec == Init /\ [][Next]_vars

----------------------------------------------------------------------------
(* Properties *)

Stored == {a \in Apps : library[a] # None}

\* A game leaves the library only by the commit of a run to which Steam had
\* shown, in a complete answer, that the account did not own it: no partial
\* answer and no private profile loses a game (steam.py:111, steam.py:116).
DroppedOnlyIfNotOwned ==
    [][\A a \in Stored : library'[a] = None =>
          \E p \in Syncs : pc[p] = "committing" /\ pc'[p] # pc[p] /\ a \notin truth[p]]_vars

\* The library is that of the run that committed last, whole: all its games
\* with the categories it found, and, if its answer was complete, no other; what
\* else is stored comes from runs that committed before (steam.py:80).
LastSyncStored ==
    IF last = None THEN Stored = {}
    ELSE /\ \A a \in games[last] :
              library[a] = [category |-> matches[last][a], by |-> last]
         /\ complete[last] => Stored = games[last]

\* A run for the reader of the table: Steam has yet to answer, has answered, or
\* the run will not write any more.
Standing(p) ==
    CASE pc[p] \in {"idle", "fetching"} -> "new"
      [] pc[p] \in Ended -> "over"
      [] OTHER -> "shown"

Library == INSTANCE GameLibrary
             WITH status <- [p \in Syncs |-> Standing(p)], shown <- truth

\* The run is a publisher of module GameLibrary: its rows appear together, once,
\* all of them games Steam showed it, and a game is taken away only with a whole
\* answer, whatever fails, crashes or overlaps (steam.py:80, sync.py:92).
ImplementsLibrary == Library!Spec

\* "A missing/blank name fails validation and the item is skipped"
\* (steam/models.py:42): no item makes a sync fail.
BadItemsAreSkipped == \A p \in Syncs : pc[p] # "invalid"
=============================================================================
