-------------------------- MODULE SteamSyncProofs --------------------------
(***************************************************************************)
(* The library keeps what the account owns, for any number of runs, games  *)
(* and categories.                                                         *)
(***************************************************************************)
EXTENDS SteamSync, FiniteSetTheorems, TLAPS

\* The games are games owned, and a complete answer that has any has all of them;
\* there are none before Steam answers, and only a run with games gets to write them; one that
\* committed keeps what it committed.
Trusted ==
    /\ \A p \in Syncs :
         /\ games[p] \subseteq truth[p]
         /\ complete[p] /\ games[p] # {} => games[p] = truth[p]
         /\ pc[p] \in {"idle", "fetching"} => games[p] = {}
         /\ pc[p] \in {"writing", "committing"} => games[p] # {}
    /\ last # None => pc[last] \in {"done", "aborted", "crashed"}

Inv == TypeOK /\ Trusted /\ LastSyncStored

\* As many items as games owned, none of them malformed, are all the games.
LEMMA CompleteIsAll ==
    ASSUME NEW items \in SUBSET owned, NEW bad, TypeOK, Complete(items, bad)
    PROVE  items \ bad = owned
<1>1. IsFiniteSet(owned)
  BY FS_Subset, SyncAssumption DEF TypeOK
<1>2. items = owned
  BY <1>1, FS_Subset DEF Complete
<1> QED
  BY <1>2 DEF Complete

LEMMA InitInv == Init => Inv
BY SyncAssumption DEF Init, Inv, TypeOK, Trusted, LastSyncStored, Stored

\* A commit, whether its process lives to see it or not.
LEMMA ReplaceKeeps ==
    ASSUME Inv, NEW p \in Syncs, pc[p] = "committing", Replace(p),
           NEW place \in {"done", "aborted", "crashed"}, Goto(p, place),
           UNCHANGED <<owned, answer, matches, unsent>>
    PROVE  Inv'
<1>1. TypeOK'
  BY DEF Inv, TypeOK, Replace, Goto, answer, Row, Ended
<1>2. Trusted'
  BY DEF Inv, TypeOK, Trusted, Replace, Goto, answer
<1>3. LastSyncStored'
  <2>1. last' = p /\ p # None /\ games' = games /\ complete' = complete /\ matches' = matches
    BY SyncAssumption DEF Replace, answer
  <2>2. \A a \in games[p] : library'[a] = [category |-> matches[p][a], by |-> p]
    BY DEF Replace, Inv, TypeOK
  <2>3. \A a \in games[p] : library'[a] # None
    <3>1. \A a \in games[p] : matches[p][a] \in Categories \cup {None}
      BY DEF Inv, TypeOK
    <3>2. \A a \in games[p] : [category |-> matches[p][a], by |-> p] \in Row
      BY <3>1 DEF Row
    <3> QED
      BY <2>2, <3>2, SyncAssumption
  <2>4. complete[p] => Stored' = games[p]
    BY <2>3 DEF Replace, Stored, Inv, TypeOK
  <2> QED
    BY <2>1, <2>2, <2>4 DEF LastSyncStored
<1> QED
  BY <1>1, <1>2, <1>3 DEF Inv

\* A step that leaves the table and its author alone, and the answer and the
\* matches of every run but p's, p being at work.
LEMMA AtWork ==
    ASSUME Inv, TypeOK', NEW p \in Syncs, pc[p] \in {"idle"} \cup Busy,
           UNCHANGED <<library, last>>,
           \A q \in Syncs \ {p} : /\ games'[q] = games[q]
                                  /\ complete'[q] = complete[q]
                                  /\ matches'[q] = matches[q]
    PROVE  LastSyncStored'
<1>1. CASE last = None
  BY <1>1 DEF Inv, LastSyncStored, Stored
<1>2. CASE last # None
  <2>1. last \in Syncs \ {p}
    BY <1>2 DEF Inv, TypeOK, Trusted, Busy
  <2> QED
    BY <1>2, <2>1 DEF Inv, LastSyncStored, Stored
<1> QED
  BY <1>1, <1>2

LEMMA NextInv == Inv /\ [Next]_vars => Inv'
<1> SUFFICES ASSUME Inv, [Next]_vars PROVE Inv'
  OBVIOUS
<1> USE DEF answer, Goto
<1>1. ASSUME NEW p \in Syncs, Start(p) PROVE Inv'
  <2>1. TypeOK' /\ Trusted'
    BY <1>1 DEF Start, Inv, TypeOK, Trusted, Busy
  <2> QED
    BY <1>1, <2>1, AtWork DEF Start, Inv
<1>2. ASSUME NEW p \in Syncs, GetOwnedGames(p) PROVE Inv'
  <2>1. PICK items \in SUBSET owned, bad \in SUBSET owned :
             /\ games' = [games EXCEPT ![p] = items \ bad]
             /\ complete' = [complete EXCEPT ![p] = Complete(items, bad)]
    BY <1>2 DEF GetOwnedGames
  <2>2. TypeOK'
    BY <1>2 DEF GetOwnedGames, Complete, Inv, TypeOK, Busy
  <2>3. Complete(items, bad) => items \ bad = owned
    BY CompleteIsAll DEF Inv
  <2>4. Trusted'
    <3>1. /\ games'[p] \subseteq truth'[p] /\ pc'[p] = "resolving"
          /\ complete'[p] => games'[p] = truth'[p]
      BY <1>2, <2>1, <2>3 DEF GetOwnedGames, Inv, TypeOK
    <3>2. /\ \A q \in Syncs \ {p} : UNCHANGED <<pc[q], games[q], truth[q], complete[q]>>
          /\ pc[p] = "fetching" /\ last' = last
      BY <1>2, <2>1 DEF GetOwnedGames, Inv, TypeOK
    <3> QED
      <4>1. \A q \in Syncs \ {p} :
              /\ games'[q] \subseteq truth'[q]
              /\ complete'[q] /\ games'[q] # {} => games'[q] = truth'[q]
              /\ pc'[q] \in {"idle", "fetching"} => games'[q] = {}
              /\ pc'[q] \in {"writing", "committing"} => games'[q] # {}
        BY <3>2 DEF Inv, Trusted
      <4>2. last' # None => pc'[last'] \in {"done", "aborted", "crashed"}
        BY <1>2, <3>1, <3>2 DEF Inv, TypeOK, Trusted
      <4> QED
        BY <3>1, <4>1, <4>2 DEF Trusted
  <2> QED
    BY <1>2, <2>1, <2>2, <2>4, AtWork DEF GetOwnedGames, Inv, TypeOK, Busy
<1>3. ASSUME NEW p \in Syncs, GetPrivateProfile(p) PROVE Inv'
  <2>1. TypeOK'
    BY <1>3 DEF GetPrivateProfile, Inv, TypeOK, Busy
  <2>2. Trusted'
    BY <1>3 DEF GetPrivateProfile, Inv, TypeOK, Trusted
  <2> QED
    BY <1>3, <2>1, <2>2, AtWork DEF GetPrivateProfile, Inv, TypeOK, Busy
<1>4. ASSUME NEW p \in Syncs, ResolveNames(p) PROVE Inv'
  <2>1. TypeOK'
    BY <1>4 DEF ResolveNames, Inv, TypeOK, Busy
  <2>2. Trusted'
    BY <1>4 DEF ResolveNames, Inv, TypeOK, Trusted
  <2> QED
    BY <1>4, <2>1, <2>2, AtWork DEF ResolveNames, Inv, TypeOK, Busy
<1>5. ASSUME NEW p \in Syncs, StoreLibrary(p) PROVE Inv'
  <2>1. TypeOK'
    <3>1. pc' \in [Syncs -> {"idle"} \cup Busy \cup Ended]
      <4>1. pc' \in {[pc EXCEPT ![p] = place] : place \in {"invalid", "done", "writing"}}
        BY <1>5 DEF StoreLibrary
      <4>2. {"invalid", "done", "writing"} \subseteq Busy \cup Ended
        BY DEF Busy, Ended
      <4> QED
        BY <4>1, <4>2 DEF Inv, TypeOK
    <3>2. unsent' \in [Syncs -> SUBSET Apps]
      BY <1>5 DEF StoreLibrary, Inv, TypeOK
    <3>3. UNCHANGED <<owned, library, games, blank, complete, matches, truth, last>>
      BY <1>5, Zenon DEF StoreLibrary
    <3> QED
      BY <3>1, <3>2, <3>3 DEF Inv, TypeOK
  <2>2. Trusted'
    <3>1. UNCHANGED <<games, truth, complete, last>>
      BY <1>5, Zenon DEF StoreLibrary
    <3>2. /\ \A q \in Syncs \ {p} : pc'[q] = pc[q]
          /\ pc[p] = "storing" /\ pc'[p] \in {"invalid", "done", "writing"}
      BY <1>5 DEF StoreLibrary, Inv, TypeOK
    <3>3. pc'[p] = "writing" => games[p] # {}
      BY <1>5 DEF StoreLibrary, Inv, TypeOK
    <3> QED
      BY <3>1, <3>2, <3>3 DEF Inv, TypeOK, Trusted
  <2>3. pc[p] \in Busy
    BY <1>5 DEF StoreLibrary, Busy
  <2>4. UNCHANGED <<library, games, complete, matches, last>>
    BY <1>5, Zenon DEF StoreLibrary
  <2> QED
    BY <2>1, <2>2, <2>3, <2>4, AtWork DEF Inv
<1>6. ASSUME NEW p \in Syncs, UpsertRow(p) PROVE Inv'
  <2>1. TypeOK' /\ Trusted'
    BY <1>6 DEF UpsertRow, Inv, TypeOK, Trusted
  <2> QED
    BY <1>6, <2>1, AtWork DEF UpsertRow, Inv, Busy
<1>7. ASSUME NEW p \in Syncs, Prune(p) PROVE Inv'
  <2>1. TypeOK' /\ Trusted'
    BY <1>7 DEF Prune, Inv, TypeOK, Trusted, Busy
  <2> QED
    BY <1>7, <2>1, AtWork DEF Prune, Inv, Busy
<1>8. ASSUME NEW p \in Syncs, Commit(p) PROVE Inv'
  BY <1>8, ReplaceKeeps DEF Commit
<1>9. ASSUME NEW p \in Syncs, NEW place \in {"aborted", "crashed"},
             pc[p] \in Busy, Goto(p, place),
             UNCHANGED <<owned, library, answer, matches, unsent, last>>
      PROVE  Inv'
  <2>1. TypeOK' /\ Trusted'
    BY <1>9 DEF Inv, TypeOK, Trusted, Ended, Busy
  <2> QED
    BY <1>9, <2>1, AtWork DEF Inv
<1>10. ASSUME NEW p \in Syncs, Abort(p) PROVE Inv'
  <2>1. CASE pc[p] = "committing" /\ Replace(p)
    BY <1>10, <2>1, ReplaceKeeps DEF Abort
  <2>2. CASE UNCHANGED <<library, last>>
    BY <1>9, <1>10, <2>2 DEF Abort
  <2> QED
    BY <1>10, <2>1, <2>2 DEF Abort
<1>11. ASSUME NEW p \in Syncs, Crash(p) PROVE Inv'
  <2>1. CASE pc[p] = "committing" /\ Replace(p)
    BY <1>11, <2>1, ReplaceKeeps DEF Crash
  <2>2. CASE UNCHANGED <<library, last>>
    BY <1>9, <1>11, <2>2 DEF Crash
  <2> QED
    BY <1>11, <2>1, <2>2 DEF Crash
<1>12. CASE AccountChanges
  BY <1>12 DEF AccountChanges, Inv, TypeOK, Trusted, LastSyncStored, Stored
<1>13. CASE UNCHANGED vars
  BY <1>13 DEF vars, Inv, TypeOK, Trusted, LastSyncStored, Stored
<1> QED
  BY <1>1, <1>2, <1>3, <1>4, <1>5, <1>6, <1>7, <1>8, <1>10, <1>11, <1>12, <1>13
  DEF Next

LEMMA Invariance == Spec => []Inv
BY InitInv, NextInv, PTL DEF Spec

\* The variables keep their types.
THEOREM TypeCorrect == Spec => []TypeOK
BY Invariance, PTL DEF Inv

\* The library is always the one the last commit left, whole.
THEOREM LibraryIsLastSync == Spec => []LastSyncStored
BY Invariance, PTL DEF Inv

\* No partial answer, private profile, failure or crash loses an owned game.
THEOREM OwnedGamesStay == Spec => DroppedOnlyIfNotOwned
<1>1. Inv /\ [Next]_vars =>
        [\A a \in Stored : library'[a] = None =>
            \E p \in Syncs : pc[p] = "committing" /\ pc'[p] # pc[p] /\ a \notin truth[p]]_vars
  <2> SUFFICES ASSUME Inv, Next, NEW a \in Stored, library'[a] = None
               PROVE  \E p \in Syncs : /\ pc[p] = "committing" /\ pc'[p] # pc[p]
                                       /\ a \notin truth[p]
    OBVIOUS
  <2>1. a \in Apps /\ library[a] # None
    BY DEF Stored
  <2>2. ASSUME NEW p \in Syncs, pc[p] = "committing", Replace(p),
               NEW place \in {"done", "aborted", "crashed"}, Goto(p, place)
        PROVE  pc'[p] # pc[p] /\ a \notin truth[p]
    <3>1. a \in games[p] => library'[a] = [category |-> matches[p][a], by |-> p]
      BY <2>1, <2>2 DEF Replace
    <3>2. a \notin games[p]
      BY <2>1, <3>1, SyncAssumption DEF Inv, TypeOK, Row
    <3>3. complete[p]
      BY <2>1, <2>2, <3>2 DEF Replace, Inv, TypeOK
    <3>4. games[p] = truth[p]
      BY <2>2, <3>3 DEF Inv, Trusted
    <3> QED
      BY <2>2, <3>2, <3>4 DEF Goto, Inv, TypeOK
  <2>3. PICK p \in Syncs : Commit(p) \/ Abort(p) \/ Crash(p)
    BY <2>1 DEF Next, Start, GetOwnedGames, GetPrivateProfile, ResolveNames,
                StoreLibrary, UpsertRow, Prune, AccountChanges
  <2>4. pc[p] = "committing" /\ Replace(p)
    BY <2>1, <2>3 DEF Commit, Abort, Crash
  <2>5. \E place \in {"done", "aborted", "crashed"} : Goto(p, place)
    BY <2>3 DEF Commit, Abort, Crash
  <2> QED
    BY <2>2, <2>4, <2>5
<1> QED
  BY <1>1, Invariance, PTL DEF Spec, DroppedOnlyIfNotOwned

\* What a run moves from one place to another changes of its standing.
LEMMA Moves ==
    ASSUME NEW p \in Syncs, NEW place, pc \in [Syncs -> {"idle"} \cup Busy \cup Ended],
           Goto(p, place), place \in {"idle"} \cup Busy \cup Ended
    PROVE  [q \in Syncs |-> Standing(q)]' =
             [[q \in Syncs |-> Standing(q)] EXCEPT ![p] =
                 CASE place \in {"idle", "fetching"} -> "new"
                   [] place \in Ended -> "over"
                   [] OTHER -> "shown"]
<1>1. pc'[p] = place /\ \A q \in Syncs \ {p} : pc'[q] = pc[q]
  BY DEF Goto
<1>2. \A q \in Syncs \ {p} : Standing(q)' = Standing(q)
  BY <1>1 DEF Standing
<1>3. Standing(p)' = CASE place \in {"idle", "fetching"} -> "new"
                       [] place \in Ended -> "over"
                       [] OTHER -> "shown"
  BY <1>1 DEF Standing
<1> QED
  BY <1>2, <1>3

\* A commit publishes the games of the answer.
LEMMA ReplacePublishes ==
    ASSUME Inv, NEW p \in Syncs, pc[p] = "committing", Replace(p),
           NEW place \in {"done", "aborted", "crashed"}, Goto(p, place),
           UNCHANGED <<owned, truth>>
    PROVE  Library!Publish(p)
<1> DEFINE found == [a \in games[p] |-> matches[p][a]]
<1>1. Standing(p) = "shown"
  BY DEF Standing, Ended
<1>2. Library!Finish(p)
  BY <1>1, Moves DEF Library!Finish, Inv, TypeOK, Ended
<1>3. games[p] \in SUBSET truth[p] /\ games[p] # {} /\ complete[p] \in BOOLEAN
  BY DEF Inv, TypeOK, Trusted
<1>4. complete[p] => games[p] = truth[p]
  BY <1>3 DEF Inv, Trusted
<1>5. found \in [games[p] -> Categories \cup {None}]
  BY DEF Inv, TypeOK
<1>6. library' = [a \in Apps |->
         IF a \in games[p] THEN [category |-> found[a], by |-> p]
         ELSE IF complete[p] THEN None ELSE library[a]]
  BY DEF Replace
<1> QED
  BY <1>1, <1>2, <1>3, <1>4, <1>5, <1>6 DEF Library!Publish

\* A step to an end that leaves the table alone gives up.
LEMMA EndGivesUp ==
    ASSUME Inv, NEW p \in Syncs, pc[p] \notin Ended, NEW place \in Ended, Goto(p, place),
           UNCHANGED <<owned, truth, library>>
    PROVE  Library!GiveUp(p)
<1>1. Standing(p) # "over"
  BY DEF Standing
<1> QED
  BY <1>1, Moves DEF Library!GiveUp, Library!Finish, Inv, TypeOK, Ended

\* A step between two places after the answer, or before it, does not show.
LEMMA WorkIsHidden ==
    ASSUME Inv, NEW p \in Syncs, NEW place, Goto(p, place),
           \/ pc[p] = "idle" /\ place = "fetching"
           \/ /\ pc[p] \in {"resolving", "storing", "writing"}
              /\ place \in {"storing", "writing", "committing"},
           UNCHANGED <<owned, truth, library>>
    PROVE  UNCHANGED Library!vars
<1>1. [q \in Syncs |-> Standing(q)]' = [q \in Syncs |-> Standing(q)]
  <2>1. \A q \in Syncs \ {p} : Standing(q)' = Standing(q)
    BY DEF Goto, Standing, Inv, TypeOK
  <2>2. pc'[p] = place
    BY DEF Goto, Inv, TypeOK
  <2>3. Standing(p)' = Standing(p)
    BY <2>2 DEF Standing, Ended
  <2> QED
    BY <2>1, <2>3
<1> QED
  BY <1>1 DEF Library!vars

\* steam-sync implements the library that changes only as a whole: every step of
\* a run publishes all its games, or shows nothing to a reader of the table, for
\* any number of runs, however they overlap, fail or are lost.
THEOREM SyncImplementsLibrary == Spec => ImplementsLibrary
<1>1. Init => Library!Init
  BY DEF Init, Library!Init, Standing, Ended
<1>2. Inv /\ [Next]_vars => [Library!Next]_(Library!vars)
  <2> SUFFICES ASSUME Inv, [Next]_vars PROVE [Library!Next]_(Library!vars)
    OBVIOUS
  <2>1. ASSUME NEW p \in Syncs, Start(p) PROVE UNCHANGED Library!vars
    BY <2>1, WorkIsHidden DEF Start, answer
  <2>2. ASSUME NEW p \in Syncs, GetOwnedGames(p) \/ GetPrivateProfile(p)
        PROVE  Library!Show(p)
    <3>1. Standing(p) = "new"
      BY <2>2 DEF GetOwnedGames, GetPrivateProfile, Standing, Ended
    <3>2. [q \in Syncs |-> Standing(q)]' = [[q \in Syncs |-> Standing(q)] EXCEPT ![p] = "shown"]
      <4>1. Goto(p, "resolving")
        BY <2>2 DEF GetOwnedGames, GetPrivateProfile
      <4>2. pc' \in [Syncs -> {"idle"} \cup Busy \cup Ended] /\ pc'[p] = "resolving"
        BY <4>1 DEF Goto, Inv, TypeOK, Busy
      <4>3. \A q \in Syncs \ {p} : Standing(q)' = Standing(q)
        BY <4>1 DEF Goto, Standing, Inv, TypeOK
      <4>4. Standing(p)' = "shown"
        BY <4>2 DEF Standing, Ended
      <4> QED
        BY <4>3, <4>4
    <3>3. truth' = [truth EXCEPT ![p] = owned] /\ UNCHANGED <<owned, library>>
      BY <2>2 DEF GetOwnedGames, GetPrivateProfile
    <3> QED
      BY <3>1, <3>2, <3>3 DEF Library!Show
  <2>3. ASSUME NEW p \in Syncs, ResolveNames(p) PROVE UNCHANGED Library!vars
    BY <2>3, WorkIsHidden DEF ResolveNames, answer
  <2>4. ASSUME NEW p \in Syncs, StoreLibrary(p)
        PROVE  Library!GiveUp(p) \/ UNCHANGED Library!vars
    <3>1. CASE Goto(p, "writing")
      BY <2>4, <3>1, WorkIsHidden DEF StoreLibrary, answer
    <3>2. CASE Goto(p, "done") \/ Goto(p, "invalid")
      BY <2>4, <3>2, EndGivesUp DEF StoreLibrary, answer, Ended
    <3> QED
      BY <2>4, <3>1, <3>2 DEF StoreLibrary
  <2>5. ASSUME NEW p \in Syncs, UpsertRow(p) PROVE UNCHANGED Library!vars
    <3>1. [q \in Syncs |-> Standing(q)]' = [q \in Syncs |-> Standing(q)]
      BY <2>5 DEF UpsertRow, Standing
    <3> QED
      BY <2>5, <3>1 DEF UpsertRow, answer, Library!vars
  <2>6. ASSUME NEW p \in Syncs, Prune(p) PROVE UNCHANGED Library!vars
    BY <2>6, WorkIsHidden DEF Prune, answer
  <2>7. ASSUME NEW p \in Syncs, Commit(p) PROVE Library!Publish(p)
    BY <2>7, ReplacePublishes DEF Commit, answer
  <2>8. ASSUME NEW p \in Syncs, Abort(p) \/ Crash(p)
        PROVE  Library!Publish(p) \/ Library!GiveUp(p)
    <3>1. PICK place \in {"aborted", "crashed"} : Goto(p, place)
      BY <2>8 DEF Abort, Crash
    <3>2. pc[p] \notin Ended /\ UNCHANGED <<owned, truth>>
      BY <2>8 DEF Abort, Crash, answer, Busy, Ended
    <3>3. CASE pc[p] = "committing" /\ Replace(p)
      BY <3>1, <3>2, <3>3, ReplacePublishes
    <3>4. CASE UNCHANGED library
      BY <3>1, <3>2, <3>4, EndGivesUp DEF Ended
    <3> QED
      BY <2>8, <3>3, <3>4 DEF Abort, Crash
  <2>9. CASE AccountChanges
    <3>1. [q \in Syncs |-> Standing(q)]' = [q \in Syncs |-> Standing(q)]
      BY <2>9 DEF AccountChanges, Standing
    <3>2. owned' \in SUBSET Apps
      BY <2>9 DEF AccountChanges, Inv, TypeOK
    <3> QED
      BY <2>9, <3>1, <3>2 DEF AccountChanges, answer, Library!AccountChanges, Library!Next
  <2>10. CASE UNCHANGED vars
    <3>1. [q \in Syncs |-> Standing(q)]' = [q \in Syncs |-> Standing(q)]
      BY <2>10 DEF vars, Standing
    <3> QED
      BY <2>10, <3>1 DEF vars, answer, Library!vars
  <2> QED
    BY <2>1, <2>2, <2>3, <2>4, <2>5, <2>6, <2>7, <2>8, <2>9, <2>10
    DEF Next, Library!Next
<1> QED
  BY <1>1, <1>2, Invariance, PTL DEF Spec, ImplementsLibrary, Library!Spec
=============================================================================
