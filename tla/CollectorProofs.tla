-------------------------- MODULE CollectorProofs --------------------------
(***************************************************************************)
(* Theorems about the collector, for every set of runs, games, instants,   *)
(* answers of Helix and schedule.                                          *)
(***************************************************************************)
EXTENDS CollectorProperties, TiersProofs, WellFoundedInduction

\* Flooring an instant gives an instant.
LEMMA FloorType ==
    ASSUME NEW t \in Int
    PROVE  FloorToMinutes(t, Granularity) \in Int /\ FloorToHour(t) \in Int
<1>1. Granularity \in 1..60
  BY ScheduleAssumption DEF ScheduleOK, MinutesPerHour
<1> QED
  BY <1>1 DEF FloorToMinutes, FloorToHour, MinutesPerHour

\* Whatever the tier, a slot is a tier and an instant.
LEMMA SlotForType ==
    ASSUME NEW t \in Int, NEW tier \in Tier
    PROVE  SlotFor(t, tier) \in Slot
BY FloorType DEF SlotFor, Slot, Tier

LEMMA ResolveSlotType ==
    ASSUME NEW t \in Int
    PROVE  ResolveSlot(t) \in Slot
BY SlotForType DEF ResolveSlot, Tier

LEMMA SlotNotNone == \A s \in Slot : s.tier \in Tier /\ s.ts \in Int
BY DEF Slot

\* The entries of a list Helix may answer.
LEMMA ListEntries ==
    ASSUME NEW list \in TopLists, NEW S, S \subseteq DOMAIN list
    PROVE  {[game |-> list[i], at |-> i] : i \in S} \subseteq Entry
BY GamesAssumption DEF Entry

\* The candidates as entries.
LEMMA ExtraEntries ==
    ASSUME NEW G, G \subseteq Games
    PROVE  {[game |-> g, at |-> WindowTopN + 1] : g \in G} \subseteq Entry
BY LimitsAssumption DEF Entry

----------------------------------------------------------------------------
(* Types *)

\* What a run writes are rows, once its slot is taken.
LEMMA RowsType ==
    ASSUME NEW r \in Runs, slot[r] \in Slot, NEW E, E \subseteq Entry
    PROVE  RowsOf(r, E) \subseteq Row
BY DEF RowsOf, Row, Entry, Slot

\* Latest selects.
LEMMA LatestSubset == \A E : Latest(E) \subseteq E
BY DEF Latest

\* Upsert keeps old rows and adds the new ones, nothing else.
LEMMA UpsertType ==
    ASSUME NEW T, NEW N, T \subseteq Row, N \subseteq Row
    PROVE  Upsert(T, N) \subseteq Row
BY DEF Upsert

\* A process past the start has its slot.
SlotTaken ==
    \A r \in Runs :
        pc[r] \in Working \ {"starting"} => slot[r] \in Slot

TypeInv == TypeOK /\ SlotTaken

\* A commit keeps the type of the table and of the history.
LEMMA PublishType ==
    ASSUME TypeInv, NEW r \in Runs, pc[r] = "writing", Publish(r)
    PROVE  /\ snapshots' \in SUBSET Row
           /\ published' \in [Runs -> SUBSET Entry]
<1>1. Batch(r) \subseteq Entry
  BY LatestSubset DEF TypeInv, TypeOK, Batch
<1>2. RowsOf(r, Batch(r)) \subseteq Row
  BY <1>1, RowsType DEF TypeInv, SlotTaken, Working
<1> QED
  BY <1>1, <1>2, UpsertType DEF Publish, TypeInv, TypeOK

\* The memory of an ended process is empty.
LEMMA ForgetType ==
    ASSUME TypeOK, NEW r \in Runs, Forget(r)
    PROVE  /\ todo' \in [Runs -> SUBSET Entry]
           /\ readings' \in [Runs -> SUBSET Entry]
           /\ failed' \in [Runs -> SUBSET Entry]
           /\ unsent' \in [Runs -> SUBSET Entry]
           /\ owned' \in [Runs -> SUBSET Games]
BY DEF TypeOK, Forget

LEMMA InitTypeInv == Init => TypeInv
<1>1. Clocked \in [force : BOOLEAN, tier : Tier \cup {"auto"}]
  BY DEF Clocked
<1> QED
  BY <1>1 DEF Init, TypeInv, TypeOK, SlotTaken, Phase, Working, Gathering

\* Every step keeps the types, and every process its slot.
LEMMA NextTypeInv == TypeInv /\ [Next]_vars => TypeInv'
<1> SUFFICES ASSUME TypeInv, [Next]_vars PROVE TypeInv'
  OBVIOUS
<1> USE DEF TypeInv, SlotTaken
<1>1. ASSUME NEW r \in Runs, Trigger(r) PROVE TypeInv'
  BY <1>1 DEF Trigger, TypeOK, memory, Phase, Working, Gathering, Ended
<1>2. ASSUME NEW r \in Runs, StartJob(r) PROVE TypeInv'
  BY <1>2 DEF StartJob, TypeOK, memory, Phase, Working, Gathering
<1>3. ASSUME NEW r \in Runs, StartManual(r) PROVE TypeInv'
  BY <1>3, OptionsAssumption
  DEF StartManual, TypeOK, memory, Phase, Working, Gathering
<1>4. ASSUME NEW r \in Runs, TakeSlot(r) PROVE TypeInv'
  <2>1. now \in Int
    BY InstantsAssumption DEF TypeOK
  <2>2. opts[r].tier \in Tier \cup {"auto"}
    BY DEF TypeOK
  <2>3. slot'[r] \in Slot
    BY <1>4, <2>1, <2>2, ResolveSlotType, SlotForType DEF TakeSlot, TypeOK
  <2> QED
    BY <1>4, <2>3 DEF TakeSlot, TypeOK, memory, Phase, Working, Gathering
<1>5. ASSUME NEW r \in Runs, CheckBatch(r) PROVE TypeInv'
  BY <1>5 DEF CheckBatch, TypeOK, memory, Phase, Working, Gathering, Ended
<1>6. ASSUME NEW r \in Runs, GetTopGames(r) PROVE TypeInv'
  <2>1. todo' \in [Runs -> SUBSET Entry]
    BY <1>6, ListEntries DEF GetTopGames, TypeOK
  <2> QED
    BY <1>6, <2>1 DEF GetTopGames, TypeOK, Phase, Working, Gathering
<1>7. ASSUME NEW r \in Runs, AppendExtraCandidates(r) PROVE TypeInv'
  <2>1. library \subseteq Games
    BY GamesAssumption DEF TypeOK
  <2>2. /\ todo' \in [Runs -> SUBSET Entry]
        /\ owned' \in [Runs -> SUBSET Games]
    <3>1. CASE slot[r].tier = "window"
      <4> DEFINE seen == {e.game : e \in todo[r]}
                 extra == {[game |-> g, at |-> WindowTopN + 1] :
                             g \in library \ seen}
      <4>1. extra \subseteq Entry
        BY <2>1, ExtraEntries
      <4>2. /\ owned' = [owned EXCEPT ![r] = library]
            /\ todo' = [todo EXCEPT ![r] = @ \cup extra]
        BY <1>7, <3>1 DEF AppendExtraCandidates
      <4> HIDE DEF extra
      <4> QED
        BY <2>1, <4>1, <4>2 DEF TypeOK
    <3>2. CASE slot[r].tier # "window"
      BY <1>7, <3>2 DEF AppendExtraCandidates, TypeOK
    <3> QED
      BY <3>1, <3>2
  <2> QED
    BY <1>7, <2>2 DEF AppendExtraCandidates, TypeOK, Phase, Working, Gathering
<1>8. ASSUME NEW r \in Runs, SampleGame(r) PROVE TypeInv'
  BY <1>8 DEF SampleGame, TypeOK, AtLoop
<1>9. ASSUME NEW r \in Runs, SampleFails(r) PROVE TypeInv'
  BY <1>9 DEF SampleFails, TypeOK, AtLoop
<1>10. ASSUME NEW r \in Runs, BeginWrite(r) PROVE TypeInv'
  <2>1. Batch(r) \subseteq Entry
    BY LatestSubset DEF Batch, TypeOK
  <2> QED
    BY <1>10, <2>1 DEF BeginWrite, TypeOK, Phase, Working, Gathering
<1>11. ASSUME NEW r \in Runs, WriteChunk(r) PROVE TypeInv'
  BY <1>11 DEF WriteChunk, TypeOK
<1>12. ASSUME NEW r \in Runs, Commit(r) PROVE TypeInv'
  BY <1>12, PublishType
  DEF Commit, AtCommit, TypeOK, memory, Phase, Working, Gathering, Ended
<1>13. ASSUME NEW r \in Runs, SampleRaises(r) PROVE TypeInv'
  BY <1>13, ForgetType
  DEF SampleRaises, TypeOK, Phase, Working, Gathering, Ended
<1>14. ASSUME NEW r \in Runs, Abort(r) PROVE TypeInv'
  BY <1>14, ForgetType DEF Abort, TypeOK, Phase, Working, Gathering, Ended
<1>15. ASSUME NEW r \in Runs, CommitFails(r) PROVE TypeInv'
  BY <1>15, ForgetType, PublishType
  DEF CommitFails, AtCommit, TypeOK, Phase, Working, Gathering, Ended
<1>16. ASSUME NEW r \in Runs, Crash(r) PROVE TypeInv'
  BY <1>16, ForgetType, PublishType
  DEF Crash, AtCommit, TypeOK, Phase, Working, Gathering, Ended
<1>17. CASE Tick
  BY <1>17 DEF Tick, TypeOK, memory
<1>18. CASE ReplaceOwnedGames
  BY <1>18 DEF ReplaceOwnedGames, TypeOK, memory
<1>19. CASE UNCHANGED vars
  BY <1>19 DEF vars, memory, TypeOK
<1> QED
  BY <1>1, <1>2, <1>3, <1>4, <1>5, <1>6, <1>7, <1>8, <1>9, <1>10, <1>11,
     <1>12, <1>13, <1>14, <1>15, <1>16, <1>17, <1>18, <1>19
  DEF Next, RunStep

LEMMA TypeInvariance == Spec => []TypeInv
BY InitTypeInv, NextTypeInv, PTL DEF Spec

\* Every reachable state has the types of the model: in particular no process
\* writes a row without a slot, a game or a position.
THEOREM TypeCorrect == Spec => []TypeOK
BY TypeInvariance, PTL DEF TypeInv

----------------------------------------------------------------------------
(* How a step touches the table *)

\* Everything but a commit leaves the rows alone, and an ended process stays
\* as it is.
Quiet ==
    /\ UNCHANGED <<snapshots, published>>
    /\ \A r \in Runs :
         pc[r] \in Ended => pc'[r] = pc[r] /\ slot'[r] = slot[r]

\* A commit that took effect, acknowledged or not.
Committing(r) ==
    /\ AtCommit(r)
    /\ Publish(r)
    /\ \/ pc' = [pc EXCEPT ![r] = "done"]
       \/ pc' = [pc EXCEPT ![r] = "aborted"]
       \/ pc' = [pc EXCEPT ![r] = "crashed"]
    /\ UNCHANGED slot

\* Every step is one or the other.
LEMMA StoreStep ==
    ASSUME TypeInv, [Next]_vars
    PROVE  Quiet \/ \E r \in Runs : Committing(r)
<1> USE DEF Phase, Working, Gathering, Ended, InProgress
<1>1. ASSUME NEW r \in Runs, Trigger(r) PROVE Quiet
  BY <1>1 DEF Trigger, Quiet, TypeInv, TypeOK
<1>2. ASSUME NEW r \in Runs, StartJob(r) \/ StartManual(r) PROVE Quiet
  BY <1>2 DEF StartJob, StartManual, Quiet, TypeInv, TypeOK
<1>3. ASSUME NEW r \in Runs, TakeSlot(r) \/ CheckBatch(r) PROVE Quiet
  BY <1>3 DEF TakeSlot, CheckBatch, Quiet, TypeInv, TypeOK
<1>4. ASSUME NEW r \in Runs, GetTopGames(r) \/ AppendExtraCandidates(r)
      PROVE Quiet
  BY <1>4 DEF GetTopGames, AppendExtraCandidates, Quiet, TypeInv, TypeOK
<1>5. ASSUME NEW r \in Runs, SampleGame(r) \/ SampleFails(r) PROVE Quiet
  BY <1>5 DEF SampleGame, SampleFails, Quiet, TypeInv, TypeOK
<1>6. ASSUME NEW r \in Runs, BeginWrite(r) \/ WriteChunk(r) PROVE Quiet
  BY <1>6 DEF BeginWrite, WriteChunk, Quiet, TypeInv, TypeOK
<1>7. ASSUME NEW r \in Runs, Commit(r) PROVE Committing(r)
  BY <1>7 DEF Commit, Committing
<1>8. ASSUME NEW r \in Runs, SampleRaises(r) \/ Abort(r) PROVE Quiet
  BY <1>8 DEF SampleRaises, Abort, Quiet, TypeInv, TypeOK
<1>9. ASSUME NEW r \in Runs, CommitFails(r) PROVE Quiet \/ Committing(r)
  BY <1>9 DEF CommitFails, AtCommit, Quiet, Committing, TypeInv, TypeOK
<1>10. ASSUME NEW r \in Runs, Crash(r) PROVE Quiet \/ Committing(r)
  BY <1>10 DEF Crash, AtCommit, Quiet, Committing, TypeInv, TypeOK
<1>11. CASE Tick \/ ReplaceOwnedGames \/ UNCHANGED vars
  BY <1>11 DEF Tick, ReplaceOwnedGames, vars, memory, Quiet
<1> QED
  BY <1>1, <1>2, <1>3, <1>4, <1>5, <1>6, <1>7, <1>8, <1>9, <1>10, <1>11
  DEF Next, RunStep

\* After a commit the table holds the old rows whose key is not rewritten and
\* the rows of the batch.
LEMMA AfterCommit ==
    ASSUME NEW r \in Runs, Committing(r)
    PROVE  /\ \A row \in snapshots' : row \in snapshots
                                      \/ row \in RowsOf(r, Batch(r))
           /\ RowsOf(r, Batch(r)) \subseteq snapshots'
           /\ \A row \in snapshots, new \in RowsOf(r, Batch(r)) :
                row \in snapshots' /\ row \notin RowsOf(r, Batch(r))
                    => row.ts # new.ts \/ row.game # new.game
           /\ \A ts, g : Stored(ts, g) =>
                \E row \in snapshots' : row.ts = ts /\ row.game = g
BY DEF Committing, Publish, Upsert, Stored

\* The rows a run writes are its own.
LEMMA RowsOfRun ==
    ASSUME NEW r, NEW E, NEW row \in RowsOf(r, E)
    PROVE  /\ row.ts = slot[r].ts /\ row.tier = slot[r].tier /\ row.by = r
           /\ \E e \in E : row.game = e.game /\ row.at = e.at
BY DEF RowsOf

----------------------------------------------------------------------------
(* One row per key *)

\* Two rows of one batch have different games.
LEMMA BatchHasKeys ==
    ASSUME TypeInv, NEW r \in Runs,
           NEW x \in RowsOf(r, Batch(r)), NEW y \in RowsOf(r, Batch(r)),
           x.game = y.game
    PROVE  x = y
<1>1. PICK e \in Batch(r) : x = [ts |-> slot[r].ts, tier |-> slot[r].tier,
                                 game |-> e.game, at |-> e.at, by |-> r]
  BY DEF RowsOf
<1>2. PICK f \in Batch(r) : y = [ts |-> slot[r].ts, tier |-> slot[r].tier,
                                 game |-> f.game, at |-> f.at, by |-> r]
  BY DEF RowsOf
<1>3. readings[r] \subseteq Entry
  BY DEF TypeInv, TypeOK
<1>4. e.at \in Nat /\ f.at \in Nat /\ e.at <= f.at /\ f.at <= e.at
  BY <1>1, <1>2, <1>3 DEF Batch, Latest, Entry
<1> QED
  BY <1>1, <1>2, <1>4

\* A commit cannot store a key twice: within the batch the last reading of a
\* game has won, and against the table the upsert replaces.
LEMMA NextPrimaryKey ==
    TypeInv /\ PrimaryKey /\ [Next]_vars => PrimaryKey'
<1> SUFFICES ASSUME TypeInv, PrimaryKey, [Next]_vars PROVE PrimaryKey'
  OBVIOUS
<1>1. CASE Quiet
  BY <1>1 DEF Quiet, PrimaryKey
<1>2. ASSUME NEW r \in Runs, Committing(r) PROVE PrimaryKey'
  <2> DEFINE new == RowsOf(r, Batch(r))
  <2> SUFFICES ASSUME NEW x \in snapshots', NEW y \in snapshots',
                      x.ts = y.ts, x.game = y.game
               PROVE  x = y
    BY DEF PrimaryKey
  <2>1. CASE x \in new /\ y \in new
    BY <2>1, BatchHasKeys
  <2>2. CASE x \notin new /\ y \notin new
    BY <1>2, <2>2, AfterCommit DEF PrimaryKey
  <2>3. CASE (x \in new) # (y \in new)
    BY <1>2, <2>3, AfterCommit
  <2> QED
    BY <2>1, <2>2, <2>3
<1> QED
  BY <1>1, <1>2, StoreStep

\* Under any mixture of scheduled, manual and forced runs, with repeated games
\* and lost processes, no (ts, game) is stored twice.
THEOREM KeysAreUnique == Spec => []PrimaryKey
<1>1. Init => PrimaryKey
  BY DEF Init, PrimaryKey
<1> QED
  BY <1>1, NextPrimaryKey, TypeInvariance, PTL DEF Spec

----------------------------------------------------------------------------
(* Whole batches *)

\* A stored row is that of an ended run, at the run's slot.
RowsOwned ==
    \A row \in snapshots :
        /\ row.by \in Runs
        /\ pc[row.by] \in {"done", "aborted", "crashed"}
        /\ row.ts = slot[row.by].ts
        /\ row.tier = slot[row.by].tier

LEMMA NextRowsOwned ==
    TypeInv /\ RowsOwned /\ [Next]_vars => RowsOwned'
<1> SUFFICES ASSUME TypeInv, RowsOwned, [Next]_vars PROVE RowsOwned'
  OBVIOUS
<1>1. CASE Quiet
  BY <1>1 DEF Quiet, RowsOwned, Ended
<1>2. ASSUME NEW r \in Runs, Committing(r) PROVE RowsOwned'
  <2>1. pc \in [Runs -> Phase] /\ slot' = slot
    BY <1>2 DEF TypeInv, TypeOK, Committing
  <2>2. ASSUME NEW row \in snapshots
        PROVE  row.by # r /\ pc'[row.by] = pc[row.by]
    BY <1>2, <2>1 DEF Committing, AtCommit, RowsOwned
  <2>3. pc'[r] \in {"done", "aborted", "crashed"}
    BY <1>2, <2>1 DEF Committing
  <2>4. ASSUME NEW row \in snapshots'
        PROVE  row \in snapshots \/ row \in RowsOf(r, Batch(r))
    BY <1>2, AfterCommit
  <2> QED
    BY <2>1, <2>2, <2>3, <2>4, RowsOfRun DEF RowsOwned
<1> QED
  BY <1>1, <1>2, StoreStep

\* No other run's commit removes a key, and a run's own brings its whole batch.
LEMMA NextNoPartialBatch ==
    TypeInv /\ RowsOwned /\ NoPartialBatch /\ [Next]_vars => NoPartialBatch'
<1> SUFFICES ASSUME TypeInv, RowsOwned, NoPartialBatch, [Next]_vars
             PROVE  NoPartialBatch'
  OBVIOUS
<1>1. CASE Quiet
  <2> SUFFICES ASSUME NEW q \in Runs, RowsBy(q)' # {}
               PROVE  /\ published'[q] # {}
                      /\ \A e \in published'[q] : \E row \in snapshots' :
                           row.ts = slot'[q].ts /\ row.game = e.game
    BY DEF NoPartialBatch, Stored
  <2>1. RowsBy(q) # {} /\ pc[q] \in Ended
    BY <1>1 DEF Quiet, RowsBy, RowsOwned, Ended
  <2> QED
    BY <1>1, <2>1 DEF Quiet, NoPartialBatch, Stored
<1>2. ASSUME NEW r \in Runs, Committing(r) PROVE NoPartialBatch'
  <2> SUFFICES ASSUME NEW q \in Runs, RowsBy(q)' # {}
               PROVE  /\ published'[q] # {}
                      /\ \A e \in published'[q] : \E row \in snapshots' :
                           row.ts = slot'[q].ts /\ row.game = e.game
    BY DEF NoPartialBatch, Stored
  <2>1. /\ slot' = slot
        /\ published' = [published EXCEPT ![r] = Batch(r)]
        /\ published \in [Runs -> SUBSET Entry]
    BY <1>2 DEF Committing, Publish, TypeInv, TypeOK
  <2>2. PICK row \in snapshots' : row.by = q
    BY DEF RowsBy
  <2>3. CASE q = r
    <3>1. row \notin snapshots
      BY <1>2, <2>2, <2>3 DEF Committing, AtCommit, RowsOwned
    <3>2. Batch(r) # {}
      BY <1>2, <3>1, AfterCommit, RowsOfRun
    <3>3. ASSUME NEW e \in Batch(r)
          PROVE  \E x \in snapshots' : x.ts = slot[r].ts /\ x.game = e.game
      <4> DEFINE new == [ts |-> slot[r].ts, tier |-> slot[r].tier,
                         game |-> e.game, at |-> e.at, by |-> r]
      <4>1. new \in snapshots'
        BY <1>2, AfterCommit DEF RowsOf
      <4> QED
        BY <4>1
    <3> QED
      BY <2>1, <2>3, <3>2, <3>3
  <2>4. CASE q # r
    <3>1. row \in snapshots
      BY <1>2, <2>2, <2>4, AfterCommit, RowsOfRun
    <3>2. /\ published[q] # {}
          /\ \A e \in published[q] : Stored(slot[q].ts, e.game)
      BY <2>2, <3>1 DEF NoPartialBatch, RowsBy
    <3> QED
      BY <1>2, <2>1, <2>4, <3>2, AfterCommit
  <2> QED
    BY <2>3, <2>4
<1> QED
  BY <1>1, <1>2, StoreStep

\* Under any mixture of runs, wherever a process is lost, a reader of the table
\* never sees some of a run's rows without the others.
THEOREM BatchesAreWhole == Spec => []NoPartialBatch
<1>1. Init => RowsOwned /\ NoPartialBatch
  BY DEF Init, RowsOwned, NoPartialBatch, RowsBy
<1> QED
  BY <1>1, NextRowsOwned, NextNoPartialBatch, TypeInvariance, PTL DEF Spec

----------------------------------------------------------------------------
(* The workflow alone: one run per batch *)

\* The concurrency group runs one job at a time.
Exclusive ==
    \A q, r \in Runs : InProgress(q) /\ InProgress(r) => q = r

\* The workflow passes --tier auto and no --force.
OnTheClock ==
    /\ opts = [r \in Runs |-> Clocked]
    /\ \A r \in Runs :
         slot[r] \in {ResolveSlot(t) : t \in Instants} \cup {NoSlot}

\* Past the check, the slot is still empty: this is what the run relies on
\* when it writes long after it looked.
StillEmpty ==
    \A r \in Runs :
        pc[r] \in {"listing", "extending", "sampling", "writing"}
            => ~HasBatch(slot[r].ts)

SerialInv ==
    /\ TypeInv
    /\ RowsOwned
    /\ Exclusive
    /\ OnTheClock
    /\ StillEmpty
    /\ OneRunPerBatch

LEMMA NextExclusive ==
    ASSUME Manual = {}, TypeInv, Exclusive, [Next]_vars
    PROVE  Exclusive'
<1> USE DEF Working, Gathering, InProgress, TypeInv, TypeOK
<1>1. ASSUME NEW r \in Runs, StartJob(r) PROVE Exclusive'
  BY <1>1 DEF StartJob, Exclusive, Runs
<1>2. ASSUME \A r \in Runs : InProgress(r)' => InProgress(r)
      PROVE  Exclusive'
  BY <1>2 DEF Exclusive
<1>3. ASSUME NEW r \in Runs, Trigger(r)
      PROVE  \A q \in Runs : InProgress(q)' => InProgress(q)
  BY <1>3 DEF Trigger
<1>4. ASSUME NEW r \in Runs, TakeSlot(r) \/ CheckBatch(r) \/ GetTopGames(r)
                             \/ AppendExtraCandidates(r) \/ BeginWrite(r)
      PROVE  \A q \in Runs : InProgress(q)' => InProgress(q)
  BY <1>4
  DEF TakeSlot, CheckBatch, GetTopGames, AppendExtraCandidates, BeginWrite
<1>5. ASSUME NEW r \in Runs, SampleGame(r) \/ SampleFails(r) \/ WriteChunk(r)
      PROVE  \A q \in Runs : InProgress(q)' => InProgress(q)
  BY <1>5 DEF SampleGame, SampleFails, WriteChunk
<1>6. ASSUME NEW r \in Runs, Commit(r) \/ CommitFails(r) \/ SampleRaises(r)
                             \/ Abort(r) \/ Crash(r)
      PROVE  \A q \in Runs : InProgress(q)' => InProgress(q)
  BY <1>6 DEF Commit, CommitFails, SampleRaises, Abort, Crash
<1>7. CASE Tick \/ ReplaceOwnedGames \/ UNCHANGED vars
  BY <1>7 DEF Tick, ReplaceOwnedGames, vars, Exclusive
<1>8. ASSUME NEW r \in Runs PROVE ~StartManual(r)
  BY DEF StartManual
<1> QED
  BY <1>1, <1>2, <1>3, <1>4, <1>5, <1>6, <1>7, <1>8 DEF Next, RunStep

LEMMA NextOnTheClock ==
    ASSUME Manual = {}, TypeInv, OnTheClock, [Next]_vars
    PROVE  OnTheClock'
<1> USE DEF OnTheClock, memory
<1>1. ASSUME NEW r \in Runs, TakeSlot(r) PROVE OnTheClock'
  <2>1. slot' = [slot EXCEPT ![r] = ResolveSlot(now)]
    BY <1>1 DEF TakeSlot, Clocked
  <2>2. now \in Instants /\ slot \in [Runs -> Slot \cup {NoSlot}]
    BY DEF TypeInv, TypeOK
  <2> QED
    BY <1>1, <2>1, <2>2 DEF TakeSlot
<1>2. ASSUME NEW r \in Runs PROVE ~StartManual(r)
  BY DEF StartManual
<1>3. ASSUME NEW r \in Runs, Trigger(r) \/ StartJob(r) \/ CheckBatch(r)
                             \/ GetTopGames(r) \/ AppendExtraCandidates(r)
      PROVE  OnTheClock'
  BY <1>3
  DEF Trigger, StartJob, CheckBatch, GetTopGames, AppendExtraCandidates
<1>4. ASSUME NEW r \in Runs, SampleGame(r) \/ SampleFails(r) \/ BeginWrite(r)
                             \/ WriteChunk(r) \/ Commit(r)
      PROVE  OnTheClock'
  BY <1>4 DEF SampleGame, SampleFails, BeginWrite, WriteChunk, Commit
<1>5. ASSUME NEW r \in Runs, CommitFails(r) \/ SampleRaises(r) \/ Abort(r)
                             \/ Crash(r)
      PROVE  OnTheClock'
  BY <1>5 DEF CommitFails, SampleRaises, Abort, Crash
<1>6. CASE Tick \/ ReplaceOwnedGames \/ UNCHANGED vars
  BY <1>6 DEF Tick, ReplaceOwnedGames, vars
<1> QED
  BY <1>1, <1>2, <1>3, <1>4, <1>5, <1>6 DEF Next, RunStep

\* Only one process is past its check, so nobody can fill its slot; and its own
\* commit ends it.
LEMMA NextStillEmpty ==
    ASSUME TypeInv, Exclusive, OnTheClock, StillEmpty, [Next]_vars
    PROVE  StillEmpty'
<1> DEFINE Later == {"listing", "extending", "sampling", "writing"}
<1> USE DEF Phase, Working, Gathering, Ended, InProgress
<1>1. CASE Quiet
  <2> SUFFICES ASSUME NEW q \in Runs, pc'[q] \in Later
               PROVE  \A row \in snapshots : row.ts # slot'[q].ts
    BY <1>1 DEF StillEmpty, HasBatch, Quiet
  <2>1. CASE pc[q] = "checking" /\ slot'[q] = slot[q]
                /\ ~HasBatch(slot[q].ts)
    BY <2>1 DEF HasBatch
  <2>2. CASE pc[q] \in Later /\ slot'[q] = slot[q]
    BY <2>2 DEF StillEmpty, HasBatch
  <2>3. \/ pc[q] \in Later /\ slot'[q] = slot[q]
        \/ pc[q] = "checking" /\ slot'[q] = slot[q] /\ ~HasBatch(slot[q].ts)
    <3> USE DEF TypeInv, TypeOK, memory
    <3>1. ASSUME NEW r \in Runs, CheckBatch(r) PROVE <2>3
      BY <3>1 DEF CheckBatch, OnTheClock, Clocked
    <3>2. ASSUME NEW r \in Runs, Trigger(r) \/ StartJob(r) \/ StartManual(r)
                                 \/ TakeSlot(r)
          PROVE  <2>3
      BY <3>2 DEF Trigger, StartJob, StartManual, TakeSlot
    <3>3. ASSUME NEW r \in Runs, GetTopGames(r) \/ AppendExtraCandidates(r)
                                 \/ SampleGame(r) \/ SampleFails(r)
          PROVE  <2>3
      BY <3>3
      DEF GetTopGames, AppendExtraCandidates, SampleGame, SampleFails
    <3>4. ASSUME NEW r \in Runs, BeginWrite(r) \/ WriteChunk(r) \/ Commit(r)
          PROVE  <2>3
      BY <3>4 DEF BeginWrite, WriteChunk, Commit, AtCommit
    <3>5. ASSUME NEW r \in Runs, CommitFails(r) \/ SampleRaises(r) \/ Abort(r)
                                 \/ Crash(r)
          PROVE  <2>3
      BY <3>5 DEF CommitFails, SampleRaises, Abort, Crash, AtCommit
    <3>6. CASE Tick \/ ReplaceOwnedGames \/ UNCHANGED vars
      BY <3>6 DEF Tick, ReplaceOwnedGames, vars
    <3> QED
      BY <3>1, <3>2, <3>3, <3>4, <3>5, <3>6 DEF Next, RunStep
  <2> QED
    BY <2>1, <2>2, <2>3
<1>2. ASSUME NEW r \in Runs, Committing(r) PROVE StillEmpty'
  <2>1. \A q \in Runs : pc'[q] \notin Later
    BY <1>2 DEF Committing, AtCommit, Exclusive, TypeInv, TypeOK
  <2> QED
    BY <2>1 DEF StillEmpty
<1> QED
  BY <1>1, <1>2, StoreStep

\* A commit into an empty slot leaves the slot to the run that wrote it.
LEMMA NextOneRunPerBatch ==
    ASSUME TypeInv, StillEmpty, OneRunPerBatch, [Next]_vars
    PROVE  OneRunPerBatch'
<1>1. CASE Quiet
  BY <1>1 DEF Quiet, OneRunPerBatch
<1>2. ASSUME NEW r \in Runs, Committing(r) PROVE OneRunPerBatch'
  <2> DEFINE new == RowsOf(r, Batch(r))
  <2>1. \A row \in snapshots : row.ts # slot[r].ts
    BY <1>2 DEF Committing, AtCommit, StillEmpty, HasBatch
  <2>2. \A row \in new : /\ row.ts = slot[r].ts
                         /\ row.tier = slot[r].tier
                         /\ row.by = r
    BY RowsOfRun
  <2>3. \A row \in snapshots' : row \in snapshots \/ row \in new
    BY <1>2, AfterCommit
  <2> QED
    BY <2>1, <2>2, <2>3 DEF OneRunPerBatch
<1> QED
  BY <1>1, <1>2, StoreStep

LEMMA SerialInvariance ==
    ASSUME Manual = {}
    PROVE  Spec => []SerialInv
<1>1. Init => SerialInv
  <2> SUFFICES ASSUME Init PROVE SerialInv
    OBVIOUS
  <2>1. TypeInv
    BY InitTypeInv
  <2>2. RowsOwned /\ OneRunPerBatch
    BY DEF Init, RowsOwned, OneRunPerBatch
  <2>3. Exclusive /\ OnTheClock /\ StillEmpty
    BY DEF Init, Exclusive, OnTheClock, StillEmpty, InProgress, Working,
           Gathering
  <2> QED
    BY <2>1, <2>2, <2>3 DEF SerialInv
<1>2. SerialInv /\ [Next]_vars => SerialInv'
  BY NextTypeInv, NextRowsOwned, NextExclusive, NextOnTheClock,
     NextStillEmpty, NextOneRunPerBatch
  DEF SerialInv
<1> QED
  BY <1>1, <1>2, PTL DEF Spec

\* Without manual runs a batch is one sample run, whatever is triggered when,
\* queued, superseded, killed or repeated.
THEOREM OneRunWritesABatch ==
    ASSUME Manual = {}
    PROVE  Spec => []OneRunPerBatch
<1>1. SerialInv => OneRunPerBatch
  BY DEF SerialInv
<1> QED
  BY <1>1, SerialInvariance, PTL

\* Without manual runs every stored timestamp belongs to the tier stored with
\* it, however late the run that wrote it began, provided the stream window is
\* made of whole slots.
THEOREM TimestampsFitTiers ==
    ASSUME Manual = {}, Aligned
    PROVE  Spec => []TierFitsSlot
<1>1. ASSUME SerialInv PROVE TierFitsSlot
  <2> SUFFICES ASSUME NEW row \in snapshots
               PROVE  IF row.tier = "window"
                      THEN /\ Weekday(row.ts) \in Weekdays
                           /\ MinuteOfDay(row.ts) \in Start..(End - 1)
                           /\ row.ts % Granularity = 0
                      ELSE row.ts % 60 = 0
    BY DEF TierFitsSlot
  <2>1. row.tier \in Tier /\ row.ts \in Int
    BY <1>1 DEF SerialInv, TypeInv, TypeOK, Row
  <2>2. row.by \in Runs /\ row.ts = slot[row.by].ts
                       /\ row.tier = slot[row.by].tier
    BY <1>1 DEF SerialInv, RowsOwned
  <2>3. PICK t \in Instants : slot[row.by] = ResolveSlot(t)
    BY <1>1, <2>1, <2>2 DEF SerialInv, OnTheClock, NoSlot, Tier
  <2>4. t \in Int
    BY InstantsAssumption
  <2>5. IF row.tier = "window"
        THEN InStreamWindow(row.ts) /\ row.ts % Granularity = 0
        ELSE row.ts % 60 = 0
    BY <2>2, <2>3, <2>4, SlotFitsTier
  <2>6. MinuteOfDay(row.ts) \in Int /\ Start \in Int /\ End \in Int
    <3>1. LocalTime(row.ts) \in Int
      BY <2>1, ZoneAssumption DEF LocalTime, PacificOffset
    <3> QED
      BY <3>1, ScheduleAssumption
      DEF MinuteOfDay, ScheduleOK, MinutesPerDay, MinutesPerHour
  <2> QED
    BY <2>5, <2>6 DEF InStreamWindow
<1> QED
  BY <1>1, SerialInvariance, PTL

----------------------------------------------------------------------------
(* The workflow alone implements the log of batches *)

\* The batch a commit adds to the log.
NewBatch(r) ==
    [slot |-> [tier |-> slot[r].tier, ts |-> slot[r].ts],
     by |-> r,
     games |-> {e.game : e \in Batch(r)}]

\* A commit publishes its batch, and changes no other.
LEMMA CommitPublishes ==
    ASSUME SerialInv, NEW r \in Runs, Committing(r), Batch(r) # {}
    PROVE  Published' = Published \cup {NewBatch(r)}
<1> DEFINE new == RowsOf(r, Batch(r))
           As(table, row) ==
             [slot |-> [tier |-> row.tier, ts |-> row.ts],
              by |-> row.by,
              games |-> {other.game : other \in {x \in table :
                                        x.ts = row.ts /\ x.by = row.by}}]
<1>1. \A row \in snapshots : row.ts # slot[r].ts /\ row.by # r
  BY DEF SerialInv, Committing, AtCommit, StillEmpty, HasBatch, RowsOwned
<1>2. \A row \in new : /\ row.ts = slot[r].ts
                       /\ row.tier = slot[r].tier
                       /\ row.by = r
  BY RowsOfRun
<1>3. snapshots' = snapshots \cup new
  BY <1>1, <1>2 DEF Committing, Publish, Upsert
<1>4. ASSUME NEW row \in snapshots
      PROVE  As(snapshots', row) = As(snapshots, row)
  <2>1. {x \in snapshots' : x.ts = row.ts /\ x.by = row.by}
          = {x \in snapshots : x.ts = row.ts /\ x.by = row.by}
    BY <1>1, <1>2, <1>3
  <2> QED
    BY <2>1
<1>5. ASSUME NEW row \in new PROVE As(snapshots', row) = NewBatch(r)
  <2>1. {x \in snapshots' : x.ts = row.ts /\ x.by = row.by} = new
    BY <1>1, <1>2, <1>3
  <2>2. {other.game : other \in new} = {e.game : e \in Batch(r)}
    <3>1. \A e \in Batch(r) : \E x \in new : x.game = e.game
      <4> SUFFICES ASSUME NEW e \in Batch(r)
                   PROVE  \E x \in new : x.game = e.game
        OBVIOUS
      <4>1. [ts |-> slot[r].ts, tier |-> slot[r].tier, game |-> e.game,
             at |-> e.at, by |-> r] \in new
        BY DEF RowsOf
      <4> QED
        BY <4>1
    <3>2. \A x \in new : \E e \in Batch(r) : x.game = e.game
      BY RowsOfRun
    <3> HIDE DEF new
    <3> QED
      BY <3>1, <3>2
  <2> QED
    BY <1>2, <2>1, <2>2 DEF NewBatch
<1>6. new # {}
  BY DEF RowsOf
<1>7. Published = {As(snapshots, row) : row \in snapshots}
  BY DEF Published
<1>8. Published' = {As(snapshots', row) : row \in snapshots'}
  BY DEF Published
<1> HIDE DEF As, new
<1> QED
  BY <1>3, <1>4, <1>5, <1>6, <1>7, <1>8

\* The batch is one the log admits: a slot of the clock that has no batch yet.
LEMMA NewBatchAdmitted ==
    ASSUME SerialInv, NEW r \in Runs, Committing(r), Batch(r) # {}
    PROVE  /\ NewBatch(r) \in Log!Batches
           /\ \A old \in Published : /\ old.slot.ts # NewBatch(r).slot.ts
                                     /\ old.by # NewBatch(r).by
<1>1. slot[r] \in Slot
  BY DEF SerialInv, TypeInv, SlotTaken, Committing, AtCommit, Working
<1>2. slot[r] # NoSlot /\ slot[r] = [tier |-> slot[r].tier, ts |-> slot[r].ts]
  BY <1>1 DEF Slot, NoSlot, Tier
<1>3. slot[r] \in {ResolveSlot(t) : t \in Instants}
  BY <1>2 DEF SerialInv, OnTheClock
<1>4. Batch(r) \subseteq Entry
  BY LatestSubset DEF SerialInv, TypeInv, TypeOK, Batch
<1>5. {e.game : e \in Batch(r)} \in (SUBSET Games) \ {{}}
  BY <1>4 DEF Entry
<1>6. \A row \in snapshots : row.ts # slot[r].ts /\ row.by # r
  BY DEF SerialInv, Committing, AtCommit, StillEmpty, HasBatch, RowsOwned
<1>7. NewBatch(r) \in Log!Batches
  BY <1>2, <1>3, <1>5 DEF NewBatch, Log!Batches
<1>8. ASSUME NEW old \in Published
      PROVE  old.slot.ts # slot[r].ts /\ old.by # r
  BY <1>6 DEF Published
<1> QED
  BY <1>7, <1>8 DEF NewBatch

\* Without manual runs, what a reader sees is a log of whole batches, each in a
\* slot of its own and never changed: every step of the runs adds one such
\* batch or nothing.
THEOREM WorkflowImplementsLog ==
    ASSUME Manual = {}
    PROVE  Spec => ImplementsLog
<1>1. Init => Log!Init
  BY DEF Init, Log!Init, Published
<1>2. ASSUME SerialInv, [Next]_vars PROVE [Log!Next]_Published
  <2>1. CASE Quiet
    BY <2>1 DEF Quiet, Published
  <2>2. ASSUME NEW r \in Runs, Committing(r), Batch(r) = {}
        PROVE  Published' = Published
    <3>1. snapshots' = snapshots
      BY <2>2 DEF Committing, Publish, Upsert, RowsOf
    <3> QED
      BY <3>1 DEF Published
  <2>3. ASSUME NEW r \in Runs, Committing(r), Batch(r) # {}
        PROVE  Log!Next
    BY <1>2, <2>3, CommitPublishes, NewBatchAdmitted
    DEF Log!Next, Log!Publish
  <2> QED
    BY <1>2, <2>1, <2>2, <2>3, StoreStep DEF SerialInv
<1> QED
  BY <1>1, <1>2, SerialInvariance, PTL DEF Spec, ImplementsLog, Log!Spec

----------------------------------------------------------------------------
(* The last reading of every game, whatever else the table sees *)

Less == {pair \in Nat \X Nat : pair[1] < pair[2]}

\* A set of positions has a last one.
LEMMA LastPosition ==
    ASSUME NEW S, S \subseteq Nat, S # {}, NEW k \in Nat, \A n \in S : n <= k
    PROVE  \E n \in S : \A m \in S : m <= n
<1> DEFINE T == {k - n : n \in S}
<1>1. \A n \in S : n \in Nat /\ k - n \in Nat
  OBVIOUS
<1>2. T \subseteq Nat /\ T # {}
  BY <1>1
<1>3. IsWellFoundedOn(Less, Nat)
  BY NatLessThanWellFounded DEF OpToRel, Less
<1> HIDE DEF T
<1>4. PICK i \in T : \A j \in T : ~(<<j, i>> \in Less)
  BY <1>2, <1>3, WFMin
<1>5. \A j \in T : i <= j
  <2>1. \A j \in T : j \in Nat /\ i \in Nat
    BY <1>2
  <2>2. \A j \in T : ~(j < i)
    BY <1>4, <2>1 DEF Less
  <2> QED
    BY <2>1, <2>2
<1>6. PICK n \in S : i = k - n
  BY <1>4 DEF T
<1>7. \A m \in S : k - n <= k - m
  BY <1>5, <1>6 DEF T
<1> QED
  BY <1>1, <1>7

\* Behind the top games come the candidates, at one position.
LastAt == TopN + WindowTopN + 1

Positioned ==
    \A r \in Runs : \A e \in todo[r] \cup readings[r] : e.at <= LastAt

\* Every owned game has an entry that is to be read, was read or failed.
Accounted ==
    \A r \in Runs :
        slot[r].tier = "window" /\ pc[r] \in {"sampling", "writing", "done"} =>
            /\ \A g \in owned[r] :
                 \E e \in todo[r] \cup readings[r] \cup failed[r] : e.game = g
            /\ pc[r] # "sampling" => todo[r] = {}

\* The other processes, when one takes a step.
Aside(r) ==
    \A q \in Runs \ {r} :
        /\ todo'[q] = todo[q] /\ readings'[q] = readings[q] /\ failed'[q] = failed[q]
        /\ owned'[q] = owned[q] /\ slot'[q] = slot[q]
        /\ pc'[q] = pc[q] \/ (pc[q] = "queued" /\ pc'[q] = "cancelled")

Same(r) == /\ todo'[r] = todo[r] /\ readings'[r] = readings[r] /\ failed'[r] = failed[r]
           /\ owned'[r] = owned[r]

\* What a step may do to the memory of the process that takes it.
LEMMA MemoryStep ==
    ASSUME TypeInv, [Next]_vars
    PROVE  \/ \A r \in Runs : Same(r) /\ slot'[r] = slot[r] /\ pc'[r] = pc[r]
           \/ \E r \in Runs :
                /\ Aside(r)
                /\ \/ Trigger(r) \/ StartJob(r) \/ StartManual(r)
                   \/ RunStep(r) \/ Crash(r)
<1> USE DEF TypeInv, TypeOK, Forget, memory
<1>1. ASSUME NEW r \in Runs, Trigger(r) \/ StartJob(r) \/ StartManual(r) PROVE Aside(r)
  BY <1>1 DEF Trigger, StartJob, StartManual, Aside
<1>2. ASSUME NEW r \in Runs, TakeSlot(r) \/ CheckBatch(r) \/ GetTopGames(r)
                             \/ AppendExtraCandidates(r)
      PROVE  Aside(r)
  BY <1>2 DEF TakeSlot, CheckBatch, GetTopGames, AppendExtraCandidates, Aside
<1>3. ASSUME NEW r \in Runs, SampleGame(r) \/ SampleFails(r) \/ BeginWrite(r)
                             \/ WriteChunk(r) \/ Commit(r)
      PROVE  Aside(r)
  BY <1>3 DEF SampleGame, SampleFails, BeginWrite, WriteChunk, Commit, Aside
<1>4. ASSUME NEW r \in Runs, SampleRaises(r) \/ Abort(r) \/ CommitFails(r) \/ Crash(r)
      PROVE  Aside(r)
  BY <1>4 DEF SampleRaises, Abort, CommitFails, Crash, Aside
<1>5. CASE Tick \/ ReplaceOwnedGames \/ UNCHANGED vars
  BY <1>5 DEF Tick, ReplaceOwnedGames, vars, Same
<1> QED
  BY <1>1, <1>2, <1>3, <1>4, <1>5 DEF Next, RunStep

LEMMA NextPositioned ==
    TypeInv /\ Positioned /\ [Next]_vars => Positioned'
<1> SUFFICES ASSUME TypeInv, Positioned, [Next]_vars PROVE Positioned'
  OBVIOUS
<1>1. CASE \A r \in Runs : Same(r)
  BY <1>1 DEF Same, Positioned
<1>2. ASSUME NEW r \in Runs, Aside(r),
             \A e \in todo'[r] \cup readings'[r] : e.at <= LastAt
      PROVE  Positioned'
  BY <1>2 DEF Aside, Positioned
<1> USE DEF TypeInv, TypeOK, memory
<1>3. ASSUME NEW r \in Runs, Same(r)
      PROVE  \A e \in todo'[r] \cup readings'[r] : e.at <= LastAt
  BY <1>3 DEF Same, Positioned
<1>4. ASSUME NEW r \in Runs, GetTopGames(r)
      PROVE  \A e \in todo'[r] \cup readings'[r] : e.at <= LastAt
  <2>1. PICK list \in TopLists :
            todo'[r] = {[game |-> list[i], at |-> i] :
                           i \in {j \in DOMAIN list : j <= Limit(slot[r].tier)}}
    BY <1>4 DEF GetTopGames
  <2>2. \A i \in DOMAIN list : i <= Limit(slot[r].tier) => i <= LastAt
    BY GamesAssumption, LimitsAssumption DEF Limit, LastAt
  <2>3. \A e \in todo'[r] : e.at <= LastAt
    BY <2>1, <2>2
  <2>4. readings'[r] = readings[r]
    BY <1>4 DEF GetTopGames
  <2> QED
    BY <2>3, <2>4 DEF Positioned
<1>5. ASSUME NEW r \in Runs, AppendExtraCandidates(r)
      PROVE  \A e \in todo'[r] \cup readings'[r] : e.at <= LastAt
  <2>1. \A e \in todo'[r] : e \in todo[r] \/ e.at = WindowTopN + 1
    BY <1>5 DEF AppendExtraCandidates
  <2>2. WindowTopN + 1 <= LastAt
    BY LimitsAssumption DEF LastAt
  <2> QED
    BY <1>5, <2>1, <2>2 DEF AppendExtraCandidates, Positioned
<1>6. ASSUME NEW r \in Runs, SampleGame(r) \/ SampleFails(r)
      PROVE  \A e \in todo'[r] \cup readings'[r] : e.at <= LastAt
  BY <1>6 DEF SampleGame, SampleFails, AtLoop, Positioned
<1>7. ASSUME NEW r \in Runs, SampleRaises(r) \/ Abort(r) \/ CommitFails(r) \/ Crash(r)
      PROVE  \A e \in todo'[r] \cup readings'[r] : e.at <= LastAt
  BY <1>7 DEF SampleRaises, Abort, CommitFails, Crash, Forget
<1>8. ASSUME NEW r \in Runs, \/ Trigger(r) \/ StartJob(r) \/ StartManual(r) \/ TakeSlot(r)
                             \/ CheckBatch(r) \/ BeginWrite(r) \/ WriteChunk(r) \/ Commit(r)
      PROVE  Same(r)
  BY <1>8 DEF Trigger, StartJob, StartManual, TakeSlot, CheckBatch, BeginWrite, WriteChunk,
              Commit, Same
<1> QED
  BY <1>1, <1>2, <1>3, <1>4, <1>5, <1>6, <1>7, <1>8, MemoryStep DEF RunStep

\* A run that is past its own end, or another's, keeps what it has.
LEMMA NextAccounted ==
    TypeInv /\ Accounted /\ [Next]_vars => Accounted'
<1> DEFINE Has(r) ==
      slot'[r].tier = "window" /\ pc'[r] \in {"sampling", "writing", "done"} =>
            /\ \A g \in owned'[r] :
                 \E e \in todo'[r] \cup readings'[r] \cup failed'[r] : e.game = g
            /\ pc'[r] # "sampling" => todo'[r] = {}
<1> SUFFICES ASSUME TypeInv, Accounted, [Next]_vars PROVE Accounted'
  OBVIOUS
<1>1. CASE \A r \in Runs : Same(r) /\ slot'[r] = slot[r] /\ pc'[r] = pc[r]
  BY <1>1 DEF Same, Accounted
<1>2. ASSUME NEW r \in Runs, Aside(r), Has(r) PROVE Accounted'
  <2>1. ASSUME NEW q \in Runs, q # r PROVE Has(q)
    BY <1>2, <2>1 DEF Aside, Accounted
  <2> QED
    BY <1>2, <2>1 DEF Accounted
<1> USE DEF TypeInv, TypeOK, memory
<1>3. ASSUME NEW r \in Runs, Trigger(r) \/ StartJob(r) \/ StartManual(r) PROVE Has(r)
  BY <1>3 DEF Trigger, StartJob, StartManual
<1>4. ASSUME NEW r \in Runs, TakeSlot(r) \/ CheckBatch(r) \/ GetTopGames(r) PROVE Has(r)
  BY <1>4 DEF TakeSlot, CheckBatch, GetTopGames
<1>5. ASSUME NEW r \in Runs, AppendExtraCandidates(r) PROVE Has(r)
  <2>1. pc'[r] = "sampling" /\ slot'[r] = slot[r]
    BY <1>5 DEF AppendExtraCandidates
  <2> SUFFICES ASSUME slot[r].tier = "window", NEW g \in owned'[r]
               PROVE  \E e \in todo'[r] : e.game = g
    BY <2>1
  <2> DEFINE seen == {e.game : e \in todo[r]}
             extra == {[game |-> h, at |-> WindowTopN + 1] : h \in library \ seen}
  <2>2. g \in library /\ todo'[r] = todo[r] \cup extra
    BY <1>5 DEF AppendExtraCandidates
  <2>3. CASE g \in seen
    BY <2>2, <2>3
  <2>4. CASE g \notin seen
    <3>1. [game |-> g, at |-> WindowTopN + 1] \in extra
      BY <2>2, <2>4
    <3> HIDE DEF extra
    <3> QED
      BY <2>2, <3>1
  <2> QED
    BY <2>3, <2>4
<1>6. ASSUME NEW r \in Runs, SampleGame(r) \/ SampleFails(r) PROVE Has(r)
  <2>1. /\ pc'[r] = "sampling" /\ pc[r] = "sampling" /\ slot'[r] = slot[r]
        /\ owned'[r] = owned[r]
        /\ todo[r] \cup readings[r] \cup failed[r]
             \subseteq todo'[r] \cup readings'[r] \cup failed'[r]
    BY <1>6 DEF SampleGame, SampleFails, AtLoop
  <2> QED
    BY <2>1 DEF Accounted
<1>7. ASSUME NEW r \in Runs, BeginWrite(r) \/ WriteChunk(r) PROVE Has(r)
  BY <1>7 DEF BeginWrite, WriteChunk, Accounted
<1>8. ASSUME NEW r \in Runs, Commit(r) PROVE Has(r)
  BY <1>8 DEF Commit, AtCommit, Accounted
<1>9. ASSUME NEW r \in Runs, SampleRaises(r) \/ Abort(r) \/ CommitFails(r) \/ Crash(r)
      PROVE  Has(r)
  BY <1>9 DEF SampleRaises, Abort, CommitFails, Crash
<1> HIDE DEF Has
<1> QED
  BY <1>1, <1>2, <1>3, <1>4, <1>5, <1>6, <1>7, <1>8, <1>9, MemoryStep DEF RunStep

\* Every game that was read is in the batch, with its last reading.
LEMMA BatchHasGames ==
    ASSUME TypeInv, Positioned, NEW r \in Runs, NEW e \in readings[r]
    PROVE  \E f \in Batch(r) : f.game = e.game
<1> DEFINE again == {f \in readings[r] : f.game = e.game}
           S == {f.at : f \in again}
<1>1. \A f \in readings[r] : f.at \in Nat /\ f.at <= LastAt
  BY DEF TypeInv, TypeOK, Entry, Positioned
<1>2. LastAt \in Nat
  BY LimitsAssumption DEF LastAt
<1>3. S \subseteq Nat /\ S # {} /\ \A n \in S : n <= LastAt
  BY <1>1
<1>4. PICK n \in S : \A m \in S : m <= n
  <2> HIDE DEF S
  <2> QED
    BY <1>2, <1>3, LastPosition
<1>5. PICK f \in again : f.at = n
  BY <1>4
<1>6. \A h \in readings[r] : h.game = f.game => h.at <= f.at
  BY <1>4, <1>5
<1> QED
  BY <1>5, <1>6 DEF Batch, Latest

\* How a run comes to have succeeded, and that it stays so.
LEMMA Succeeding ==
    ASSUME TypeInv, [Next]_vars, NEW r \in Runs, pc'[r] \in {"done", "skipped"}
    PROVE  \/ Same(r) /\ slot'[r] = slot[r] /\ pc'[r] = pc[r]
           \/ Commit(r) /\ Same(r) /\ slot'[r] = slot[r]
           \/ /\ pc[r] = "checking" /\ pc'[r] = "skipped" /\ HasBatch(slot[r].ts)
              /\ slot'[r] = slot[r] /\ snapshots' = snapshots
<1>1. CASE \A q \in Runs : Same(q) /\ slot'[q] = slot[q] /\ pc'[q] = pc[q]
  BY <1>1
<1>2. ASSUME NEW q \in Runs, Aside(q), q # r
      PROVE  Same(r) /\ slot'[r] = slot[r] /\ pc'[r] = pc[r]
  BY <1>2 DEF Aside, Same
<1> USE DEF TypeInv, TypeOK, memory
<1>3. ASSUME Trigger(r) \/ StartJob(r) \/ StartManual(r) \/ TakeSlot(r) PROVE FALSE
  BY <1>3 DEF Trigger, StartJob, StartManual, TakeSlot
<1>4. ASSUME GetTopGames(r) \/ AppendExtraCandidates(r) \/ BeginWrite(r) PROVE FALSE
  BY <1>4 DEF GetTopGames, AppendExtraCandidates, BeginWrite
<1>5. ASSUME SampleGame(r) \/ SampleFails(r) \/ WriteChunk(r) PROVE FALSE
  BY <1>5 DEF SampleGame, SampleFails, WriteChunk
<1>6. ASSUME SampleRaises(r) \/ Abort(r) \/ CommitFails(r) \/ Crash(r) PROVE FALSE
  BY <1>6 DEF SampleRaises, Abort, CommitFails, Crash
<1>7. ASSUME CheckBatch(r)
      PROVE  /\ pc[r] = "checking" /\ pc'[r] = "skipped" /\ HasBatch(slot[r].ts)
             /\ slot'[r] = slot[r] /\ snapshots' = snapshots
  BY <1>7 DEF CheckBatch
<1>8. ASSUME Commit(r) PROVE Same(r) /\ slot'[r] = slot[r]
  BY <1>8 DEF Commit, Same
<1> QED
  BY <1>1, <1>2, <1>3, <1>4, <1>5, <1>6, <1>7, <1>8, MemoryStep DEF RunStep

SuccessInv ==
    /\ TypeInv
    /\ RowsOwned
    /\ Positioned
    /\ Accounted
    /\ SuccessIsVisible
    /\ LastReadingStored

\* A key once stored is never gone, though its row may be another run's by then.
LEMMA KeysStay ==
    ASSUME TypeInv, [Next]_vars, NEW ts, NEW g, Stored(ts, g)
    PROVE  \E row \in snapshots' : row.ts = ts /\ row.game = g
<1>1. CASE Quiet
  BY <1>1 DEF Quiet, Stored
<1>2. ASSUME NEW r \in Runs, Committing(r)
      PROVE  \E row \in snapshots' : row.ts = ts /\ row.game = g
  BY <1>2, AfterCommit
<1> QED
  BY <1>1, <1>2, StoreStep

\* A commit stores every game that was read.
LEMMA CommitStores ==
    ASSUME TypeInv, Positioned, NEW r \in Runs, Commit(r), NEW e \in readings[r]
    PROVE  \E row \in snapshots' : row.ts = slot[r].ts /\ row.game = e.game
<1>1. PICK f \in Batch(r) : f.game = e.game
  BY BatchHasGames
<1> DEFINE new == [ts |-> slot[r].ts, tier |-> slot[r].tier, game |-> f.game,
                   at |-> f.at, by |-> r]
<1>2. Committing(r)
  BY DEF Commit, Committing
<1>3. new \in RowsOf(r, Batch(r))
  BY DEF RowsOf
<1>4. new \in snapshots'
  BY <1>2, <1>3, AfterCommit
<1> QED
  BY <1>1, <1>4

LEMMA NextSuccessIsVisible ==
    TypeInv /\ Positioned /\ SuccessIsVisible /\ [Next]_vars => SuccessIsVisible'
<1> SUFFICES ASSUME TypeInv, Positioned, SuccessIsVisible, [Next]_vars, NEW r \in Runs
             PROVE  /\ pc'[r] = "skipped" => \E row \in snapshots' : row.ts = slot'[r].ts
                    /\ pc'[r] = "done" => \A e \in readings'[r] :
                         \E row \in snapshots' : row.ts = slot'[r].ts /\ row.game = e.game
  BY DEF SuccessIsVisible, Stored
<1>1. ASSUME pc'[r] = "skipped"
      PROVE  \E row \in snapshots' : row.ts = slot'[r].ts
  <2>1. CASE Same(r) /\ slot'[r] = slot[r] /\ pc'[r] = pc[r]
    <3>1. PICK row \in snapshots : row.ts = slot[r].ts
      BY <1>1, <2>1 DEF SuccessIsVisible
    <3>2. Stored(row.ts, row.game)
      BY DEF Stored
    <3> QED
      BY <2>1, <3>1, <3>2, KeysStay
  <2>2. CASE HasBatch(slot[r].ts) /\ slot'[r] = slot[r] /\ snapshots' = snapshots
    BY <2>2 DEF HasBatch
  <2>3. ~Commit(r)
    BY <1>1 DEF Commit, TypeInv, TypeOK
  <2> QED
    BY <1>1, <2>1, <2>2, <2>3, Succeeding
<1>2. ASSUME pc'[r] = "done", NEW e \in readings'[r]
      PROVE  \E row \in snapshots' : row.ts = slot'[r].ts /\ row.game = e.game
  <2>1. CASE Same(r) /\ slot'[r] = slot[r] /\ pc'[r] = pc[r]
    BY <1>2, <2>1, KeysStay DEF SuccessIsVisible, Same
  <2>2. CASE Commit(r) /\ Same(r) /\ slot'[r] = slot[r]
    BY <1>2, <2>2, CommitStores DEF Same
  <2> QED
    BY <1>2, <2>1, <2>2, Succeeding
<1> QED
  BY <1>1, <1>2

LEMMA NextLastReadingStored ==
    TypeInv /\ RowsOwned /\ LastReadingStored /\ [Next]_vars => LastReadingStored'
<1> SUFFICES ASSUME TypeInv, RowsOwned, LastReadingStored, [Next]_vars,
                    NEW r \in Runs, pc'[r] = "done",
                    NEW row \in snapshots', row.by = r,
                    NEW e \in readings'[r], e.game = row.game
             PROVE  e.at <= row.at
  BY DEF LastReadingStored, RowsBy
<1>1. CASE Same(r) /\ slot'[r] = slot[r] /\ pc'[r] = pc[r]
  <2>1. row \in snapshots
    <3>1. ASSUME NEW q \in Runs, Committing(q) PROVE row \in snapshots
      <4>1. q # r
        BY <1>1, <3>1 DEF Committing, AtCommit
      <4> QED
        BY <3>1, <4>1, AfterCommit, RowsOfRun
    <3> QED
      BY <3>1, StoreStep DEF Quiet
  <2> QED
    BY <1>1, <2>1 DEF LastReadingStored, RowsBy, Same
<1>2. CASE Commit(r) /\ Same(r)
  <2>1. Committing(r) /\ readings'[r] = readings[r]
    BY <1>2 DEF Commit, Committing, Same
  <2>2. row \notin snapshots
    BY <1>2 DEF Commit, AtCommit, RowsOwned
  <2>3. row \in RowsOf(r, Batch(r))
    BY <2>1, <2>2, AfterCommit
  <2>4. PICK f \in Batch(r) : row.game = f.game /\ row.at = f.at
    BY <2>3, RowsOfRun
  <2> QED
    BY <2>1, <2>4 DEF Batch, Latest
<1> QED
  BY <1>1, <1>2, Succeeding

LEMMA SuccessInvariance == Spec => []SuccessInv
<1>1. Init => SuccessInv
  <2> SUFFICES ASSUME Init PROVE SuccessInv
    OBVIOUS
  <2>1. TypeInv
    BY InitTypeInv
  <2>2. RowsOwned /\ Positioned /\ Accounted
    BY DEF Init, RowsOwned, Positioned, Accounted
  <2>3. SuccessIsVisible /\ LastReadingStored
    BY DEF Init, SuccessIsVisible, LastReadingStored
  <2> QED
    BY <2>1, <2>2, <2>3 DEF SuccessInv
<1>2. SuccessInv /\ [Next]_vars => SuccessInv'
  BY NextTypeInv, NextRowsOwned, NextPositioned, NextAccounted,
     NextSuccessIsVisible, NextLastReadingStored
  DEF SuccessInv
<1> QED
  BY <1>1, <1>2, PTL DEF Spec

\* A run that reports success leaves its slot sampled and every game it read in
\* the table, whatever runs overlap with it, before or after.
THEOREM SuccessesAreVisible == Spec => []SuccessIsVisible
BY SuccessInvariance, PTL DEF SuccessInv

\* Where Helix repeats a game, what the table keeps of a run is the run's last
\* reading of it.
THEOREM LastReadingsAreStored == Spec => []LastReadingStored
BY SuccessInvariance, PTL DEF SuccessInv

\* A window run that failed on no game has stored every game of the library it
\* read, in the top games or beside them.
THEOREM WindowsCoverLibrary == Spec => []LibraryCovered
<1>1. ASSUME SuccessInv PROVE LibraryCovered
  <2> SUFFICES ASSUME NEW r \in Runs, pc[r] = "done", slot[r].tier = "window",
                      failed[r] = {}, NEW g \in owned[r]
               PROVE  Stored(slot[r].ts, g)
    BY DEF LibraryCovered
  <2>1. PICK e \in readings[r] : e.game = g
    BY <1>1 DEF SuccessInv, Accounted
  <2> QED
    BY <1>1, <2>1 DEF SuccessInv, SuccessIsVisible
<1> QED
  BY <1>1, SuccessInvariance, PTL

----------------------------------------------------------------------------
(* The workflow alone: no baseline batch in front of a window run *)

\* Of two slots with one timestamp the later one is not a window slot alone:
\* before it, in the same quarter of an hour, the stream window was open too.
LEMMA WindowComesFirst ==
    ASSUME Aligned, NEW t \in Int, NEW u \in Int, t <= u,
           ResolveSlot(u).tier = "window", ResolveSlot(t).ts = ResolveSlot(u).ts
    PROVE  ResolveSlot(t).tier = "window"
<1> SUFFICES ASSUME ~InStreamWindow(t) PROVE FALSE
  BY DEF ResolveSlot, SlotFor
<1> DEFINE f == ResolveSlot(u).ts
<1>1. InStreamWindow(u)
  BY DEF ResolveSlot, SlotFor
<1>2. f = u - (u % Granularity) /\ f = t - (t % 60)
  BY <1>1, FloorIsRemainder DEF ResolveSlot, SlotFor
<1>3. /\ t % 60 \in 0..59 /\ u % Granularity \in 0..(Granularity - 1)
      /\ Granularity \in 1..60
  BY FloorByRemainder, ScheduleAssumption DEF ScheduleOK, MinutesPerHour
<1> HIDE DEF f
<1>4. /\ f \in Int /\ t - f \in 0..(Granularity - 1) /\ u - f \in 0..(Granularity - 1)
      /\ f + (t - f) = t /\ f + (u - f) = u
  BY <1>2, <1>3
<1>5. f % Granularity = 0
  <2>1. CASE Granularity \in {1, 2, 3, 4, 5, 6}
    BY <1>2, <2>1, Z3
  <2>2. CASE Granularity \in {10, 12, 15, 20, 30, 60}
    BY <1>2, <2>2, Z3
  <2> QED
    BY <2>1, <2>2, Divisors
<1>6. InStreamWindow(f + (t - f)) <=> InStreamWindow(f + (u - f))
  BY <1>4, <1>5, SameTier
<1> QED
  BY <1>1, <1>4, <1>6

\* A slot that was resolved at t or before.
ResolvedBy(s, t) == \E u \in Instants : u <= t /\ s = ResolveSlot(u)

\* Slots are resolved in the past, and a run that is about to check has the
\* newest of all slots with rows.
InOrder ==
    /\ \A r \in Runs : slot[r] # NoSlot => ResolvedBy(slot[r], now)
    /\ \A r \in Runs : pc[r] = "checking" =>
         \E u \in Instants : /\ slot[r] = ResolveSlot(u)
                             /\ \A row \in snapshots : ResolvedBy(slot[row.by], u)

LEMMA ClockStep ==
    ASSUME TypeInv, [Next]_vars
    PROVE  now \in Int /\ now' \in Int /\ now <= now' /\ \A t \in Instants : t \in Int
<1> USE DEF TypeInv, TypeOK, memory
<1>1. \A t \in Instants : t \in Int
  BY InstantsAssumption
<1>2. CASE Tick
  BY <1>1, <1>2 DEF Tick
<1>3. CASE now' = now
  BY <1>1, <1>3
<1>4. ASSUME NEW r \in Runs, Trigger(r) \/ StartJob(r) \/ StartManual(r) \/ Crash(r)
      PROVE  now' = now
  BY <1>4 DEF Trigger, StartJob, StartManual, Crash
<1>5. ASSUME NEW r \in Runs, RunStep(r) PROVE now' = now
  BY <1>5 DEF RunStep, TakeSlot, CheckBatch, GetTopGames, AppendExtraCandidates, SampleGame,
     SampleFails, BeginWrite, WriteChunk, Commit, SampleRaises, Abort, CommitFails
<1> QED
  BY <1>2, <1>3, <1>4, <1>5 DEF Next, ReplaceOwnedGames, vars

\* How a run's slot, and its turn to check, come about.
LEMMA SlotStep ==
    ASSUME Manual = {}, TypeInv, OnTheClock, [Next]_vars, NEW r \in Runs
    PROVE  \/ /\ slot'[r] = slot[r] /\ (pc'[r] = "checking" => pc[r] = "checking")
           \/ /\ slot'[r] = ResolveSlot(now) /\ now' = now /\ snapshots' = snapshots
              /\ pc[r] = "starting"
              /\ \A q \in Runs \ {r} : slot'[q] = slot[q]
<1> USE DEF TypeInv, TypeOK, memory
<1>1. CASE \A q \in Runs : slot'[q] = slot[q] /\ pc'[q] = pc[q]
  BY <1>1
<1>2. ASSUME NEW q \in Runs, Aside(q), q # r
      PROVE  slot'[r] = slot[r] /\ (pc'[r] = "checking" => pc[r] = "checking")
  BY <1>2 DEF Aside
<1>3. ASSUME Trigger(r) \/ StartJob(r) \/ StartManual(r) \/ CheckBatch(r) \/ GetTopGames(r)
             \/ AppendExtraCandidates(r)
      PROVE  slot'[r] = slot[r] /\ (pc'[r] = "checking" => pc[r] = "checking")
  BY <1>3 DEF Trigger, StartJob, StartManual, CheckBatch, GetTopGames, AppendExtraCandidates
<1>4. ASSUME SampleGame(r) \/ SampleFails(r) \/ BeginWrite(r) \/ WriteChunk(r) \/ Commit(r)
      PROVE  slot'[r] = slot[r] /\ (pc'[r] = "checking" => pc[r] = "checking")
  BY <1>4 DEF SampleGame, SampleFails, BeginWrite, WriteChunk, Commit
<1>5. ASSUME SampleRaises(r) \/ Abort(r) \/ CommitFails(r) \/ Crash(r)
      PROVE  slot'[r] = slot[r] /\ (pc'[r] = "checking" => pc[r] = "checking")
  BY <1>5 DEF SampleRaises, Abort, CommitFails, Crash
<1>6. ASSUME TakeSlot(r)
      PROVE  /\ slot'[r] = ResolveSlot(now) /\ now' = now /\ snapshots' = snapshots
             /\ pc[r] = "starting"
             /\ \A q \in Runs \ {r} : slot'[q] = slot[q]
  BY <1>6 DEF TakeSlot, OnTheClock, Clocked
<1> QED
  BY <1>1, <1>2, <1>3, <1>4, <1>5, <1>6, MemoryStep DEF RunStep

\* A row's run had resolved its slot.
LEMMA RowsResolved ==
    ASSUME TypeInv, RowsOwned, NEW row \in snapshots
    PROVE  /\ row.by \in Runs /\ pc[row.by] \in Ended
           /\ slot[row.by] # NoSlot
BY DEF TypeInv, TypeOK, RowsOwned, Row, NoSlot, Tier, Ended

LEMMA NextInOrder ==
    ASSUME Manual = {}, SerialInv, InOrder, [Next]_vars
    PROVE  InOrder'
<1> USE DEF SerialInv
<1>0. /\ TypeInv /\ OnTheClock /\ RowsOwned /\ now \in Instants
      /\ now \in Int /\ now' \in Int /\ now <= now' /\ \A t \in Instants : t \in Int
  BY ClockStep DEF TypeInv, TypeOK
<1>1. ASSUME NEW r \in Runs, slot'[r] # NoSlot PROVE ResolvedBy(slot'[r], now')
  <2>1. CASE slot'[r] = slot[r]
    <3>1. PICK u \in Instants : u <= now /\ slot[r] = ResolveSlot(u)
      BY <1>1, <2>1 DEF InOrder, ResolvedBy
    <3>2. u <= now'
      BY <1>0, <3>1
    <3> QED
      BY <2>1, <3>1, <3>2 DEF ResolvedBy
  <2>2. CASE slot'[r] = ResolveSlot(now) /\ now' = now
    BY <1>0, <2>2 DEF ResolvedBy
  <2> QED
    BY <1>0, <2>1, <2>2, SlotStep
<1>2. ASSUME NEW r \in Runs, pc'[r] = "checking"
      PROVE  \E u \in Instants : /\ slot'[r] = ResolveSlot(u)
                                 /\ \A row \in snapshots' : ResolvedBy(slot'[row.by], u)
  <2>1. CASE slot'[r] = slot[r] /\ pc[r] = "checking"
    <3>1. PICK u \in Instants : /\ slot[r] = ResolveSlot(u)
                                /\ \A row \in snapshots : ResolvedBy(slot[row.by], u)
      BY <2>1 DEF InOrder
    <3>2. Quiet
      <4>1. ASSUME NEW q \in Runs, Committing(q) PROVE FALSE
        BY <2>1, <4>1 DEF Committing, AtCommit, Exclusive, InProgress, Working, Gathering
      <4> QED
        BY <1>0, <4>1, StoreStep
    <3>3. \A row \in snapshots' : row \in snapshots /\ slot'[row.by] = slot[row.by]
      BY <1>0, <3>2, RowsResolved DEF Quiet
    <3> QED
      BY <2>1, <3>1, <3>3
  <2>2. CASE /\ slot'[r] = ResolveSlot(now) /\ snapshots' = snapshots
             /\ pc[r] = "starting"
             /\ \A q \in Runs \ {r} : slot'[q] = slot[q]
    <3>1. ASSUME NEW row \in snapshots' PROVE ResolvedBy(slot'[row.by], now)
      <4>1. row \in snapshots /\ row.by \in Runs \ {r} /\ slot[row.by] # NoSlot
        BY <1>0, <2>2, RowsResolved DEF Ended
      <4> QED
        BY <2>2, <4>1 DEF InOrder
    <3> QED
      BY <1>0, <2>2, <3>1
  <2> QED
    BY <1>0, <1>2, <2>1, <2>2, SlotStep
<1> QED
  BY <1>1, <1>2 DEF InOrder

LEMMA NextWindowNotPreempted ==
    ASSUME Aligned, SerialInv, InOrder, WindowNotPreempted, [Next]_vars
    PROVE  WindowNotPreempted'
<1> SUFFICES ASSUME NEW r \in Runs, pc'[r] = "skipped", slot'[r].tier = "window"
             PROVE  \E row \in snapshots' : row.ts = slot'[r].ts /\ row.tier = "window"
  BY DEF WindowNotPreempted
<1>0. TypeInv /\ RowsOwned /\ StillEmpty /\ \A t \in Instants : t \in Int
  BY InstantsAssumption DEF SerialInv
<1>1. CASE Same(r) /\ slot'[r] = slot[r] /\ pc'[r] = pc[r]
  <2>1. PICK row \in snapshots : row.ts = slot[r].ts /\ row.tier = "window"
    BY <1>1 DEF WindowNotPreempted
  <2>2. row \in snapshots'
    <3>1. ASSUME NEW q \in Runs, Committing(q) PROVE row \in snapshots'
      <4>1. row.ts # slot[q].ts
        BY <1>0, <3>1 DEF Committing, AtCommit, StillEmpty, HasBatch
      <4>2. \A new \in RowsOf(q, Batch(q)) : new.ts # row.ts
        BY <4>1, RowsOfRun
      <4> QED
        BY <3>1, <4>2 DEF Committing, Publish, Upsert
    <3> QED
      BY <1>0, <3>1, StoreStep DEF Quiet
  <2> QED
    BY <1>1, <2>1, <2>2
<1>2. CASE /\ pc[r] = "checking" /\ HasBatch(slot[r].ts)
           /\ slot'[r] = slot[r] /\ snapshots' = snapshots
  <2>1. PICK row \in snapshots : row.ts = slot[r].ts
    BY <1>2 DEF HasBatch
  <2>2. PICK u \in Instants : /\ slot[r] = ResolveSlot(u)
                              /\ ResolvedBy(slot[row.by], u)
    BY <1>2 DEF InOrder
  <2>3. PICK t \in Instants : t <= u /\ slot[row.by] = ResolveSlot(t)
    BY <2>2 DEF ResolvedBy
  <2>4. row.ts = slot[row.by].ts /\ row.tier = slot[row.by].tier
    BY <1>0 DEF RowsOwned
  <2>5. row.tier = "window"
    BY <1>0, <1>2, <2>1, <2>2, <2>3, <2>4, WindowComesFirst
  <2> QED
    BY <1>2, <2>1, <2>5
<1>3. ~Commit(r)
  BY <1>0 DEF Commit, TypeInv, TypeOK
<1> QED
  BY <1>0, <1>1, <1>2, <1>3, Succeeding

\* Without manual runs, and with a stream window of whole slots, a window run
\* that skips has a window batch to skip for: a baseline run that shares its
\* timestamp comes only after the window slot is over.
THEOREM WindowIsNotPreempted ==
    ASSUME Manual = {}, Aligned
    PROVE  Spec => []WindowNotPreempted
<1>1. Init => InOrder /\ WindowNotPreempted
  BY DEF Init, InOrder, WindowNotPreempted
<1>2. SerialInv /\ InOrder /\ WindowNotPreempted /\ [Next]_vars
        => (InOrder /\ WindowNotPreempted)'
  BY NextInOrder, NextWindowNotPreempted
<1> QED
  BY <1>1, <1>2, SerialInvariance, PTL DEF Spec

----------------------------------------------------------------------------
(* Progress, with manual runs or without *)

\* One trigger waits, and one runs.
InGroup ==
    \A q, r \in Scheduled :
        (pc[q] = "queued" /\ pc[r] = "queued") \/ (InProgress(q) /\ InProgress(r))
            => q = r

\* The loops go over finite sets; what was read of one is finite too.
Finite ==
    \A r \in Runs : /\ IsFiniteSet(todo[r]) /\ IsFiniteSet(readings[r])
                    /\ IsFiniteSet(unsent[r])

LEMMA NextInGroup ==
    ASSUME TypeInv, InGroup, [Next]_vars
    PROVE  InGroup'
<1> USE DEF TypeInv, TypeOK
<1>0. ASSUME \A q \in Scheduled : /\ pc'[q] = "queued" => pc[q] = "queued"
                                  /\ pc'[q] \in Working => pc[q] \in Working
      PROVE  InGroup'
  <2> SUFFICES ASSUME NEW q \in Scheduled, NEW s \in Scheduled,
                      \/ pc'[q] = "queued" /\ pc'[s] = "queued"
                      \/ pc'[q] \in Working /\ pc'[s] \in Working
               PROVE  q = s
    BY DEF InGroup, InProgress
  <2>1. \/ pc[q] = "queued" /\ pc[s] = "queued"
        \/ pc[q] \in Working /\ pc[s] \in Working
    BY <1>0
  <2> QED
    BY <2>1 DEF InGroup, InProgress
<1>1. ASSUME NEW r \in Runs, StartJob(r) PROVE InGroup'
  <2>1. pc' = [pc EXCEPT ![r] = "starting"] /\ \A q \in Scheduled : ~InProgress(q)
    BY <1>1 DEF StartJob
  <2>2. \A q \in Scheduled : q # r => pc'[q] = pc[q] /\ pc[q] \notin Working
    BY <2>1 DEF InProgress
  <2>3. pc'[r] # "queued"
    BY <2>1
  <2> QED
    BY <2>2, <2>3 DEF InGroup, InProgress
<1>2. ASSUME NEW r \in Runs, Trigger(r) PROVE InGroup'
  <2>1. \A q \in Scheduled : /\ pc'[q] = "queued" => q = r
                             /\ pc'[q] \in Working => pc[q] \in Working
    BY <1>2 DEF Trigger, InProgress, Working, Gathering, Runs
  <2> SUFFICES ASSUME NEW q \in Scheduled, NEW s \in Scheduled,
                      \/ pc'[q] = "queued" /\ pc'[s] = "queued"
                      \/ pc'[q] \in Working /\ pc'[s] \in Working
               PROVE  q = s
    BY DEF InGroup, InProgress
  <2>2. CASE pc'[q] = "queued" /\ pc'[s] = "queued"
    BY <2>1, <2>2
  <2>3. CASE pc'[q] \in Working /\ pc'[s] \in Working
    <3>1. pc[q] \in Working /\ pc[s] \in Working
      BY <2>1, <2>3
    <3> QED
      BY <3>1 DEF InGroup, InProgress
  <2> QED
    BY <2>2, <2>3
<1>3. ASSUME NEW r \in Runs, RunStep(r) \/ Crash(r) PROVE InGroup'
  <2>1. PICK place \in Working \cup Ended : pc' = [pc EXCEPT ![r] = place]
    <3>1. CASE Crash(r)
      BY <3>1 DEF Crash, Ended
    <3>2. CASE TakeSlot(r) \/ CheckBatch(r) \/ GetTopGames(r) \/ AppendExtraCandidates(r)
               \/ BeginWrite(r)
      BY <3>2 DEF TakeSlot, CheckBatch, GetTopGames, AppendExtraCandidates, BeginWrite,
         Working, Gathering, Ended
    <3>3. CASE SampleGame(r) \/ SampleFails(r) \/ WriteChunk(r)
      <4>1. pc' = pc /\ pc[r] \in Working
        BY <3>3 DEF SampleGame, SampleFails, WriteChunk, Working
      <4> QED
        BY <4>1
    <3>4. CASE Commit(r) \/ SampleRaises(r) \/ Abort(r) \/ CommitFails(r)
      BY <3>4 DEF Commit, SampleRaises, Abort, CommitFails, Ended
    <3> QED
      BY <1>3, <3>1, <3>2, <3>3, <3>4 DEF RunStep
  <2>2. InProgress(r)
    BY <1>3 DEF RunStep, Crash, InProgress, Working, Gathering, TakeSlot, CheckBatch,
       GetTopGames, AppendExtraCandidates, SampleGame, SampleFails, BeginWrite, WriteChunk,
       Commit, AtCommit, SampleRaises, Abort, CommitFails
  <2>3. \A q \in Scheduled : /\ pc'[q] = "queued" => pc[q] = "queued"
                             /\ pc'[q] \in Working => pc[q] \in Working
    BY <2>1, <2>2 DEF InProgress, Working, Gathering, Ended, Runs
  <2> QED
    BY <1>0, <2>3
<1>4. ASSUME NEW r \in Runs, StartManual(r) PROVE InGroup'
  <2>1. r \notin Scheduled /\ pc' = [pc EXCEPT ![r] = "starting"]
    BY <1>4, RunsAssumption DEF StartManual
  <2>2. \A q \in Scheduled : pc'[q] = pc[q]
    BY <2>1
  <2> QED
    BY <2>2 DEF InGroup, InProgress
<1>5. CASE Tick \/ ReplaceOwnedGames \/ UNCHANGED vars
  BY <1>5 DEF Tick, ReplaceOwnedGames, vars, InGroup, InProgress
<1> QED
  BY <1>1, <1>2, <1>3, <1>4, <1>5 DEF Next

\* The entries of a list are finite, and so are those of the candidates.
LEMMA ListIsFinite ==
    ASSUME NEW list \in TopLists, NEW k
    PROVE  IsFiniteSet({[game |-> list[i], at |-> i] : i \in {j \in DOMAIN list : j <= k}})
<1> DEFINE S == {j \in DOMAIN list : j <= k}
           at == [i \in S |-> [game |-> list[i], at |-> i]]
           entries == {[game |-> list[i], at |-> i] : i \in S}
<1>1. Len(list) \in Nat /\ DOMAIN list = 1..Len(list)
  BY GamesAssumption
<1>2. IsFiniteSet(S)
  <2>1. IsFiniteSet(1..Len(list))
    BY <1>1, FS_Interval
  <2> QED
    BY <1>1, <2>1, FS_Subset
<1>3. at \in Surjection(S, entries)
  BY DEF Surjection
<1> QED
  BY <1>2, <1>3, FS_Surjection

LEMMA CandidatesAreFinite ==
    ASSUME NEW G, IsFiniteSet(G)
    PROVE  IsFiniteSet({[game |-> g, at |-> WindowTopN + 1] : g \in G})
<1> DEFINE entry == [g \in G |-> [game |-> g, at |-> WindowTopN + 1]]
           entries == {[game |-> g, at |-> WindowTopN + 1] : g \in G}
<1>1. entry \in Surjection(G, entries)
  BY DEF Surjection
<1> QED
  BY <1>1, FS_Surjection

\* What one step does to the run that takes it, in the two loops and outside.
LEMMA RunMoves ==
    ASSUME TypeInv, Finite, NEW r \in Runs, RunStep(r)
    PROVE  /\ Advances(r) /\ IsFiniteSet(todo'[r]) /\ IsFiniteSet(readings'[r])
           /\ IsFiniteSet(unsent'[r])
<1> USE DEF TypeInv, TypeOK, memory
<1>0. /\ IsFiniteSet(todo[r]) /\ IsFiniteSet(readings[r]) /\ IsFiniteSet(unsent[r])
      /\ IsFiniteSet({})
  BY FS_EmptySet DEF Finite
<1>1. /\ CallsLeft("starting") = 6 /\ CallsLeft("checking") = 5 /\ CallsLeft("listing") = 4
      /\ CallsLeft("extending") = 3 /\ CallsLeft("sampling") = 2 /\ CallsLeft("writing") = 1
      /\ CallsLeft("done") = 0 /\ CallsLeft("skipped") = 0 /\ CallsLeft("aborted") = 0
  BY DEF CallsLeft
<1>2. CASE TakeSlot(r) \/ CheckBatch(r)
  <2>1. /\ CallsLeft(pc'[r]) < CallsLeft(pc[r])
        /\ todo' = todo /\ readings' = readings /\ unsent' = unsent
    BY <1>1, <1>2 DEF TakeSlot, CheckBatch
  <2> QED
    BY <1>0, <2>1 DEF Advances
<1>3. CASE GetTopGames(r)
  <2>1. /\ CallsLeft(pc'[r]) < CallsLeft(pc[r]) /\ readings' = readings /\ unsent' = unsent
        /\ \E list \in TopLists :
             todo'[r] = {[game |-> list[i], at |-> i] :
                           i \in {j \in DOMAIN list : j <= Limit(slot[r].tier)}}
    BY <1>1, <1>3 DEF GetTopGames
  <2>2. \A list \in TopLists, k \in {Limit(slot[r].tier)} :
          IsFiniteSet({[game |-> list[i], at |-> i] : i \in {j \in DOMAIN list : j <= k}})
    BY ListIsFinite
  <2>3. IsFiniteSet(todo'[r])
    BY <2>1, <2>2
  <2> QED
    BY <1>0, <2>1, <2>3 DEF Advances
<1>4. CASE AppendExtraCandidates(r)
  <2>1. /\ CallsLeft(pc'[r]) < CallsLeft(pc[r]) /\ readings' = readings /\ unsent' = unsent
    BY <1>1, <1>4 DEF AppendExtraCandidates
  <2>2. \/ todo'[r] = todo[r]
        \/ \E G \in SUBSET library :
              todo'[r] = todo[r] \cup {[game |-> g, at |-> WindowTopN + 1] : g \in G}
    BY <1>4 DEF AppendExtraCandidates
  <2>3. \A G \in SUBSET library : IsFiniteSet(G)
    BY GamesAssumption, FS_Subset
  <2>4. IsFiniteSet(todo'[r])
    BY <1>0, <2>2, <2>3, CandidatesAreFinite, FS_Union
  <2> QED
    BY <1>0, <2>1, <2>4 DEF Advances
<1>5. CASE SampleGame(r) \/ SampleFails(r)
  <2>1. PICK e \in todo[r] : /\ todo'[r] = todo[r] \ {e} /\ unsent' = unsent /\ pc' = pc
                             /\ readings'[r] = readings[r] \/ readings'[r] = readings[r] \cup {e}
    BY <1>5 DEF SampleGame, SampleFails, AtLoop
  <2>2. Advances(r)
    BY <2>1 DEF Advances
  <2>3. IsFiniteSet(todo'[r]) /\ IsFiniteSet(readings'[r])
    <3>1. IsFiniteSet(todo[r] \ {e})
      BY <1>0, FS_Subset
    <3>2. IsFiniteSet(readings[r] \cup {e})
      BY <1>0, FS_AddElement
    <3> QED
      BY <1>0, <2>1, <3>1, <3>2
  <2> QED
    BY <1>0, <2>1, <2>2, <2>3
<1>6. CASE BeginWrite(r)
  <2>1. /\ CallsLeft(pc'[r]) < CallsLeft(pc[r]) /\ todo' = todo /\ readings' = readings
        /\ unsent'[r] = Batch(r)
    BY <1>1, <1>6 DEF BeginWrite
  <2>2. IsFiniteSet(Batch(r))
    BY <1>0, LatestSubset, FS_Subset DEF Batch
  <2> QED
    BY <1>0, <2>1, <2>2 DEF Advances
<1>7. CASE WriteChunk(r)
  <2>1. PICK chunk \in SUBSET unsent[r] :
            /\ chunk # {} /\ unsent'[r] = unsent[r] \ chunk
            /\ pc' = pc /\ todo' = todo /\ readings' = readings
    BY <1>7 DEF WriteChunk
  <2>2. Advances(r)
    BY <2>1 DEF Advances
  <2>3. IsFiniteSet(unsent'[r])
    BY <1>0, <2>1, FS_Subset
  <2> QED
    BY <1>0, <2>1, <2>2, <2>3
<1>8. CASE Commit(r)
  <2>1. /\ CallsLeft(pc'[r]) < CallsLeft(pc[r])
        /\ todo' = todo /\ readings' = readings /\ unsent' = unsent
    BY <1>1, <1>8 DEF Commit, AtCommit
  <2> QED
    BY <1>0, <2>1 DEF Advances
<1>9. CASE SampleRaises(r) \/ Abort(r) \/ CommitFails(r)
  <2>1. /\ todo'[r] = {} /\ readings'[r] = {} /\ unsent'[r] = {}
    BY <1>9 DEF SampleRaises, Abort, CommitFails, Forget
  <2>2. pc'[r] = "aborted" /\ pc[r] \in Working
    BY <1>9 DEF SampleRaises, Abort, CommitFails, AtCommit, Working
  <2>3. CallsLeft(pc'[r]) < CallsLeft(pc[r])
    BY <1>1, <2>2 DEF Working, Gathering
  <2> QED
    BY <1>0, <2>1, <2>3 DEF Advances
<1> QED
  BY <1>2, <1>3, <1>4, <1>5, <1>6, <1>7, <1>8, <1>9 DEF RunStep

\* A step leaves every other run what it has; one that starts or is killed has an
\* empty memory, or keeps its own.
LEMMA OthersStay ==
    ASSUME TypeInv, [Next]_vars
    PROVE  \/ \A q \in Runs :
                UNCHANGED <<pc[q], todo[q], readings[q], unsent[q]>>
           \/ \E r \in Runs :
                /\ \/ RunStep(r)
                   \/ /\ Crash(r) /\ pc'[r] = "crashed"
                      /\ todo'[r] = {} /\ readings'[r] = {} /\ unsent'[r] = {}
                   \/ /\ pc[r] \in {"idle", "queued"}
                      /\ UNCHANGED <<todo[r], readings[r], unsent[r]>>
                /\ \A q \in Runs \ {r} :
                      /\ UNCHANGED <<todo[q], readings[q], unsent[q]>>
                      /\ pc'[q] = pc[q] \/ pc[q] = "queued"
<1> DEFINE Rest(r) == \A q \in Runs \ {r} :
                        /\ UNCHANGED <<todo[q], readings[q], unsent[q]>>
                        /\ pc'[q] = pc[q] \/ pc[q] = "queued"
<1> USE DEF TypeInv, TypeOK, Forget, memory
<1>1. ASSUME NEW r \in Runs, Trigger(r) \/ StartJob(r) \/ StartManual(r)
      PROVE  /\ Rest(r) /\ pc[r] \in {"idle", "queued"}
             /\ UNCHANGED <<todo[r], readings[r], unsent[r]>>
  BY <1>1 DEF Trigger, StartJob, StartManual
<1>2. ASSUME NEW r \in Runs, TakeSlot(r) \/ CheckBatch(r) \/ GetTopGames(r)
                             \/ AppendExtraCandidates(r)
      PROVE  Rest(r)
  BY <1>2 DEF TakeSlot, CheckBatch, GetTopGames, AppendExtraCandidates
<1>3. ASSUME NEW r \in Runs, SampleGame(r) \/ SampleFails(r) \/ BeginWrite(r)
                             \/ WriteChunk(r) \/ Commit(r)
      PROVE  Rest(r)
  BY <1>3 DEF SampleGame, SampleFails, BeginWrite, WriteChunk, Commit
<1>4. ASSUME NEW r \in Runs, SampleRaises(r) \/ Abort(r) \/ CommitFails(r)
      PROVE  Rest(r)
  BY <1>4 DEF SampleRaises, Abort, CommitFails
<1>5. ASSUME NEW r \in Runs, Crash(r)
      PROVE  /\ Rest(r) /\ pc'[r] = "crashed"
             /\ todo'[r] = {} /\ readings'[r] = {} /\ unsent'[r] = {}
  BY <1>5 DEF Crash
<1>6. CASE Tick \/ ReplaceOwnedGames \/ UNCHANGED vars
  BY <1>6 DEF Tick, ReplaceOwnedGames, vars
<1>7. ASSUME NEW r \in Runs, RunStep(r) PROVE Rest(r)
  BY <1>2, <1>3, <1>4, <1>7 DEF RunStep
<1> QED
  BY <1>1, <1>5, <1>6, <1>7 DEF Next

LEMMA NextFinite ==
    ASSUME TypeInv, Finite, [Next]_vars
    PROVE  Finite'
<1>1. CASE \A q \in Runs : UNCHANGED <<pc[q], todo[q], readings[q], unsent[q]>>
  BY <1>1 DEF Finite
<1>2. ASSUME NEW r \in Runs,
             \A q \in Runs \ {r} : UNCHANGED <<todo[q], readings[q], unsent[q]>>,
             /\ IsFiniteSet(todo'[r]) /\ IsFiniteSet(readings'[r])
             /\ IsFiniteSet(unsent'[r])
      PROVE  Finite'
  BY <1>2 DEF Finite
<1>3. IsFiniteSet({})
  BY FS_EmptySet
<1>4. \A r \in Runs : IsFiniteSet(todo[r]) /\ IsFiniteSet(readings[r]) /\ IsFiniteSet(unsent[r])
  BY DEF Finite
<1> QED
  BY <1>1, <1>2, <1>3, <1>4, OthersStay, RunMoves

\* A trigger waits for one run, a run for nobody but the database, and every step
\* takes a run nearer to its end, whatever the lists, the library and the other
\* runs are: with the fairness of FairSpec this is why EveryTriggerEnds holds.
THEOREM RunsDoAdvance == Spec => RunsAdvance
<1>1. Init => InGroup /\ Finite
  <2>1. IsFiniteSet({})
    BY FS_EmptySet
  <2> QED
    BY <2>1 DEF Init, InGroup, Finite, InProgress, Working, Gathering, Runs
<1>2. TypeInv /\ InGroup /\ Finite /\ [Next]_vars => InGroup' /\ Finite'
  BY NextInGroup, NextFinite
<1>3. InGroup =>
        \A q, r \in Scheduled :
            (pc[q] = "queued" /\ pc[r] = "queued") \/ (InProgress(q) /\ InProgress(r))
                => q = r
  BY DEF InGroup
<1>4. Finite => \A r \in Runs : IsFiniteSet(todo[r]) /\ IsFiniteSet(unsent[r])
  BY DEF Finite
<1>5. TypeInv /\ Finite /\ [Next]_vars =>
        [\A r \in Runs :
            /\ RunStep(r) => Advances(r)
            /\ InProgress(r) => Advances(r) \/ UNCHANGED <<pc[r], todo[r], unsent[r]>>]_vars
  <2> SUFFICES ASSUME TypeInv, Finite, [Next]_vars, NEW r \in Runs
               PROVE  /\ RunStep(r) => Advances(r)
                      /\ InProgress(r) => Advances(r) \/ UNCHANGED <<pc[r], todo[r], unsent[r]>>
    OBVIOUS
  <2>1. RunStep(r) => Advances(r)
    BY RunMoves
  <2>2. ASSUME Crash(r), pc'[r] = "crashed" PROVE Advances(r)
    <3>1. CallsLeft("crashed") = 0
      BY DEF CallsLeft
    <3>2. \A place \in Working : CallsLeft(place) \in {1, 2, 3, 4, 5, 6}
      BY DEF CallsLeft, Working, Gathering
    <3> QED
      BY <2>2, <3>1, <3>2 DEF Crash, InProgress, Advances
  <2>3. InProgress(r) => pc[r] \notin {"idle", "queued"}
    BY DEF InProgress, Working, Gathering
  <2> QED
    BY <2>1, <2>2, <2>3, OthersStay
<1> QED
  BY <1>1, <1>2, <1>3, <1>4, <1>5, TypeInvariance, PTL DEF Spec, RunsAdvance
=============================================================================
