----------------------------- MODULE Collector -----------------------------
(***************************************************************************)
(* scout collect, as several processes run it against one database: jobs   *)
(* of the workflow .github/workflows/collect.yml, which its concurrency    *)
(* group serialises, and runs an operator starts by hand, which nothing    *)
(* serialises.                                                             *)
(*                                                                         *)
(* A process is the body of Collector.run (src/twitch_scout/collect/       *)
(* collector.py) with the store functions it calls.  One action is one     *)
(* call that leaves the process: a read of the clock or of the database, a *)
(* Helix endpoint, one INSERT statement, the commit.  The database is the  *)
(* deployed one, Turso: a read sees what is committed, a transaction's     *)
(* rows become visible together at its commit, a lost process loses its    *)
(* open transaction, and one transaction at a time holds the write lock.   *)
(***************************************************************************)
EXTENDS Tiers, Sequences, FiniteSets

CONSTANTS
    Scheduled,      \* triggers of the workflow, each a process of its own
    Manual,         \* runs an operator starts by hand
    ManualOptions,  \* the --force and --tier an operator may give
    Games,          \* Twitch categories
    TopLists,       \* what Get Top Games may answer, best first; a game whose
                    \* rank moved between two pages appears twice
    Libraries,      \* what the resolved Steam library may hold
    TopN,           \* CollectorConfig.top_n
    WindowTopN,     \* CollectorConfig.window_top_n
    RowsPerStatement,
    Instants        \* the instants at which something happens

Runs == Scheduled \cup Manual

ASSUME RunsAssumption == Scheduled \cap Manual = {}
ASSUME OptionsAssumption ==
    ManualOptions \subseteq [force : BOOLEAN, tier : Tier \cup {"auto"}]
ASSUME GamesAssumption ==
    /\ TopLists \subseteq Seq(Games)
    /\ Libraries # {} /\ Libraries \subseteq SUBSET Games
    /\ \A lib \in Libraries : IsFiniteSet(lib)
ASSUME LimitsAssumption ==
    /\ TopN \in Nat \ {0} /\ WindowTopN \in Nat \ {0}
    /\ RowsPerStatement \in Nat \ {0}
ASSUME InstantsAssumption == Instants # {} /\ Instants \subseteq Int

VARIABLES
    now,        \* the clock
    library,    \* resolved Steam library (table steam_games)
    snapshots,  \* committed rows of table snapshots
    pc,         \* where each process is
    opts,       \* its command-line options
    slot,       \* its slot, fixed at the start of run()
    todo,       \* entries of `games` the loop has not reached
    readings,   \* `rows`: entries read so far
    failed,     \* entries skipped on a TwitchError
    unsent,     \* rows of the batch not yet sent in the open transaction
    owned,      \* history: the candidates the run read
    published   \* history: the batch the run committed

memory == <<todo, readings, failed, unsent, owned>>
vars == <<now, library, snapshots, pc, opts, slot, memory, published>>

\* An entry of the list the loop walks: a game and its position.  A reading's
\* viewers, channels and truncated flag are whatever Helix said for that entry.
Entry == [game : Games, at : Nat]
Row == [ts : Int, tier : Tier, game : Games, at : Nat, by : Runs]

NoSlot == [tier |-> "none", ts |-> 0]
Clocked == [force |-> FALSE, tier |-> "auto"]

Gathering == {"starting", "checking", "listing", "extending"}
Working == Gathering \cup {"sampling", "writing"}
Ended == {"done", "skipped", "aborted", "crashed", "cancelled"}
Phase == {"idle", "queued"} \cup Working \cup Ended

TypeOK ==
    /\ now \in Instants
    /\ library \in Libraries
    /\ snapshots \in SUBSET Row
    /\ pc \in [Runs -> Phase]
    /\ opts \in [Runs -> [force : BOOLEAN, tier : Tier \cup {"auto"}]]
    /\ slot \in [Runs -> Slot \cup {NoSlot}]
    /\ todo \in [Runs -> SUBSET Entry]
    /\ readings \in [Runs -> SUBSET Entry]
    /\ failed \in [Runs -> SUBSET Entry]
    /\ unsent \in [Runs -> SUBSET Entry]
    /\ owned \in [Runs -> SUBSET Games]
    /\ published \in [Runs -> SUBSET Entry]

Init ==
    /\ now \in {t \in Instants : \A u \in Instants : t <= u}
    /\ library \in Libraries
    /\ snapshots = {}
    /\ pc = [r \in Runs |-> "idle"]
    /\ opts = [r \in Runs |-> Clocked]
    /\ slot = [r \in Runs |-> NoSlot]
    /\ todo = [r \in Runs |-> {}]
    /\ readings = [r \in Runs |-> {}]
    /\ failed = [r \in Runs |-> {}]
    /\ unsent = [r \in Runs |-> {}]
    /\ owned = [r \in Runs |-> {}]
    /\ published = [r \in Runs |-> {}]

----------------------------------------------------------------------------
(* The store *)

HasBatch(ts) == \E row \in snapshots : row.ts = ts

\* Slip: the timestamp's rows deleted, then the new ones inserted.
DeleteInsert(table, rows) ==
    {old \in table : \A row \in rows : row.ts # old.ts} \cup rows

\* INSERT ... ON CONFLICT (ts, game_id) DO UPDATE: a new row replaces the row
\* with its key and no other.
Upsert(table, rows) ==
    {old \in table : \A row \in rows : row.ts # old.ts \/ row.game # old.game}
        \cup rows

\* Slip: repeated games sent as they are.
NotDeduplicated(entries) == entries

\* Slip: the first reading of a game wins.
Earliest(entries) ==
    {e \in entries : \A f \in entries : f.game = e.game => e.at <= f.at}

\* latest = {r.game_id: r for r in rows}: the last reading of a game wins.
Latest(entries) ==
    {e \in entries : \A f \in entries : f.game = e.game => f.at <= e.at}

Batch(r) == Latest(readings[r])

RowsOf(r, entries) ==
    {[ts |-> slot[r].ts, tier |-> slot[r].tier,
      game |-> e.game, at |-> e.at, by |-> r] : e \in entries}

\* The process has sent a statement and holds the write lock.
InTransaction(r) == pc[r] = "writing" /\ unsent[r] # Batch(r)

----------------------------------------------------------------------------
(* The workflow and the operator *)

InProgress(r) == pc[r] \in Working

\* Slip: newer jobs wait beside the older ones.
TriggerBeside(r) ==
    /\ r \in Scheduled
    /\ pc[r] = "idle"
    /\ pc' = [pc EXCEPT ![r] = "queued"]
    /\ UNCHANGED <<now, library, snapshots, opts, slot, memory, published>>

\* workflow_dispatch.  The group keeps one job waiting: a newer one replaces it.
Trigger(r) ==
    /\ r \in Scheduled
    /\ pc[r] = "idle"
    /\ pc' = [q \in Runs |->
                IF q = r THEN "queued"
                ELSE IF pc[q] = "queued" THEN "cancelled" ELSE pc[q]]
    /\ UNCHANGED <<now, library, snapshots, opts, slot, memory, published>>

\* Slip: no concurrency group.
StartAtOnce(r) ==
    /\ pc[r] = "queued"
    /\ pc' = [pc EXCEPT ![r] = "starting"]
    /\ UNCHANGED <<now, library, snapshots, opts, slot, memory, published>>

\* Slip: a job that is lost holds the group for ever.
StartUnlessLost(r) ==
    /\ pc[r] = "queued"
    /\ \A q \in Scheduled : ~InProgress(q) /\ pc[q] # "crashed"
    /\ pc' = [pc EXCEPT ![r] = "starting"]
    /\ UNCHANGED <<now, library, snapshots, opts, slot, memory, published>>

StartJob(r) ==
    /\ pc[r] = "queued"
    /\ \A q \in Scheduled : ~InProgress(q)
    /\ pc' = [pc EXCEPT ![r] = "starting"]
    /\ UNCHANGED <<now, library, snapshots, opts, slot, memory, published>>

StartManual(r) ==
    /\ r \in Manual
    /\ pc[r] = "idle"
    /\ \E o \in ManualOptions : opts' = [opts EXCEPT ![r] = o]
    /\ pc' = [pc EXCEPT ![r] = "starting"]
    /\ UNCHANGED <<now, library, snapshots, slot, memory, published>>

----------------------------------------------------------------------------
(* Collector.run *)

\* The one reading of the clock, after the database was opened and migrated.
TakeSlot(r) ==
    /\ pc[r] = "starting"
    /\ slot' = [slot EXCEPT ![r] =
                  IF opts[r].tier = "auto" THEN ResolveSlot(now)
                                           ELSE SlotFor(now, opts[r].tier)]
    /\ pc' = [pc EXCEPT ![r] = "checking"]
    /\ UNCHANGED <<now, library, snapshots, opts, memory, published>>

\* Slip: a batch of the other tier does not count.
CheckBatchOfTier(r) ==
    /\ pc[r] = "checking"
    /\ LET sampled == \E row \in snapshots : /\ row.ts = slot[r].ts
                                            /\ row.tier = slot[r].tier
       IN  pc' = [pc EXCEPT ![r] =
                    IF ~opts[r].force /\ sampled THEN "skipped" ELSE "listing"]
    /\ UNCHANGED <<now, library, snapshots, opts, slot, memory, published>>

CheckBatch(r) ==
    /\ pc[r] = "checking"
    /\ pc' = [pc EXCEPT ![r] =
                IF ~opts[r].force /\ HasBatch(slot[r].ts) THEN "skipped"
                                                          ELSE "listing"]
    /\ UNCHANGED <<now, library, snapshots, opts, slot, memory, published>>

Limit(tier) == IF tier = "window" THEN WindowTopN ELSE TopN

GetTopGames(r) ==
    /\ pc[r] = "listing"
    /\ \E list \in TopLists :
         todo' = [todo EXCEPT ![r] =
                    {[game |-> list[i], at |-> i] :
                       i \in {j \in DOMAIN list : j <= Limit(slot[r].tier)}}]
    /\ pc' = [pc EXCEPT ![r] = "extending"]
    /\ UNCHANGED <<now, library, snapshots, opts, slot,
                   readings, failed, unsent, owned, published>>

\* Slip: the candidates are cut off with the list.
AppendWithinLimit(r) ==
    /\ pc[r] = "extending"
    /\ owned' = [owned EXCEPT ![r] = IF slot[r].tier = "window" THEN library ELSE @]
    /\ UNCHANGED todo
    /\ pc' = [pc EXCEPT ![r] = "sampling"]
    /\ UNCHANGED <<now, library, snapshots, opts, slot,
                   readings, failed, unsent, published>>

\* The candidates come behind the top games and are distinct, so they share
\* one position.
AppendExtraCandidates(r) ==
    /\ pc[r] = "extending"
    /\ IF slot[r].tier = "window"
       THEN LET seen == {e.game : e \in todo[r]}
            IN  /\ owned' = [owned EXCEPT ![r] = library]
                /\ todo' = [todo EXCEPT ![r] = @ \cup
                              {[game |-> g, at |-> WindowTopN + 1] :
                                 g \in library \ seen}]
       ELSE UNCHANGED <<owned, todo>>
    /\ pc' = [pc EXCEPT ![r] = "sampling"]
    /\ UNCHANGED <<now, library, snapshots, opts, slot,
                   readings, failed, unsent, published>>

\* The entries the loop may be at: the earliest that are left.
AtLoop(r) == {e \in todo[r] : \A f \in todo[r] : e.at <= f.at}

SampleGame(r) ==
    /\ pc[r] = "sampling"
    /\ \E e \in AtLoop(r) :
         /\ todo' = [todo EXCEPT ![r] = @ \ {e}]
         /\ readings' = [readings EXCEPT ![r] = @ \cup {e}]
    /\ UNCHANGED <<now, library, snapshots, pc, opts, slot,
                   failed, unsent, owned, published>>

\* get_streams raised a TwitchError: the entry is counted and skipped.
SampleFails(r) ==
    /\ pc[r] = "sampling"
    /\ \E e \in AtLoop(r) :
         /\ todo' = [todo EXCEPT ![r] = @ \ {e}]
         /\ failed' = [failed EXCEPT ![r] = @ \cup {e}]
    /\ UNCHANGED <<now, library, snapshots, pc, opts, slot,
                   readings, unsent, owned, published>>

\* write_batch begins: the batch is the rows with repeated games removed.
BeginWrite(r) ==
    /\ pc[r] = "sampling"
    /\ todo[r] = {}
    /\ unsent' = [unsent EXCEPT ![r] = Batch(r)]
    /\ pc' = [pc EXCEPT ![r] = "writing"]
    /\ UNCHANGED <<now, library, snapshots, opts, slot,
                   todo, readings, failed, owned, published>>

\* Slip: every statement commits by itself.
WriteAutocommit(r) ==
    /\ pc[r] = "writing"
    /\ \A q \in Runs \ {r} : ~InTransaction(q)
    /\ \E e \in unsent[r] :
         /\ unsent' = [unsent EXCEPT ![r] = @ \ {e}]
         /\ snapshots' = Upsert(snapshots, RowsOf(r, {e}))
    /\ UNCHANGED <<now, library, pc, opts, slot,
                   todo, readings, failed, owned, published>>

\* One multi-row INSERT, in the transaction: nothing is visible yet.
WriteChunk(r) ==
    /\ pc[r] = "writing"
    /\ \A q \in Runs \ {r} : ~InTransaction(q)
    /\ \E chunk \in SUBSET unsent[r] :
         /\ chunk # {}
         /\ \/ Cardinality(chunk) = RowsPerStatement
            \/ chunk = unsent[r] /\ Cardinality(chunk) < RowsPerStatement
         /\ unsent' = [unsent EXCEPT ![r] = @ \ chunk]
    /\ UNCHANGED <<now, library, snapshots, pc, opts, slot,
                   todo, readings, failed, owned, published>>

\* The effect of a commit on the table.
Publish(r) ==
    /\ snapshots' = Upsert(snapshots, RowsOf(r, Batch(r)))
    /\ published' = [published EXCEPT ![r] = Batch(r)]

AtCommit(r) == pc[r] = "writing" /\ unsent[r] = {}

Commit(r) ==
    /\ AtCommit(r)
    /\ Publish(r)
    /\ pc' = [pc EXCEPT ![r] = "done"]
    /\ UNCHANGED <<now, library, opts, slot, memory>>

----------------------------------------------------------------------------
(* Failures *)

Forget(r) ==
    /\ todo' = [todo EXCEPT ![r] = {}]
    /\ readings' = [readings EXCEPT ![r] = {}]
    /\ failed' = [failed EXCEPT ![r] = {}]
    /\ unsent' = [unsent EXCEPT ![r] = {}]
    /\ owned' = [owned EXCEPT ![r] = {}]

\* get_streams or the Snapshot raised what is no TwitchError: a body that is not
\* JSON or fails validation, a blank game name, an exhausted token bucket.
SampleRaises(r) ==
    /\ pc[r] = "sampling"
    /\ todo[r] # {}
    /\ Forget(r)
    /\ pc' = [pc EXCEPT ![r] = "aborted"]
    /\ UNCHANGED <<now, library, snapshots, opts, slot, published>>

\* An exception anywhere else, which run() does not handle: opening the
\* database, the two reads, Get Top Games, a statement of the batch (then
\* transaction() rolls back).
Abort(r) ==
    /\ pc[r] \in Gathering \/ (pc[r] = "writing" /\ ~AtCommit(r))
    /\ Forget(r)
    /\ pc' = [pc EXCEPT ![r] = "aborted"]
    /\ UNCHANGED <<now, library, snapshots, opts, slot, published>>

\* conn.commit() raised: it may have taken effect, and nothing rolls back.
CommitFails(r) ==
    /\ AtCommit(r)
    /\ Publish(r) \/ UNCHANGED <<snapshots, published>>
    /\ Forget(r)
    /\ pc' = [pc EXCEPT ![r] = "aborted"]
    /\ UNCHANGED <<now, library, opts, slot>>

\* The process is killed: the ten-minute timeout of the job, a lost runner, an
\* interrupt.  A kill during the commit may come after it took effect.
Crash(r) ==
    /\ InProgress(r)
    /\ \/ AtCommit(r) /\ Publish(r)
       \/ UNCHANGED <<snapshots, published>>
    /\ Forget(r)
    /\ pc' = [pc EXCEPT ![r] = "crashed"]
    /\ UNCHANGED <<now, library, opts, slot>>

----------------------------------------------------------------------------
(* The environment *)

Tick ==
    /\ \E t \in Instants :
         /\ now < t
         /\ \A u \in Instants : now < u => t <= u
         /\ now' = t
    /\ UNCHANGED <<library, snapshots, pc, opts, slot, memory, published>>

\* scout steam-sync, one transaction of its own.
ReplaceOwnedGames ==
    /\ library' \in Libraries
    /\ UNCHANGED <<now, snapshots, pc, opts, slot, memory, published>>

RunStep(r) ==
    \/ TakeSlot(r) \/ CheckBatch(r)
    \/ GetTopGames(r) \/ AppendExtraCandidates(r)
    \/ SampleGame(r) \/ SampleFails(r)
    \/ BeginWrite(r) \/ WriteChunk(r) \/ Commit(r)
    \/ SampleRaises(r) \/ Abort(r) \/ CommitFails(r)

Next ==
    \/ \E r \in Runs : \/ Trigger(r) \/ StartJob(r) \/ StartManual(r)
                       \/ RunStep(r) \/ Crash(r)
    \/ Tick
    \/ ReplaceOwnedGames

Spec == Init /\ [][Next]_vars

\* GitHub starts a waiting job once the group is free, and a live process keeps
\* executing; nothing has to be triggered, to crash or to fail.
Fairness ==
    \A r \in Runs : WF_vars(StartJob(r)) /\ WF_vars(RunStep(r))

FairSpec == Spec /\ Fairness
=============================================================================
