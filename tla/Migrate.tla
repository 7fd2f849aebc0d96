------------------------------ MODULE Migrate ------------------------------
(***************************************************************************)
(* connect() brings the database to the schema of the code that opens it   *)
(* (src/twitch_scout/store/db.py).  Every command connects, so several      *)
(* processes, of older and newer code, may migrate one database; each may   *)
(* fail or be killed between any two statements and be started again.      *)
(* On Turso DDL takes effect at once and is not rolled back, and the        *)
(* version in table meta changes at the commit.  On local SQLite a          *)
(* migration is a transaction under the locks of module SqliteLocks.       *)
(***************************************************************************)
EXTENDS Integers, Sequences, FiniteSets, SqliteLocks

CONSTANTS
    Backends,   \* of "turso" and "sqlite", those considered
    Code,       \* SCHEMA_VERSION of the code each process runs
    MaxStarts   \* bound: how often a process is started

Create(object) == [op |-> "create", object |-> object]
Drop(object) == [op |-> "drop", object |-> object]

MIGRATIONS ==
    << << Create("snapshots"), Create("idx_snap_game_ts"),
          Create("idx_snap_ts"), Create("meta") >>,
       << Create("steam_games"), Create("idx_steam_twitch_game") >>,
       << Create("watchlist") >>,
       << Drop("watchlist") >> >>

Versions == 1..Len(MIGRATIONS)
Statements(v) == MIGRATIONS[v]
Objects == {s.object : s \in UNION {{Statements(v)[i] : i \in 1..Len(Statements(v))}
                                     : v \in Versions}}

ASSUME CodeAssumption ==
    /\ Backends \subseteq {"turso", "sqlite"}
    /\ Code \in [Processes -> Versions] /\ MaxStarts \in Nat

VARIABLES
    backend,   \* what SCOUT_DB names
    schema,    \* tables and indexes that exist, for everybody to see
    recorded,  \* meta.schema_version, 0 if there is none
    pc,        \* "off", "connecting", "migrating", "ready", "refused" or "failed"
    version,   \* the migration a process is at
    step,      \* its next statement
    starts

vars == <<backend, lock, schema, recorded, pc, version, step, starts>>

TypeOK ==
    /\ backend \in Backends
    /\ lock \in Locks
    /\ schema \subseteq Objects
    /\ recorded \in 0..Len(MIGRATIONS)
    /\ pc \in [Processes -> {"off", "connecting", "migrating", "ready",
                             "refused", "failed"}]
    /\ version \in [Processes -> Versions]
    /\ step \in [Processes -> 1..5]
    /\ starts \in [Processes -> 0..MaxStarts]

Init ==
    /\ backend \in Backends
    /\ lock = [p \in Processes |-> "none"]
    /\ schema = {} /\ recorded = 0
    /\ pc = [p \in Processes |-> "off"]
    /\ version = [p \in Processes |-> 1]
    /\ step = [p \in Processes |-> 1]
    /\ starts = [p \in Processes |-> 0]

Apply(s) == IF s.op = "create" THEN schema \cup {s.object}
                               ELSE schema \ {s.object}

\* What a whole migration makes of the schema.
After(v) ==
    LET made == {s.object : s \in {Statements(v)[i] : i \in
                     {j \in 1..Len(Statements(v)) : Statements(v)[j].op = "create"}}}
        gone == {s.object : s \in {Statements(v)[i] : i \in
                     {j \in 1..Len(Statements(v)) : Statements(v)[j].op = "drop"}}}
    IN  (schema \cup made) \ gone

Local == backend = "sqlite"

\* A command is run: a new process, or again after it ended.
Connect(p) ==
    /\ pc[p] \notin {"connecting", "migrating"}
    /\ starts[p] < MaxStarts
    /\ pc' = [pc EXCEPT ![p] = "connecting"]
    /\ starts' = [starts EXCEPT ![p] = @ + 1]
    /\ Release(p)
    /\ UNCHANGED <<backend, schema, recorded, version, step>>

Migrating(p, v) ==
    /\ pc' = [pc EXCEPT ![p] = "migrating"]
    /\ version' = [version EXCEPT ![p] = v]
    /\ step' = [step EXCEPT ![p] = 1]

\* Slip: a newer database is not refused; the loop over the versions to come is
\* then empty, and the connection is as good as any.
ReadAnyVersion(p) ==
    /\ pc[p] = "connecting"
    /\ IF Local THEN Select(p) ELSE UNCHANGED lock
    /\ IF recorded >= Code[p]
       THEN pc' = [pc EXCEPT ![p] = "ready"] /\ UNCHANGED <<version, step>>
       ELSE Migrating(p, recorded + 1)
    /\ UNCHANGED <<backend, schema, recorded, starts>>

\* _migrate: the applied version decides where to begin.  Without table meta,
\* or without its row, it is 0.  A database newer than the code is refused, and
\* the connection closed.  The SELECT leaves its transaction open.
ReadVersion(p) ==
    /\ pc[p] = "connecting"
    /\ IF ~Local THEN UNCHANGED lock
       ELSE IF recorded > Code[p] THEN ~OthersHold(p, {"pending"}) /\ Release(p)
       ELSE Select(p)
    /\ IF recorded > Code[p]
       THEN pc' = [pc EXCEPT ![p] = "refused"] /\ UNCHANGED <<version, step>>
       ELSE IF recorded = Code[p]
       THEN pc' = [pc EXCEPT ![p] = "ready"] /\ UNCHANGED <<version, step>>
       ELSE Migrating(p, recorded + 1)
    /\ UNCHANGED <<backend, schema, recorded, starts>>

NextStatement(p) ==
    /\ pc[p] = "migrating"
    /\ step[p] <= Len(Statements(version[p]))
    /\ step' = [step EXCEPT ![p] = @ + 1]
    /\ UNCHANGED <<backend, recorded, pc, version, starts>>

\* Slip: the legacy mode of sqlite3, which commits DDL at once.
ExecuteAutocommit(p) ==
    /\ NextStatement(p)
    /\ schema' = Apply(Statements(version[p])[step[p]])
    /\ IF Local THEN Write(p) ELSE UNCHANGED lock

ExecuteStatement(p) ==
    /\ NextStatement(p)
    /\ IF Local THEN Write(p) /\ UNCHANGED schema
       ELSE schema' = Apply(Statements(version[p])[step[p]]) /\ UNCHANGED lock

\* Slip: the commit comes before the last statement.
BeforeLast(p) ==
    pc[p] = "migrating" /\ step[p] = Len(Statements(version[p]))

AtCommit(p) ==
    pc[p] = "migrating" /\ step[p] = Len(Statements(version[p])) + 1

DrainReaders(p) ==
    /\ Local /\ AtCommit(p) /\ BeginCommit(p)
    /\ UNCHANGED <<backend, schema, recorded, pc, version, step, starts>>

\* The next migration, or none.
GoOn(p) ==
    IF version[p] = Code[p]
    THEN pc' = [pc EXCEPT ![p] = "ready"] /\ UNCHANGED <<version, step>>
    ELSE Migrating(p, version[p] + 1)

Committed(p) ==
    IF Local THEN MayCommit(p) /\ schema' = After(version[p]) /\ Release(p)
             ELSE UNCHANGED <<schema, lock>>

\* Slip: every migration records the newest version.
CommitNewest(p) ==
    /\ AtCommit(p)
    /\ Committed(p)
    /\ recorded' = Code[p]
    /\ GoOn(p)
    /\ UNCHANGED <<backend, starts>>

\* The upsert of the version and the commit of the transaction.
CommitMigration(p) ==
    /\ AtCommit(p)
    /\ Committed(p)
    /\ recorded' = version[p]
    /\ GoOn(p)
    /\ UNCHANGED <<backend, starts>>

\* A statement raises, on SQLite also because it is refused the lock or waited
\* too long for it, and the connection is closed; or the process is lost.  On
\* Turso the statements before it stay, and a commit may have taken effect.
Fail(p) ==
    /\ pc[p] \in {"connecting", "migrating"}
    /\ \/ ~Local /\ AtCommit(p) /\ recorded' = version[p]
       \/ UNCHANGED recorded
    /\ pc' = [pc EXCEPT ![p] = "failed"]
    /\ Release(p)
    /\ UNCHANGED <<backend, schema, version, step, starts>>

\* The command ends.  On Turso that is no different from being idle.
Close(p) ==
    /\ Local /\ pc[p] = "ready"
    /\ pc' = [pc EXCEPT ![p] = "off"]
    /\ Release(p)
    /\ UNCHANGED <<backend, schema, recorded, version, step, starts>>

Next ==
    \E p \in Processes :
        \/ Connect(p) \/ ReadVersion(p) \/ ExecuteStatement(p)
        \/ DrainReaders(p) \/ CommitMigration(p) \/ Fail(p) \/ Close(p)

Spec == Init /\ [][Next]_vars

----------------------------------------------------------------------------
(* Properties *)

\* What remains after the first v migrations.
Created(v) == {o \in Objects : \E w \in 1..v, i \in 1..4 :
                  i <= Len(Statements(w)) /\ Statements(w)[i] = Create(o)}
Dropped(v) == {o \in Objects : \E w \in 1..v, i \in 1..4 :
                  i <= Len(Statements(w)) /\ Statements(w)[i] = Drop(o)}
FinalSchema(v) == Created(v) \ Dropped(v)

\* The tables the program uses.
Lasting == {o \in Objects : o \notin Dropped(Len(MIGRATIONS))}

\* The recorded version never runs ahead of the schema, whichever processes
\* interleave and whichever are lost: the lasting tables and indexes of every
\* migration up to it exist.
RecordedMeansApplied == Created(recorded) \cap Lasting \subseteq schema

\* A process that got its connection has the tables its code uses, and nobody
\* else's migration takes them away.
ReadyMeansUsable ==
    \A p \in Processes :
        pc[p] = "ready" => Created(Code[p]) \cap Lasting \subseteq schema

\* A process that was the only one, however often it failed partway and was
\* started again, ends with exactly the schema of its code: re-running the
\* statements that stayed is harmless (db.py:61).
RetryIsHarmless ==
    \A p \in Processes :
        pc[p] = "ready" /\ (\A q \in Processes \ {p} : starts[q] = 0)
            => schema = FinalSchema(Code[p]) /\ recorded = Code[p]

\* On local SQLite a process that found its own version in the database keeps it
\* there while the transaction of that read is open: no newer database is taken
\* for its own (db.py:222), and nobody commits a migration under it.
OwnVersionHeld ==
    Local => \A p \in Processes :
                 pc[p] = "ready" /\ lock[p] # "none" => recorded = Code[p]

\* On local SQLite the schema of the newest version is exact at every moment,
\* however migrators of old and new code meet and fail: each sees what it
\* migrates, or waits, or is refused (db.py:187).
LocalSchemaIsExact ==
    Local /\ recorded = Len(MIGRATIONS) => schema = FinalSchema(recorded)

\* Once nobody migrates and the newest version is recorded, the schema is the
\* newest one: "v3 stays and this drops its table" (db.py:120).
SettledSchemaIsFinal ==
    /\ \A p \in Processes : pc[p] \notin {"connecting", "migrating"}
    /\ recorded = Len(MIGRATIONS)
    => schema = FinalSchema(recorded)
=============================================================================
