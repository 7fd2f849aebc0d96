--------------------------- MODULE MigrateProofs ---------------------------
(***************************************************************************)
(* Migrations of one database by any number of processes, of any releases, *)
(* started any number of times, on either backend.                         *)
(***************************************************************************)
EXTENDS Migrate, TLAPS

(* The migrations as they are *)

LEMMA Shape ==
    /\ Versions = 1..4 /\ Len(MIGRATIONS) = 4
    /\ Len(Statements(1)) = 4 /\ Len(Statements(2)) = 2
    /\ Len(Statements(3)) = 1 /\ Len(Statements(4)) = 1
<1>1. Len(MIGRATIONS) = 4
  BY DEF MIGRATIONS
<1>2. /\ Len(Statements(1)) = 4 /\ Len(Statements(2)) = 2
      /\ Len(Statements(3)) = 1 /\ Len(Statements(4)) = 1
  BY DEF Statements, MIGRATIONS
<1> QED
  BY <1>1, <1>2 DEF Versions

LEMMA Scripts ==
    /\ Statements(1)[1] = Create("snapshots")
    /\ Statements(1)[2] = Create("idx_snap_game_ts")
    /\ Statements(1)[3] = Create("idx_snap_ts")
    /\ Statements(1)[4] = Create("meta")
    /\ Statements(2)[1] = Create("steam_games")
    /\ Statements(2)[2] = Create("idx_steam_twitch_game")
    /\ Statements(3)[1] = Create("watchlist")
    /\ Statements(4)[1] = Drop("watchlist")
BY DEF Statements, MIGRATIONS

\* No migration has more than four statements.
LEMMA ScriptLength ==
    ASSUME NEW v \in Versions
    PROVE  Len(Statements(v)) \in 1..4
<1>1. v \in {1, 2, 3, 4}
  BY Shape
<1> QED
  BY <1>1, Shape

\* A statement creates or drops an object of the schema.
LEMMA StatementForm ==
    ASSUME NEW v \in Versions, NEW i \in 1..Len(Statements(v))
    PROVE  \E o \in Objects : Statements(v)[i] \in {Create(o), Drop(o)}
<1>1. Statements(v)[i].object \in Objects
  BY DEF Objects
<1>2. Statements(v)[i] \in {Create(Statements(v)[i].object), Drop(Statements(v)[i].object)}
  <2>1. v \in {1, 2, 3, 4} /\ i \in {1, 2, 3, 4}
    <3>1. v \in {1, 2, 3, 4}
      BY Shape
    <3>2. PICK n \in 1..4 : n = Len(Statements(v))
      BY ScriptLength
    <3>3. i \in 1..n
      BY <3>2
    <3> QED
      BY <3>1, <3>3
  <2>2. CASE v = 1
    BY <2>1, <2>2, Scripts DEF Create, Drop
  <2>3. CASE v = 2
    BY <2>1, <2>3, Shape, Scripts DEF Create, Drop
  <2>4. CASE v = 3 \/ v = 4
    BY <2>1, <2>4, Shape, Scripts DEF Create, Drop
  <2> QED
    BY <2>1, <2>2, <2>3, <2>4
<1> QED
  BY <1>1, <1>2

----------------------------------------------------------------------------
(* Types *)

\* A process migrates towards its own release, one statement after another.
Progress ==
    \A p \in Processes : pc[p] = "migrating" =>
        /\ version[p] <= Code[p]
        /\ step[p] <= Len(Statements(version[p])) + 1

TypeInv == TypeOK /\ Progress

LEMMA CodeType == \A p \in Processes : Code[p] \in Versions
BY CodeAssumption

LEMMA LockSteps ==
    ASSUME lock \in Locks, NEW p \in Processes,
           Select(p) \/ Write(p) \/ Release(p) \/ BeginCommit(p) \/ UNCHANGED lock
    PROVE  lock' \in Locks
BY DEF Locks, Select, Write, Release, BeginCommit, Hold

\* A statement keeps the schema within the objects there are.
LEMMA ApplyType ==
    ASSUME schema \subseteq Objects, NEW v \in Versions, NEW i \in 1..Len(Statements(v))
    PROVE  Apply(Statements(v)[i]) \subseteq Objects
BY StatementForm DEF Apply, Create, Drop

LEMMA AfterType ==
    ASSUME schema \subseteq Objects, NEW v \in Versions
    PROVE  After(v) \subseteq Objects
<1>1. \A i \in 1..Len(Statements(v)) : Statements(v)[i].object \in Objects
  BY DEF Objects
<1> QED
  BY <1>1 DEF After

\* What every step of the loop over the versions does to a process.
LEMMA MigratingType ==
    ASSUME TypeInv, NEW p \in Processes, NEW v \in Versions, v <= Code[p],
           Migrating(p, v)
    PROVE  /\ version' \in [Processes -> Versions]
           /\ step' \in [Processes -> 1..5]
           /\ Progress'
<1>1. Len(Statements(v)) \in 1..4
  BY ScriptLength
<1> QED
  BY <1>1 DEF TypeInv, TypeOK, Progress, Migrating

LEMMA GoOnType ==
    ASSUME TypeInv, NEW p \in Processes, pc[p] = "migrating", GoOn(p)
    PROVE  /\ pc' = [pc EXCEPT ![p] = "ready"] \/ pc' = [pc EXCEPT ![p] = "migrating"]
           /\ version' \in [Processes -> Versions]
           /\ step' \in [Processes -> 1..5]
           /\ Progress'
<1>1. version[p] \in Versions /\ version[p] <= Code[p] /\ Code[p] \in Versions
  BY CodeType DEF TypeInv, TypeOK, Progress
<1>2. CASE version[p] = Code[p]
  BY <1>2 DEF GoOn, TypeInv, TypeOK, Progress
<1>3. CASE version[p] # Code[p]
  <2>1. version[p] + 1 \in Versions /\ version[p] + 1 <= Code[p]
    BY <1>1, <1>3, Shape
  <2>2. Migrating(p, version[p] + 1)
    BY <1>3 DEF GoOn
  <2> QED
    BY <2>1, <2>2, MigratingType DEF Migrating
<1> QED
  BY <1>2, <1>3

LEMMA NextTypeInv == TypeInv /\ [Next]_vars => TypeInv'
<1> SUFFICES ASSUME TypeInv, [Next]_vars PROVE TypeInv'
  OBVIOUS
<1>1. ASSUME NEW p \in Processes, Connect(p) PROVE TypeInv'
  <2>1. starts[p] + 1 \in 0..MaxStarts
    BY <1>1, CodeAssumption DEF Connect, TypeInv, TypeOK
  <2> QED
    BY <1>1, <2>1, LockSteps DEF Connect, TypeInv, TypeOK, Progress
<1>2. ASSUME NEW p \in Processes, ReadVersion(p) PROVE TypeInv'
  <2>1. lock' \in Locks
    BY <1>2, LockSteps DEF ReadVersion, TypeInv, TypeOK
  <2>2. recorded \in 0..4 /\ Code[p] \in 1..4 /\ Versions = 1..4
    BY Shape, CodeType DEF TypeInv, TypeOK
  <2>3. CASE recorded < Code[p]
    <3>1. recorded + 1 \in Versions /\ recorded + 1 <= Code[p]
      BY <2>2, <2>3
    <3>2. Migrating(p, recorded + 1)
      BY <1>2, <2>2, <2>3 DEF ReadVersion
    <3> QED
      BY <1>2, <2>1, <3>1, <3>2, MigratingType
      DEF ReadVersion, Migrating, TypeInv, TypeOK
  <2>4. CASE recorded >= Code[p]
    <3>1. /\ pc' = [pc EXCEPT ![p] = "refused"] \/ pc' = [pc EXCEPT ![p] = "ready"]
          /\ UNCHANGED <<version, step>>
      BY <1>2, <2>2, <2>4 DEF ReadVersion
    <3> QED
      BY <1>2, <2>1, <3>1 DEF ReadVersion, TypeInv, TypeOK, Progress
  <2> QED
    BY <2>2, <2>3, <2>4
<1>3. ASSUME NEW p \in Processes, ExecuteStatement(p) PROVE TypeInv'
  <2>1. version[p] \in Versions /\ step[p] \in 1..Len(Statements(version[p]))
    BY <1>3, ScriptLength DEF ExecuteStatement, NextStatement, TypeInv, TypeOK
  <2>2. step[p] + 1 \in 1..5 /\ step[p] + 1 <= Len(Statements(version[p])) + 1
    <3>1. PICK n \in 1..4 : n = Len(Statements(version[p]))
      BY <2>1, ScriptLength
    <3>2. PICK k \in 1..n : k = step[p]
      BY <2>1, <3>1
    <3>3. k + 1 \in 1..5 /\ k + 1 <= n + 1
      BY <3>2
    <3> QED
      BY <3>1, <3>2, <3>3
  <2>3. schema' \subseteq Objects
    BY <1>3, <2>1, ApplyType DEF ExecuteStatement, TypeInv, TypeOK
  <2>4. lock' \in Locks
    BY <1>3, LockSteps DEF ExecuteStatement, TypeInv, TypeOK
  <2> QED
    BY <1>3, <2>2, <2>3, <2>4 DEF ExecuteStatement, NextStatement, TypeInv, TypeOK, Progress
<1>4. ASSUME NEW p \in Processes, DrainReaders(p) PROVE TypeInv'
  BY <1>4, LockSteps DEF DrainReaders, TypeInv, TypeOK, Progress
<1>5. ASSUME NEW p \in Processes, CommitMigration(p) PROVE TypeInv'
  <2>1. version[p] \in Versions /\ version[p] \in 0..Len(MIGRATIONS)
    BY Shape DEF TypeInv, TypeOK
  <2>2. schema' \subseteq Objects
    BY <1>5, <2>1, AfterType DEF CommitMigration, Committed, TypeInv, TypeOK
  <2>3. lock' \in Locks
    BY <1>5, LockSteps DEF CommitMigration, Committed, TypeInv, TypeOK
  <2>4. pc[p] = "migrating" /\ GoOn(p)
    BY <1>5 DEF CommitMigration, AtCommit
  <2> QED
    BY <1>5, <2>1, <2>2, <2>3, <2>4, GoOnType DEF CommitMigration, TypeInv, TypeOK
<1>6. ASSUME NEW p \in Processes, Fail(p) PROVE TypeInv'
  <2>1. version[p] \in 0..Len(MIGRATIONS)
    BY Shape DEF TypeInv, TypeOK
  <2> QED
    BY <1>6, <2>1, LockSteps DEF Fail, TypeInv, TypeOK, Progress
<1>7. ASSUME NEW p \in Processes, Close(p) PROVE TypeInv'
  BY <1>7, LockSteps DEF Close, TypeInv, TypeOK, Progress
<1>8. CASE UNCHANGED vars
  BY <1>8 DEF vars, TypeInv, TypeOK, Progress
<1> QED
  BY <1>1, <1>2, <1>3, <1>4, <1>5, <1>6, <1>7, <1>8 DEF Next

LEMMA TypeInvariance == Spec => []TypeInv
<1>1. Init => TypeInv
  <2>1. 1 \in Versions /\ 0 \in 0..Len(MIGRATIONS) /\ 0 \in 0..MaxStarts
    BY Shape, CodeAssumption
  <2> QED
    BY <2>1 DEF Init, TypeInv, TypeOK, Progress, Locks
<1> QED
  BY <1>1, NextTypeInv, PTL DEF Spec

\* Versions, statements and locks are always ones there are: no migrator runs
\* past the end of a migration, or of the list.
THEOREM TypeCorrect == Spec => []TypeOK
BY TypeInvariance, PTL DEF TypeInv

----------------------------------------------------------------------------
(* What a migration makes and drops *)

Creates(v) == {o \in Objects : \E i \in 1..Len(Statements(v)) : Statements(v)[i] = Create(o)}
Drops(v) == {o \in Objects : \E i \in 1..Len(Statements(v)) : Statements(v)[i] = Drop(o)}

\* A statement is either a creation or a removal, of one object.
LEMMA StatementsDiffer ==
    \A o, q : Create(o) # Drop(q) /\ (Create(o) = Create(q) => o = q)
                                  /\ (Drop(o) = Drop(q) => o = q)
<1>1. \A o : Create(o).op = "create" /\ Drop(o).op = "drop"
          /\ Create(o).object = o /\ Drop(o).object = o
  BY DEF Create, Drop
<1> QED
  BY <1>1

\* Only the last migration drops anything, and it creates nothing.
LEMMA OneKind ==
    ASSUME NEW v \in Versions
    PROVE  IF v = 4 THEN Creates(v) = {} ELSE Drops(v) = {}
<1>1. v \in {1, 2, 3, 4}
  BY Shape
<1>2. CASE v = 1
  <2>1. \A i \in 1..4 : Statements(1)[i] \in {Create("snapshots"),
            Create("idx_snap_game_ts"), Create("idx_snap_ts"), Create("meta")}
    BY Scripts
  <2> QED
    BY <1>2, <2>1, Shape, StatementsDiffer DEF Drops
<1>3. CASE v = 2
  <2>1. \A i \in 1..2 : Statements(2)[i] \in {Create("steam_games"),
            Create("idx_steam_twitch_game")}
    BY Scripts
  <2> QED
    BY <1>3, <2>1, Shape, StatementsDiffer DEF Drops
<1>4. CASE v = 3
  <2>1. \A i \in 1..Len(Statements(3)) : i = 1
    <3>1. \A i \in 1..1 : i = 1
      OBVIOUS
    <3> QED
      BY <3>1, Shape, Zenon
  <2> QED
    BY <1>4, <2>1, Scripts, StatementsDiffer DEF Drops
<1>5. CASE v = 4
  <2>1. \A i \in 1..Len(Statements(4)) : i = 1
    <3>1. \A i \in 1..1 : i = 1
      OBVIOUS
    <3> QED
      BY <3>1, Shape, Zenon
  <2> QED
    BY <1>5, <2>1, Scripts, StatementsDiffer DEF Creates
<1> QED
  BY <1>1, <1>2, <1>3, <1>4, <1>5

\* The sets the properties speak of grow by one migration at a time.
LEMMA OneMore ==
    ASSUME NEW v \in Versions
    PROVE  /\ Created(v) = Created(v - 1) \cup Creates(v)
           /\ Dropped(v) = Dropped(v - 1) \cup Drops(v)
<1>1. /\ v \in 1..4
      /\ \A w : w \in 1..v <=> w \in 1..(v - 1) \/ w = v
  BY Shape
<1>2. \A i : i \in 1..Len(Statements(v)) <=> i \in 1..4 /\ i <= Len(Statements(v))
  <2>1. PICK n \in 1..4 : n = Len(Statements(v))
    BY ScriptLength
  <2>2. \A i : i \in 1..n <=> i \in 1..4 /\ i <= n
    BY <2>1
  <2> QED
    BY <2>1, <2>2
<1> QED
  BY <1>1, <1>2 DEF Created, Dropped, Creates, Drops

LEMMA NoneYet == Created(0) = {} /\ Dropped(0) = {}
BY DEF Created, Dropped

\* Nothing is dropped before the last migration.
LEMMA DroppedLast ==
    /\ \A v \in 0..3 : Dropped(v) = {}
    /\ Dropped(4) = Drops(4)
<1>1. 1 \in Versions /\ 2 \in Versions /\ 3 \in Versions /\ 4 \in Versions
  BY Shape
<1>2. Dropped(1) = {}
  BY <1>1, NoneYet, OneMore, OneKind
<1>3. Dropped(2) = {}
  BY <1>1, <1>2, OneMore, OneKind
<1>4. Dropped(3) = {}
  BY <1>1, <1>3, OneMore, OneKind
<1>5. Dropped(4) = Drops(4)
  <2>1. Dropped(4) = Dropped(4 - 1) \cup Drops(4)
    BY <1>1, OneMore
  <2>2. 4 - 1 = 3
    OBVIOUS
  <2> QED
    BY <1>4, <2>1, <2>2
<1>6. \A v \in 0..3 : v \in {0, 1, 2, 3}
  OBVIOUS
<1> QED
  BY <1>2, <1>3, <1>4, <1>5, <1>6, NoneYet

\* A schema that is final for one version becomes final for the next.
LEMMA FinalNext ==
    ASSUME NEW v \in Versions
    PROVE  FinalSchema(v) = (FinalSchema(v - 1) \cup Creates(v)) \ Drops(v)
<1>1. v - 1 \in 0..3 /\ (v # 4 => v \in 0..3)
  BY Shape
<1>2. CASE v = 4
  BY <1>1, <1>2, DroppedLast, OneMore, OneKind DEF FinalSchema
<1>3. CASE v # 4
  BY <1>1, <1>3, DroppedLast, OneMore, OneKind DEF FinalSchema
<1> QED
  BY <1>2, <1>3

\* What lasts is never dropped.
LEMMA LastingStays ==
    ASSUME NEW v \in Versions
    PROVE  Lasting \cap Drops(v) = {}
<1>1. v \in 1..4
  BY Shape
<1>2. CASE v = 4
  BY <1>2, Shape, DroppedLast DEF Lasting
<1>3. CASE v # 4
  BY <1>3, OneKind
<1> QED
  BY <1>2, <1>3

LEMMA AfterMigration ==
    ASSUME NEW v \in Versions
    PROVE  After(v) = (schema \cup Creates(v)) \ Drops(v)
<1> DEFINE N == 1..Len(Statements(v))
<1>1. \A i \in N : Statements(v)[i].object \in Objects
  BY DEF Objects
<1>2. \A i \in N : \/ /\ Statements(v)[i].op = "create"
                      /\ Statements(v)[i] = Create(Statements(v)[i].object)
                   \/ /\ Statements(v)[i].op = "drop"
                      /\ Statements(v)[i] = Drop(Statements(v)[i].object)
  BY StatementForm DEF Create, Drop
<1>3. {s.object : s \in {Statements(v)[i] : i \in {j \in N : Statements(v)[j].op = "create"}}}
          = Creates(v)
  BY <1>1, <1>2 DEF Creates, Create
<1>4. {s.object : s \in {Statements(v)[i] : i \in {j \in N : Statements(v)[j].op = "drop"}}}
          = Drops(v)
  BY <1>1, <1>2 DEF Drops, Drop
<1> QED
  BY <1>3, <1>4 DEF After

\* One statement: its object appears or goes, nothing else changes.
LEMMA OneStatement ==
    ASSUME NEW v \in Versions, NEW i \in 1..Len(Statements(v))
    PROVE  \E o \in Objects :
              \/ /\ Statements(v)[i] = Create(o) /\ o \in Creates(v)
                 /\ Apply(Statements(v)[i]) = schema \cup {o}
              \/ /\ Statements(v)[i] = Drop(o) /\ o \in Drops(v)
                 /\ Apply(Statements(v)[i]) = schema \ {o}
<1>1. PICK o \in Objects : Statements(v)[i] \in {Create(o), Drop(o)}
  BY StatementForm
<1>2. CASE Statements(v)[i] = Create(o)
  BY <1>2 DEF Creates, Apply, Create
<1>3. CASE Statements(v)[i] = Drop(o)
  BY <1>3 DEF Drops, Apply, Drop
<1> QED
  BY <1>1, <1>2, <1>3

----------------------------------------------------------------------------
(* The recorded version and the tables in use *)

Needed(v) == Created(v) \cap Lasting

\* What the first statements of a migration have made, up to the k-th.
Made(v, k) == {o \in Lasting : \E i \in 1..Len(Statements(v)) :
                  i < k /\ Statements(v)[i] = Create(o)}

\* On Turso the statements executed so far are visible, on SQLite they are not.
Halfway ==
    \A p \in Processes : pc[p] = "migrating" =>
        /\ Needed(version[p] - 1) \subseteq schema
        /\ ~Local => Made(version[p], step[p]) \subseteq schema

TablesInv == RecordedMeansApplied /\ ReadyMeansUsable /\ Halfway

LEMMA NeededNext ==
    ASSUME NEW v \in Versions
    PROVE  Needed(v) \subseteq Needed(v - 1) \cup (Creates(v) \cap Lasting)
BY OneMore DEF Needed

LEMMA MadeNone == \A v : Made(v, 1) = {}
BY DEF Made

LEMMA MadeAll ==
    ASSUME NEW v \in Versions
    PROVE  Made(v, Len(Statements(v)) + 1) = Creates(v) \cap Lasting
<1>1. PICK n \in 1..4 : n = Len(Statements(v))
  BY ScriptLength
<1>2. \A i \in 1..n : i < n + 1
  BY <1>1
<1>3. Lasting \subseteq Objects
  BY DEF Lasting
<1> QED
  BY <1>1, <1>2, <1>3 DEF Made, Creates

\* The statement at i takes nothing that lasts away, and makes its object.
LEMMA MadeNext ==
    ASSUME NEW v \in Versions, NEW i \in 1..Len(Statements(v)), NEW S,
           S \subseteq Lasting, S \subseteq schema
    PROVE  /\ S \subseteq Apply(Statements(v)[i])
           /\ Made(v, i) \subseteq schema => Made(v, i + 1) \subseteq Apply(Statements(v)[i])
<1>1. PICK o \in Objects :
          \/ /\ Statements(v)[i] = Create(o) /\ o \in Creates(v)
             /\ Apply(Statements(v)[i]) = schema \cup {o}
          \/ /\ Statements(v)[i] = Drop(o) /\ o \in Drops(v)
             /\ Apply(Statements(v)[i]) = schema \ {o}
  BY OneStatement
<1>2. schema \cap Lasting \subseteq Apply(Statements(v)[i])
  BY <1>1, LastingStays
<1>3. Made(v, i + 1) \subseteq Made(v, i) \cup {q \in Lasting : Statements(v)[i] = Create(q)}
  <2>1. \A j \in 1..Len(Statements(v)) : j < i + 1 => j < i \/ j = i
    OBVIOUS
  <2> QED
    BY <2>1 DEF Made
<1>4. \A q \in Lasting : Statements(v)[i] = Create(q) => q \in Apply(Statements(v)[i])
  BY <1>1, StatementsDiffer
<1>5. Made(v, i) \subseteq Lasting
  BY DEF Made
<1> QED
  BY <1>2, <1>3, <1>4, <1>5

\* A process that is done with a migration has everything up to it.
LEMMA MigrationDone ==
    ASSUME TypeInv, TablesInv, NEW p \in Processes, AtCommit(p)
    PROVE  /\ Local => Needed(version[p]) \subseteq After(version[p])
           /\ ~Local => Needed(version[p]) \subseteq schema
<1>1. version[p] \in Versions /\ pc[p] = "migrating"
      /\ step[p] = Len(Statements(version[p])) + 1
  BY DEF AtCommit, TypeInv, TypeOK
<1>2. Needed(version[p] - 1) \subseteq schema
  BY <1>1 DEF TablesInv, Halfway
<1>3. CASE Local
  BY <1>1, <1>2, <1>3, NeededNext, AfterMigration, LastingStays DEF Needed
<1>4. CASE ~Local
  <2>1. Made(version[p], step[p]) \subseteq schema
    BY <1>1, <1>4 DEF TablesInv, Halfway
  <2>2. Made(version[p], step[p]) = Creates(version[p]) \cap Lasting
    BY <1>1, MadeAll
  <2> QED
    BY <1>1, <1>2, <1>4, <2>1, <2>2, NeededNext
<1> QED
  BY <1>3, <1>4

\* No step takes a lasting object away.
LEMMA LastingKept ==
    ASSUME TypeInv, [Next]_vars
    PROVE  schema \cap Lasting \subseteq schema'
<1>1. ASSUME NEW p \in Processes, ExecuteStatement(p)
      PROVE  schema \cap Lasting \subseteq schema'
  <2>1. version[p] \in Versions /\ step[p] \in 1..Len(Statements(version[p]))
    BY <1>1, ScriptLength DEF ExecuteStatement, NextStatement, TypeInv, TypeOK
  <2>2. schema \cap Lasting \subseteq Apply(Statements(version[p])[step[p]])
    BY <2>1, MadeNext
  <2> QED
    BY <1>1, <2>2 DEF ExecuteStatement
<1>2. ASSUME NEW p \in Processes, CommitMigration(p)
      PROVE  schema \cap Lasting \subseteq schema'
  <2>1. version[p] \in Versions
    BY DEF TypeInv, TypeOK
  <2> QED
    BY <1>2, <2>1, AfterMigration, LastingStays DEF CommitMigration, Committed
<1> QED
  BY <1>1, <1>2 DEF Next, vars, Connect, ReadVersion, DrainReaders, Fail, Close

LEMMA TablesStep ==
    ASSUME TypeInv, TablesInv, [Next]_vars
    PROVE  TablesInv'
<1> DEFINE Kept(q) == /\ pc'[q] = "ready" => Needed(Code[q]) \subseteq schema'
                      /\ pc'[q] = "migrating" =>
                            /\ Needed(version'[q] - 1) \subseteq schema'
                            /\ ~Local => Made(version'[q], step'[q]) \subseteq schema'
<1>1. /\ schema \cap Lasting \subseteq schema'
      /\ \A v : Needed(v) \subseteq Lasting
      /\ \A v, k : Made(v, k) \subseteq Lasting
  BY LastingKept DEF Needed, Made
<1>2. Local' = Local
  BY DEF Next, vars, Connect, ReadVersion, ExecuteStatement, NextStatement, DrainReaders,
         CommitMigration, Fail, Close, Local
<1>3. ASSUME NEW q \in Processes, pc'[q] = pc[q], version'[q] = version[q], step'[q] = step[q]
      PROVE  Kept(q)
  BY <1>1, <1>3 DEF TablesInv, ReadyMeansUsable, Halfway, Needed
<1>4. ASSUME NEW p \in Processes, NEW v \in Versions, Migrating(p, v),
             Needed(v - 1) \subseteq schema'
      PROVE  Kept(p)
  BY <1>4, MadeNone DEF Migrating, TypeInv, TypeOK
<1>5. Needed(recorded) \subseteq schema
  BY DEF TablesInv, RecordedMeansApplied, Needed
<1>6. ASSUME \A q \in Processes : Kept(q), Needed(recorded') \subseteq schema'
      PROVE  TablesInv'
  BY <1>2, <1>6 DEF TablesInv, RecordedMeansApplied, ReadyMeansUsable, Halfway, Needed
<1> DEFINE Steady == /\ UNCHANGED <<version, step>>
                     /\ \A q \in Processes : pc'[q] # pc[q] =>
                            pc'[q] \notin {"ready", "migrating"}
<1>7. Steady => \A q \in Processes : Kept(q)
  <2> SUFFICES ASSUME Steady, NEW q \in Processes PROVE Kept(q)
    OBVIOUS
  <2>1. CASE pc'[q] = pc[q]
    BY <1>3, <2>1
  <2>2. CASE pc'[q] # pc[q]
    BY <2>2
  <2> QED
    BY <2>1, <2>2
<1> HIDE DEF Kept, Steady
<1>8. ASSUME NEW p \in Processes, Connect(p) PROVE TablesInv'
  <2>1. Steady
    BY <1>8 DEF Steady, Connect, TypeInv, TypeOK
  <2> QED
    BY <1>5, <1>6, <1>7, <1>8, <2>1 DEF Connect
<1>9. ASSUME NEW p \in Processes, ReadVersion(p) PROVE TablesInv'
  <2>1. recorded \in 0..4 /\ Code[p] \in 1..4 /\ Versions = 1..4
    BY Shape, CodeType DEF TypeInv, TypeOK
  <2>2. Needed(recorded') \subseteq schema'
    BY <1>5, <1>9 DEF ReadVersion
  <2>3. \A q \in Processes \ {p} : Kept(q)
    BY <1>3, <1>9 DEF ReadVersion, Migrating, TypeInv, TypeOK
  <2>4. CASE recorded < Code[p]
    <3>1. recorded + 1 \in Versions /\ (recorded + 1) - 1 = recorded
      BY <2>1, <2>4
    <3>2. Migrating(p, recorded + 1)
      BY <1>9, <2>1, <2>4 DEF ReadVersion
    <3>3. Needed((recorded + 1) - 1) \subseteq schema'
      BY <1>5, <1>9, <3>1 DEF ReadVersion
    <3>4. Kept(p)
      BY <1>4, <3>1, <3>2, <3>3
    <3> QED
      BY <1>6, <2>2, <2>3, <3>4
  <2>5. CASE recorded = Code[p]
    <3>1. pc'[p] = "ready"
      BY <1>9, <2>1, <2>5 DEF ReadVersion, TypeInv, TypeOK
    <3>2. Kept(p)
      BY <1>5, <1>9, <2>5, <3>1 DEF Kept, ReadVersion
    <3> QED
      BY <1>6, <2>2, <2>3, <3>2
  <2>6. CASE recorded > Code[p]
    <3>1. pc'[p] = "refused"
      BY <1>9, <2>1, <2>6 DEF ReadVersion, TypeInv, TypeOK
    <3>2. Kept(p)
      BY <3>1 DEF Kept
    <3> QED
      BY <1>6, <2>2, <2>3, <3>2
  <2> QED
    BY <2>1, <2>4, <2>5, <2>6
<1>10. ASSUME NEW p \in Processes, ExecuteStatement(p) PROVE TablesInv'
  <2>1. /\ pc[p] = "migrating" /\ version[p] \in Versions
        /\ step[p] \in 1..Len(Statements(version[p]))
    BY <1>10, ScriptLength DEF ExecuteStatement, NextStatement, TypeInv, TypeOK
  <2>2. /\ pc' = pc /\ version' = version /\ recorded' = recorded
        /\ step' = [step EXCEPT ![p] = @ + 1]
    BY <1>10 DEF ExecuteStatement, NextStatement
  <2>3. \A q \in Processes \ {p} : Kept(q)
    BY <1>3, <2>2 DEF TypeInv, TypeOK
  <2>4. Needed(version[p] - 1) \subseteq schema'
    BY <1>1, <2>1 DEF TablesInv, Halfway
  <2>5. ASSUME ~Local PROVE Made(version[p], step[p] + 1) \subseteq schema'
    <3>1. Made(version[p], step[p]) \subseteq schema
      BY <2>1, <2>5 DEF TablesInv, Halfway
    <3>2. Made(version[p], step[p] + 1) \subseteq Apply(Statements(version[p])[step[p]])
      BY <2>1, <3>1, MadeNext
    <3> QED
      BY <1>10, <2>5, <3>2 DEF ExecuteStatement
  <2>6. step'[p] = step[p] + 1
    BY <2>2 DEF TypeInv, TypeOK
  <2>7. Kept(p)
    BY <2>1, <2>2, <2>4, <2>5, <2>6 DEF Kept
  <2> QED
    BY <1>1, <1>5, <1>6, <2>2, <2>3, <2>7
<1>11. ASSUME NEW p \in Processes, DrainReaders(p) PROVE TablesInv'
  <2>1. Steady
    BY <1>11 DEF Steady, DrainReaders
  <2> QED
    BY <1>5, <1>6, <1>7, <1>11, <2>1 DEF DrainReaders
<1>12. ASSUME NEW p \in Processes, CommitMigration(p) PROVE TablesInv'
  <2>1. AtCommit(p) /\ Committed(p) /\ recorded' = version[p] /\ GoOn(p)
    BY <1>12 DEF CommitMigration
  <2>2. /\ pc[p] = "migrating" /\ version[p] \in Versions /\ version[p] <= Code[p]
        /\ Code[p] \in Versions
    BY <2>1, CodeType DEF AtCommit, TypeInv, TypeOK, Progress
  <2>3. Needed(version[p]) \subseteq schema'
    BY <2>1, MigrationDone DEF Committed
  <2>4. \A q \in Processes \ {p} : Kept(q)
    BY <1>3, <2>1 DEF GoOn, Migrating, TypeInv, TypeOK
  <2>5. CASE version[p] = Code[p]
    <3>1. pc'[p] = "ready"
      BY <2>1, <2>5 DEF GoOn, TypeInv, TypeOK
    <3>2. Kept(p)
      BY <2>3, <2>5, <3>1 DEF Kept
    <3> QED
      BY <1>6, <2>1, <2>3, <2>4, <3>2
  <2>6. CASE version[p] # Code[p]
    <3>1. version[p] + 1 \in Versions /\ (version[p] + 1) - 1 = version[p]
      BY <2>2, <2>6, Shape
    <3>2. Migrating(p, version[p] + 1)
      BY <2>1, <2>6 DEF GoOn
    <3>3. Kept(p)
      BY <1>4, <2>3, <3>1, <3>2
    <3> QED
      BY <1>6, <2>1, <2>3, <2>4, <3>3
  <2> QED
    BY <2>5, <2>6
<1>13. ASSUME NEW p \in Processes, Fail(p) PROVE TablesInv'
  <2>1. Steady
    BY <1>13 DEF Steady, Fail, TypeInv, TypeOK
  <2>2. schema' = schema
    BY <1>13 DEF Fail
  <2>3. CASE recorded' = recorded
    BY <1>5, <1>6, <1>7, <2>1, <2>2, <2>3
  <2>4. CASE ~Local /\ AtCommit(p) /\ recorded' = version[p]
    <3>1. Needed(recorded') \subseteq schema'
      BY <2>2, <2>4, MigrationDone
    <3> QED
      BY <1>6, <1>7, <2>1, <3>1
  <2> QED
    BY <1>13, <2>3, <2>4 DEF Fail
<1>14. ASSUME NEW p \in Processes, Close(p) PROVE TablesInv'
  <2>1. Steady
    BY <1>14 DEF Steady, Close, TypeInv, TypeOK
  <2> QED
    BY <1>5, <1>6, <1>7, <1>14, <2>1 DEF Close
<1>15. CASE UNCHANGED vars
  <2>1. Steady
    BY <1>15 DEF Steady, vars
  <2> QED
    BY <1>5, <1>6, <1>7, <1>15, <2>1 DEF vars
<1> QED
  BY <1>8, <1>9, <1>10, <1>11, <1>12, <1>13, <1>14, <1>15 DEF Next

LEMMA TablesInvariance == Spec => []TablesInv
<1>1. Init => TablesInv
  BY NoneYet DEF Init, TablesInv, RecordedMeansApplied, ReadyMeansUsable, Halfway
<1> QED
  BY <1>1, TypeInvariance, TablesStep, PTL DEF Spec

\* The recorded version never runs ahead of the schema, with any number of
\* migrators, of any releases, failing and starting again at any statement.
THEOREM VersionIsBacked == Spec => []RecordedMeansApplied
BY TablesInvariance, PTL DEF TablesInv

\* Whoever got a connection has the tables its code uses, for as long as it is
\* connected.
THEOREM ConnectionsAreUsable == Spec => []ReadyMeansUsable
BY TablesInvariance, PTL DEF TablesInv

----------------------------------------------------------------------------
(* The open transaction of a process that had nothing to migrate *)

\* A process begins without a lock and is left with none by its own commit: the
\* lock of a connected one is the shared lock of the read of its own version.
LockOf(p) ==
    /\ pc[p] = "connecting" => lock[p] = "none"
    /\ pc[p] = "ready" => \/ lock[p] = "none"
                          \/ lock[p] = "shared" /\ recorded = Code[p]

LocksInv == Local => \A p \in Processes : LockOf(p)

\* The steps of the others, and those of a process that leave its lock alone.
LEMMA LockKept ==
    ASSUME NEW p \in Processes, LockOf(p), pc'[p] = pc[p], lock'[p] = lock[p],
           recorded' = recorded \/ lock[p] # "shared"
    PROVE  LockOf(p)'
BY DEF LockOf

LEMMA LocksStep ==
    ASSUME TypeInv, LocksInv, [Next]_vars
    PROVE  LocksInv'
<1>1. Local' = Local
  BY DEF Next, vars, Connect, ReadVersion, ExecuteStatement, NextStatement, DrainReaders,
         CommitMigration, Fail, Close, Local
<1> SUFFICES ASSUME Local, NEW q \in Processes PROVE LockOf(q)'
  BY <1>1 DEF LocksInv
<1>2. LockOf(q)
  BY DEF LocksInv
<1>3. ASSUME NEW p \in Processes, p # q,
             \/ Connect(p) \/ ReadVersion(p) \/ ExecuteStatement(p)
             \/ DrainReaders(p) \/ CommitMigration(p) \/ Fail(p) \/ Close(p)
      PROVE  LockOf(q)'
  <2>1. pc'[q] = pc[q]
    BY <1>3 DEF Connect, ReadVersion, ExecuteStatement, NextStatement, DrainReaders,
       CommitMigration, GoOn, Migrating, Fail, Close, TypeInv, TypeOK
  <2>2. lock'[q] = lock[q]
    BY <1>3 DEF Connect, ReadVersion, ExecuteStatement, DrainReaders, CommitMigration,
       Committed, Fail, Close, Select, Write, BeginCommit, Release, Hold, TypeInv, TypeOK, Locks
  <2>3. recorded' = recorded \/ lock[q] # "shared"
    <3>1. CASE CommitMigration(p)
      BY <1>3, <3>1 DEF CommitMigration, Committed, MayCommit, OthersHold
    <3>2. CASE ~CommitMigration(p)
      BY <1>3, <3>2 DEF Connect, ReadVersion, ExecuteStatement, NextStatement,
         DrainReaders, Fail, Close
    <3> QED
      BY <3>1, <3>2
  <2> QED
    BY <1>2, <2>1, <2>2, <2>3, LockKept
<1>4. CASE Connect(q)
  BY <1>4 DEF Connect, Release, Hold, LockOf, TypeInv, TypeOK, Locks
<1>5. CASE ReadVersion(q)
  <2>1. pc[q] = "connecting" /\ lock[q] = "none" /\ recorded' = recorded
    BY <1>2, <1>5 DEF ReadVersion, LockOf
  <2>2. recorded \in 0..4 /\ Code[q] \in 1..4
    BY Shape, CodeType DEF TypeInv, TypeOK
  <2>3. CASE recorded = Code[q]
    <3>1. lock'[q] = "shared"
      BY <1>5, <2>1, <2>2, <2>3 DEF ReadVersion, Select, Hold, TypeInv, TypeOK, Locks
    <3> QED
      BY <1>5, <2>1, <2>2, <2>3, <3>1 DEF ReadVersion, LockOf, TypeInv, TypeOK
  <2>4. CASE recorded # Code[q]
    <3>1. pc'[q] \in {"refused", "migrating"}
      BY <1>5, <2>2, <2>4 DEF ReadVersion, Migrating, TypeInv, TypeOK
    <3> QED
      BY <3>1 DEF LockOf
  <2> QED
    BY <2>3, <2>4
<1>6. CASE ExecuteStatement(q) \/ DrainReaders(q)
  BY <1>6 DEF ExecuteStatement, NextStatement, DrainReaders, AtCommit, LockOf
<1>7. CASE CommitMigration(q)
  <2>1. lock'[q] = "none"
    BY <1>7 DEF CommitMigration, Committed, Release, Hold, TypeInv, TypeOK, Locks
  <2> QED
    BY <2>1 DEF LockOf
<1>8. CASE Fail(q)
  BY <1>8 DEF Fail, LockOf, TypeInv, TypeOK
<1>9. CASE Close(q)
  BY <1>9 DEF Close, LockOf, TypeInv, TypeOK
<1>10. CASE UNCHANGED vars
  BY <1>2, <1>10, LockKept DEF vars
<1> QED
  BY <1>3, <1>4, <1>5, <1>6, <1>7, <1>8, <1>9, <1>10 DEF Next

\* Nobody commits a migration under a local process that is connected by the
\* read of its own version, whatever the releases that meet.
THEOREM VersionIsHeld == Spec => []OwnVersionHeld
<1>1. Init => LocksInv
  BY DEF Init, LocksInv, LockOf
<1>2. LocksInv => OwnVersionHeld
  BY DEF LocksInv, LockOf, OwnVersionHeld
<1> QED
  BY <1>1, <1>2, TypeInvariance, LocksStep, PTL DEF Spec

----------------------------------------------------------------------------
(* The exact schema *)

\* Every object is one that some migration creates, or the last one drops.
LEMMA LastingIsFinal == Lasting = FinalSchema(4)
<1>1. Dropped(4) = Dropped(Len(MIGRATIONS)) /\ 4 \in Versions
  BY Shape
<1>2. ASSUME NEW o \in Objects, o \notin Dropped(4) PROVE o \in Created(4)
  <2>0. PICK v \in Versions :
            \E j \in 1..Len(Statements(v)) : o = Statements(v)[j].object
    BY DEF Objects
  <2>1. PICK i \in 1..Len(Statements(v)) : o = Statements(v)[i].object
    BY <2>0
  <2>2. PICK q \in Objects : Statements(v)[i] \in {Create(q), Drop(q)}
    BY StatementForm
  <2>3. o = q
    BY <2>1, <2>2 DEF Create, Drop
  <2>4. v \in 1..4 /\ i \in 1..4 /\ i <= Len(Statements(v))
    <3>1. PICK n \in 1..4 : n = Len(Statements(v))
      BY ScriptLength
    <3> QED
      BY <3>1, Shape
  <2> QED
    BY <1>2, <2>2, <2>3, <2>4 DEF Created, Dropped
<1> QED
  BY <1>1, <1>2 DEF Lasting, FinalSchema, Created

LEMMA ExactStep ==
    ASSUME TypeInv, TablesInv, LocalSchemaIsExact, [Next]_vars
    PROVE  LocalSchemaIsExact'
<1> SUFFICES ASSUME Local, Local', recorded' = 4 PROVE schema' = FinalSchema(4)
  BY Shape DEF LocalSchemaIsExact, Local, Next, vars, Connect, ReadVersion,
     ExecuteStatement, NextStatement, DrainReaders, CommitMigration, Fail, Close
<1>1. ASSUME recorded' = recorded, schema' = schema
      PROVE  schema' = FinalSchema(4)
  BY <1>1, Shape DEF LocalSchemaIsExact
<1>2. ASSUME NEW p \in Processes, CommitMigration(p)
      PROVE  schema' = FinalSchema(4)
  <2>1. /\ AtCommit(p) /\ version[p] = 4 /\ version[p] \in Versions
        /\ schema' = After(version[p])
    BY <1>2 DEF CommitMigration, Committed, TypeInv, TypeOK
  <2>2. schema' \subseteq Objects \ Drops(4)
    BY <2>1, AfterMigration, OneKind DEF TypeInv, TypeOK
  <2>3. Needed(4) \subseteq schema'
    BY <2>1, MigrationDone
  <2>4. Needed(4) = Lasting /\ Lasting = Objects \ Drops(4)
    BY LastingIsFinal, DroppedLast, Shape DEF Needed, FinalSchema, Lasting
  <2> QED
    BY <2>2, <2>3, <2>4, LastingIsFinal
<1> QED
  BY <1>1, <1>2 DEF Next, vars, Connect, ReadVersion, ExecuteStatement, NextStatement,
     DrainReaders, Fail, Close

\* On local SQLite the newest version comes with exactly its schema: a
\* migration is one transaction, and the last one takes away all that does not
\* last.
THEOREM NewestLocalIsExact == Spec => []LocalSchemaIsExact
<1>1. Init => LocalSchemaIsExact
  BY Shape DEF Init, LocalSchemaIsExact
<1> QED
  BY <1>1, TypeInvariance, TablesInvariance, ExactStep, PTL DEF Spec

----------------------------------------------------------------------------
(* A process on its own *)

Alone(p) == \A q \in Processes \ {p} : starts[q] = 0

NotStarted == \A q \in Processes : starts[q] = 0 => pc[q] = "off"

\* Somewhere between one version and the next.
Between(v) ==
    /\ FinalSchema(v) \ Drops(v + 1) \subseteq schema
    /\ schema \subseteq FinalSchema(v) \cup Creates(v + 1)

\* The first statements have taken effect, and nobody undid one of them.
Ran(v, k) ==
    \A i \in 1..Len(Statements(v)), o \in Objects : i < k =>
        /\ Statements(v)[i] = Create(o) => o \in schema
        /\ Statements(v)[i] = Drop(o) => o \notin schema

Retried(p) ==
    /\ recorded <= Code[p]
    /\ recorded = Code[p] => schema = FinalSchema(recorded)
    /\ recorded < Code[p] => Between(recorded)
    /\ pc[p] = "ready" => recorded = Code[p]
    /\ pc[p] = "migrating" =>
          /\ recorded < Code[p] /\ version[p] = recorded + 1
          /\ ~Local => Ran(version[p], step[p])

RetryInv == NotStarted /\ \A p \in Processes : Alone(p) => Retried(p)

LEMMA ExactIsBetween ==
    ASSUME NEW v, schema = FinalSchema(v)
    PROVE  Between(v)
BY DEF Between

\* All statements of a migration make one final schema of the other.
LEMMA RanAll ==
    ASSUME NEW v \in Versions, Between(v - 1), Ran(v, Len(Statements(v)) + 1)
    PROVE  schema = FinalSchema(v)
<1>1. PICK n \in 1..4 : n = Len(Statements(v))
  BY ScriptLength
<1>2. \A i \in 1..n : i < n + 1
  BY <1>1
<1>3. Creates(v) \subseteq schema /\ Drops(v) \cap schema = {}
  BY <1>1, <1>2 DEF Ran, Creates, Drops
<1>4. (v - 1) + 1 = v
  BY Shape
<1> QED
  BY <1>3, <1>4, FinalNext, OneKind DEF Between

LEMMA AfterAll ==
    ASSUME NEW v \in Versions, Between(v - 1)
    PROVE  After(v) = FinalSchema(v)
<1>1. (v - 1) + 1 = v
  BY Shape
<1> QED
  BY <1>1, AfterMigration, FinalNext, OneKind DEF Between

LEMMA RanNext ==
    ASSUME NEW v \in Versions, NEW k \in 1..Len(Statements(v)), Ran(v, k), Between(v - 1),
           schema' = Apply(Statements(v)[k])
    PROVE  Ran(v, k + 1)' /\ Between(v - 1)'
<1>1. PICK o \in Objects :
          \/ /\ Statements(v)[k] = Create(o) /\ o \in Creates(v)
             /\ schema' = schema \cup {o}
          \/ /\ Statements(v)[k] = Drop(o) /\ o \in Drops(v)
             /\ schema' = schema \ {o}
  BY OneStatement
<1>2. (v - 1) + 1 = v
  BY Shape
<1>3. Between(v - 1)'
  BY <1>1, <1>2, OneKind DEF Between
<1>4. ASSUME NEW i \in 1..Len(Statements(v)), NEW q \in Objects, i < k + 1
      PROVE  /\ Statements(v)[i] = Create(q) => q \in schema'
             /\ Statements(v)[i] = Drop(q) => q \notin schema'
  <2>1. CASE i = k
    BY <1>1, <2>1, StatementsDiffer
  <2>2. CASE i < k
    <3>1. /\ Statements(v)[i] = Create(q) => q \in schema /\ q \in Creates(v)
          /\ Statements(v)[i] = Drop(q) => q \notin schema /\ q \in Drops(v)
      BY <2>2 DEF Ran, Creates, Drops
    <3> QED
      BY <1>1, <3>1, OneKind
  <2> QED
    BY <1>4, <2>1, <2>2
<1> QED
  BY <1>3, <1>4 DEF Ran

\* Nothing changes but where the process itself is.
LEMMA RetriedAside ==
    ASSUME NEW p \in Processes, Retried(p), UNCHANGED <<backend, schema, recorded, version>>,
           pc'[p] = "ready" => recorded = Code[p],
           pc'[p] = "migrating" => pc[p] = "migrating" /\ step'[p] = step[p]
    PROVE  Retried(p)'
BY DEF Retried, Between, Ran, Local

\* A migration begins.
LEMMA RetriedBegins ==
    ASSUME NEW p \in Processes, TypeInv, NEW v \in Versions,
           recorded' \in 0..4, v = recorded' + 1, recorded' < Code[p], Between(recorded)', Migrating(p, v)
    PROVE  Retried(p)'
<1>1. \A i \in 1..Len(Statements(v)) : ~(i < 1)
  OBVIOUS
<1>2. Ran(v, 1)'
  BY <1>1 DEF Ran
<1>3. recorded' <= Code[p] /\ recorded' # Code[p]
  BY CodeType, Shape
<1>4. pc'[p] = "migrating" /\ version'[p] = v /\ step'[p] = 1
  BY DEF Migrating, TypeInv, TypeOK
<1> QED
  BY <1>2, <1>3, <1>4 DEF Retried

\* The schema is that of the recorded version, and the process goes on or stops.
LEMMA RetriedCommits ==
    ASSUME NEW p \in Processes, TypeInv, pc[p] = "migrating",
           recorded' = version[p], schema' = FinalSchema(version[p]),
           GoOn(p) \/ (pc' = [pc EXCEPT ![p] = "failed"] /\ UNCHANGED <<version, step>>)
    PROVE  Retried(p)'
<1>1. /\ version[p] \in 1..4 /\ Code[p] \in 1..4 /\ version[p] <= Code[p]
      /\ Versions = 1..4
  BY Shape, CodeType DEF TypeInv, TypeOK, Progress
<1>2. Between(recorded)'
  BY DEF Between
<1>3. CASE pc' = [pc EXCEPT ![p] = "failed"] /\ UNCHANGED <<version, step>>
  BY <1>1, <1>2, <1>3 DEF Retried, TypeInv, TypeOK
<1>4. CASE GoOn(p) /\ version[p] = Code[p]
  <2>1. pc'[p] = "ready"
    BY <1>4 DEF GoOn, TypeInv, TypeOK
  <2> QED
    BY <1>1, <1>2, <1>4, <2>1 DEF Retried
<1>5. CASE GoOn(p) /\ version[p] # Code[p]
  <2>1. Migrating(p, version[p] + 1)
    BY <1>5 DEF GoOn
  <2>2. version[p] + 1 \in Versions /\ version[p] < Code[p]
    BY <1>1, <1>5
  <2> QED
    BY <1>1, <1>2, <2>1, <2>2, RetriedBegins
<1> QED
  BY <1>3, <1>4, <1>5

LEMMA RetriedStep ==
    ASSUME TypeInv, NEW p \in Processes, Retried(p),
           \/ Connect(p) \/ ReadVersion(p) \/ ExecuteStatement(p)
           \/ DrainReaders(p) \/ CommitMigration(p) \/ Fail(p) \/ Close(p)
    PROVE  Retried(p)'
<1>0. /\ recorded \in 0..4 /\ Code[p] \in 1..4 /\ Versions = 1..4
      /\ version[p] \in 1..4 /\ step[p] \in 1..5
  BY Shape, CodeType DEF TypeInv, TypeOK
<1>done. AtCommit(p) =>
             /\ Local => After(version[p]) = FinalSchema(version[p])
             /\ ~Local => schema = FinalSchema(version[p])
  <2> SUFFICES ASSUME AtCommit(p)
               PROVE  /\ Local => After(version[p]) = FinalSchema(version[p])
                      /\ ~Local => schema = FinalSchema(version[p])
    OBVIOUS
  <2>1. PICK v \in Versions : v = version[p]
    BY <1>0
  <2>2. v - 1 = recorded /\ Between(v - 1)
    BY <1>0, <2>1 DEF AtCommit, Retried
  <2>3. ~Local => Ran(v, Len(Statements(v)) + 1)
    BY <2>1 DEF AtCommit, Retried
  <2> QED
    BY <2>1, <2>2, <2>3, AfterAll, RanAll
<1>1. CASE Connect(p)
  <2>1. pc'[p] = "connecting"
    BY <1>1 DEF Connect, TypeInv, TypeOK
  <2> QED
    BY <1>1, <2>1, RetriedAside DEF Connect
<1>2. CASE ReadVersion(p)
  <2>1. CASE recorded < Code[p]
    <3>1. Migrating(p, recorded + 1) /\ recorded' = recorded /\ schema' = schema
      BY <1>0, <1>2, <2>1 DEF ReadVersion
    <3>2. recorded + 1 \in Versions
      BY <1>0, <2>1
    <3>3. Between(recorded)'
      BY <2>1, <3>1 DEF Retried, Between
    <3> QED
      BY <1>0, <2>1, <3>1, <3>2, <3>3, RetriedBegins
  <2>2. CASE recorded = Code[p]
    <3>1. pc'[p] = "ready" /\ UNCHANGED <<backend, schema, recorded, version>>
      BY <1>0, <1>2, <2>2 DEF ReadVersion, TypeInv, TypeOK
    <3> QED
      BY <2>2, <3>1, RetriedAside
  <2> QED
    BY <1>0, <2>1, <2>2 DEF Retried
<1>3. CASE ExecuteStatement(p)
  <2>1. /\ pc[p] = "migrating" /\ version[p] \in Versions
        /\ step[p] \in 1..Len(Statements(version[p]))
        /\ pc' = pc /\ version' = version /\ recorded' = recorded /\ Local' = Local
        /\ step'[p] = step[p] + 1
    BY <1>3, ScriptLength
    DEF ExecuteStatement, NextStatement, Local, TypeInv, TypeOK
  <2>2. recorded < Code[p] /\ version[p] = recorded + 1 /\ Between(recorded)
    BY <2>1 DEF Retried
  <2>3. recorded = version[p] - 1 /\ recorded # Code[p] /\ recorded <= Code[p]
    BY <1>0, <2>2
  <2>4. CASE Local
    <3>1. schema' = schema
      BY <1>3, <2>4 DEF ExecuteStatement
    <3> QED
      BY <2>1, <2>2, <2>3, <2>4, <3>1 DEF Retried, Between
  <2>5. CASE ~Local
    <3>1. schema' = Apply(Statements(version[p])[step[p]]) /\ Ran(version[p], step[p])
      BY <1>3, <2>1, <2>5 DEF ExecuteStatement, Retried
    <3>2. PICK v \in Versions : v = version[p]
      BY <2>1
    <3>3. PICK k \in 1..Len(Statements(v)) : k = step[p]
      BY <2>1, <3>2
    <3>4. Ran(v, k + 1)' /\ Between(v - 1)'
      BY <2>2, <2>3, <3>1, <3>2, <3>3, RanNext
    <3> QED
      BY <2>1, <2>2, <2>3, <3>2, <3>3, <3>4 DEF Retried
  <2> QED
    BY <2>4, <2>5
<1>4. CASE DrainReaders(p)
  BY <1>4, RetriedAside DEF DrainReaders, Retried
<1>5. CASE CommitMigration(p)
  <2>1. AtCommit(p) /\ Committed(p) /\ recorded' = version[p] /\ GoOn(p)
    BY <1>5 DEF CommitMigration
  <2>2. schema' = FinalSchema(version[p])
    BY <1>done, <2>1 DEF Committed
  <2> QED
    BY <2>1, <2>2, RetriedCommits DEF AtCommit
<1>6. CASE Fail(p)
  <2>1. pc' = [pc EXCEPT ![p] = "failed"] /\ pc'[p] = "failed"
    BY <1>6 DEF Fail, TypeInv, TypeOK
  <2>2. CASE recorded' = recorded
    BY <1>6, <2>1, <2>2, RetriedAside DEF Fail
  <2>3. CASE ~Local /\ AtCommit(p) /\ recorded' = version[p]
    <3>1. schema' = FinalSchema(version[p])
      BY <1>6, <1>done, <2>3 DEF Fail
    <3> QED
      BY <1>6, <2>1, <2>3, <3>1, RetriedCommits DEF Fail, AtCommit
  <2> QED
    BY <1>6, <2>2, <2>3 DEF Fail
<1>7. CASE Close(p)
  <2>1. pc'[p] = "off"
    BY <1>7 DEF Close, TypeInv, TypeOK
  <2> QED
    BY <1>7, <2>1, RetriedAside DEF Close
<1> QED
  BY <1>1, <1>2, <1>3, <1>4, <1>5, <1>6, <1>7

LEMMA RetryStep ==
    ASSUME TypeInv, RetryInv, [Next]_vars
    PROVE  RetryInv'
<1>1. NotStarted'
  <2>1. ASSUME NEW p \in Processes, Connect(p) PROVE NotStarted'
    <3>1. starts'[p] # 0 /\ \A q \in Processes \ {p} : starts'[q] = starts[q] /\ pc'[q] = pc[q]
      BY <2>1 DEF Connect, TypeInv, TypeOK
    <3> QED
      BY <3>1 DEF RetryInv, NotStarted
  <2>2. ASSUME NEW p \in Processes, starts[p] = 0
        PROVE  ~(ReadVersion(p) \/ ExecuteStatement(p) \/ DrainReaders(p)
                 \/ CommitMigration(p) \/ Fail(p) \/ Close(p))
    BY <2>2 DEF RetryInv, NotStarted, ReadVersion, ExecuteStatement, NextStatement,
                DrainReaders, CommitMigration, AtCommit, Fail, Close
  <2>3. ASSUME NEW p \in Processes,
               \/ ReadVersion(p) \/ ExecuteStatement(p) \/ DrainReaders(p)
               \/ CommitMigration(p) \/ Fail(p) \/ Close(p)
        PROVE  NotStarted'
    <3>1. starts[p] # 0 /\ starts' = starts /\ \A q \in Processes \ {p} : pc'[q] = pc[q]
      BY <2>2, <2>3 DEF ReadVersion, ExecuteStatement, NextStatement, DrainReaders,
         CommitMigration, GoOn, Migrating, Fail, Close, TypeInv, TypeOK
    <3> QED
      BY <3>1 DEF RetryInv, NotStarted
  <2> QED
    BY <2>1, <2>3 DEF Next, vars, RetryInv, NotStarted
<1>2. ASSUME NEW p \in Processes, Alone(p)' PROVE Retried(p)'
  <2>1. ASSUME NEW q \in Processes, Connect(q), q # p PROVE FALSE
    <3>1. starts'[q] # 0
      BY <2>1 DEF Connect, TypeInv, TypeOK
    <3> QED
      BY <1>2, <2>1, <3>1 DEF Alone
  <2>2. Alone(p)
    <3>1. \A q \in Processes \ {p} : starts[q] = starts'[q]
      BY <2>1 DEF Next, vars, Connect, ReadVersion, ExecuteStatement, NextStatement,
         DrainReaders, CommitMigration, Fail, Close, TypeInv, TypeOK
    <3> QED
      BY <1>2, <3>1 DEF Alone
  <2>3. Retried(p)
    BY <2>2 DEF RetryInv
  <2>4. ASSUME NEW q \in Processes \ {p}
        PROVE  ~(\/ ReadVersion(q) \/ ExecuteStatement(q) \/ DrainReaders(q)
                 \/ CommitMigration(q) \/ Fail(q) \/ Close(q))
    BY <2>2 DEF RetryInv, NotStarted, Alone, ReadVersion, ExecuteStatement, NextStatement,
                DrainReaders, CommitMigration, AtCommit, Fail, Close
  <2>5. CASE UNCHANGED vars
    BY <2>3, <2>5 DEF vars, Retried, Between, Ran, Local
  <2> QED
    BY <2>1, <2>3, <2>4, <2>5, RetriedStep DEF Next
<1> QED
  BY <1>1, <1>2 DEF RetryInv

\* Whoever was the only one to migrate, however often it failed partway and was
\* started again, has exactly the schema of its code.
THEOREM RetriesAreHarmless == Spec => []RetryIsHarmless
<1>1. Init => RetryInv
  <2> SUFFICES ASSUME Init PROVE RetryInv
    OBVIOUS
  <2>1. FinalSchema(0) = {}
    BY NoneYet DEF FinalSchema
  <2>2. \A p \in Processes : 0 <= Code[p] /\ 0 # Code[p]
    BY CodeType, Shape
  <2> QED
    BY <2>1, <2>2 DEF Init, RetryInv, NotStarted, Retried, Between
<1>2. RetryInv => RetryIsHarmless
  BY DEF RetryInv, Alone, Retried, RetryIsHarmless
<1> QED
  BY <1>1, <1>2, TypeInvariance, RetryStep, PTL DEF Spec
=============================================================================
