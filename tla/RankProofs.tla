----------------------------- MODULE RankProofs -----------------------------
(***************************************************************************)
(* What a report rests on, beside any number of writers, for any games,    *)
(* readings, command lines and clock.                                      *)
(***************************************************************************)
EXTENDS Rank, FiniteSetTheorems, WellFoundedInduction, TLAPS

SampleTier == {"window", "baseline"}
Row == [ts : Int, tier : SampleTier, game : Games, viewers : Nat, channels : Nat]
Collects == [op : {"collect"}, ts : Int, tier : SampleTier, force : BOOLEAN]
Syncs == [op : {"sync"}, games : SUBSET Games]

Reading == {"counted", "owned", "fetched"}
ReaderLabels == {"off", "open"} \cup Reading
WriterLabels == {"off", "open", "checked", "writing"}

\* Types, and where each process may be.
TypeInv ==
    /\ now \in Int
    /\ log \subseteq Row /\ IsFiniteSet(log)
    /\ counted \subseteq Row /\ IsFiniteSet(counted)
    /\ config \in Configs
    /\ lock \in Locks
    /\ pc \in [Processes -> ReaderLabels \cup WriterLabels]
    /\ pc[Reader] \in ReaderLabels
    /\ \A w \in Writers : pc[w] \in WriterLabels
    /\ job \in [Writers -> {NoJob} \cup Collects \cup Syncs]
    /\ \A w \in Writers : pc[w] \in {"checked", "writing"} => job[w] \in Collects \cup Syncs

LEMMA ReaderApart == Reader \in Processes /\ Reader \notin Writers /\ Writers \subseteq Processes
BY RankAssumption DEF Writers

LEMMA LockSteps ==
    ASSUME lock \in Locks, NEW p \in Processes,
           Select(p) \/ Write(p) \/ Release(p) \/ BeginCommit(p) \/ UNCHANGED lock
    PROVE  lock' \in Locks
BY DEF Locks, Select, Write, Release, BeginCommit, Hold

\* A sample is finite, and its rows are of one slot.
LEMMA SampleRows ==
    ASSUME NEW ts \in Int, NEW tier \in SampleTier, NEW rows \in Samples(ts, tier)
    PROVE  /\ rows \subseteq Row /\ IsFiniteSet(rows)
           /\ \A r \in rows : r.ts = ts /\ r.tier = tier
<1>1. PICK some \in SUBSET Games : \E f \in [some -> Readings] :
          rows = {[ts |-> ts, tier |-> tier, game |-> g,
                   viewers |-> f[g][1], channels |-> f[g][2]] : g \in some}
  BY DEF Samples
<1>2. PICK f \in [some -> Readings] :
          rows = {[ts |-> ts, tier |-> tier, game |-> g,
                   viewers |-> f[g][1], channels |-> f[g][2]] : g \in some}
  BY <1>1
<1> DEFINE row == [g \in some |-> [ts |-> ts, tier |-> tier, game |-> g,
                                   viewers |-> f[g][1], channels |-> f[g][2]]]
<1>3. \A g \in some : f[g][1] \in Nat /\ f[g][2] \in Nat
  BY RankAssumption
<1>4. rows \subseteq Row /\ \A r \in rows : r.ts = ts /\ r.tier = tier
  BY <1>2, <1>3 DEF Row
<1>5. row \in Surjection(some, rows)
  BY <1>2 DEF Surjection
<1>6. IsFiniteSet(some)
  BY RankAssumption, FS_Subset
<1> QED
  BY <1>4, <1>5, <1>6, FS_Surjection

\* The log stays finite, and of its type.
LEMMA CommitLog ==
    ASSUME TypeInv, NEW w \in Writers, Commit(w)
    PROVE  /\ log' \subseteq Row /\ IsFiniteSet(log')
           /\ job[w].op = "sync" => log' = log
           /\ job[w].op # "sync" =>
                /\ job[w] \in Collects /\ library' = library
                /\ \E rows \in Samples(job[w].ts, job[w].tier) : log' = Kept(rows) \cup rows
<1>1. job[w] \in Collects \cup Syncs
  BY DEF Commit, TypeInv
<1>2. CASE job[w].op = "sync"
  BY <1>2 DEF Commit, TypeInv
<1>3. CASE job[w].op # "sync"
  <2>1. job[w] \in Collects
    BY <1>1, <1>3 DEF Syncs
  <2>2. PICK rows \in Samples(job[w].ts, job[w].tier) : log' = Kept(rows) \cup rows
    BY <1>3 DEF Commit
  <2>3. rows \subseteq Row /\ IsFiniteSet(rows)
    BY <2>1, SampleRows DEF Collects
  <2>4. Kept(rows) \in SUBSET log
    BY DEF Kept
  <2>5. Kept(rows) \subseteq Row /\ IsFiniteSet(Kept(rows))
    BY <2>4, FS_Subset DEF TypeInv
  <2> QED
    BY <1>3, <2>1, <2>2, <2>3, <2>5, FS_Union DEF Commit
<1> QED
  BY <1>2, <1>3

LEMMA WindowType ==
    ASSUME TypeInv, NEW d \in Int
    PROVE  Window(d) \subseteq Row /\ IsFiniteSet(Window(d))
<1>1. Window(d) \in SUBSET log
  BY DEF Window
<1> QED
  BY <1>1, FS_Subset DEF TypeInv

LEMMA ConfigType ==
    ASSUME NEW c \in Configs
    PROVE  /\ c.eval_days \in Nat /\ c.guards \in Guards
           /\ c.guards.floor \in Nat /\ c.guards.low \in Nat
           /\ c.guards.high \subseteq Nat /\ c.guards.samples \in Nat \ {0}
BY RankAssumption DEF Guards

\* What a command leaves when it ends.
LEMMA CloseType ==
    ASSUME TypeInv, NEW p \in Processes, Close(p)
    PROVE  /\ lock' \in Locks
           /\ pc' \in [Processes -> ReaderLabels \cup WriterLabels]
           /\ pc'[Reader] \in ReaderLabels
           /\ \A w \in Writers : pc'[w] \in WriterLabels
           /\ job' \in [Writers -> {NoJob} \cup Collects \cup Syncs]
           /\ \A w \in Writers : pc'[w] \in {"checked", "writing"} =>
                                     job'[w] \in Collects \cup Syncs
           /\ counted' \subseteq Row /\ IsFiniteSet(counted')
<1>1. lock' \in Locks
  BY LockSteps DEF Close, TypeInv
<1>2. counted' = {} \/ counted' = counted
  BY DEF Close
<1> QED
  BY <1>1, <1>2, FS_EmptySet, ReaderApart
  DEF Close, To, TypeInv, ReaderLabels, WriterLabels

\* A step that moves one process and leaves its job.
LEMMA MoveType ==
    ASSUME TypeInv, NEW p \in Processes, NEW label, To(p, label), lock' \in Locks,
           IF p = Reader THEN label \in ReaderLabels ELSE label \in {"open", "writing"},
           label = "writing" => pc[p] \in {"checked", "writing"},
           UNCHANGED <<log, job, config, now>>, counted' \subseteq Row, IsFiniteSet(counted')
    PROVE  TypeInv'
<1>1. \A w \in Writers : pc'[w] \in WriterLabels
  BY ReaderApart DEF To, TypeInv, WriterLabels
<1>2. pc' \in [Processes -> ReaderLabels \cup WriterLabels] /\ pc'[Reader] \in ReaderLabels
  BY ReaderApart DEF To, TypeInv, WriterLabels
<1>3. ASSUME NEW w \in Writers, pc'[w] \in {"checked", "writing"}
      PROVE  job'[w] \in Collects \cup Syncs
  BY <1>3, ReaderApart DEF To, TypeInv, WriterLabels
<1> QED
  BY <1>1, <1>2, <1>3 DEF TypeInv

LEMMA NextTypeInv == TypeInv /\ [Next]_vars => TypeInv'
<1> SUFFICES ASSUME TypeInv, [Next]_vars PROVE TypeInv'
  OBVIOUS
<1> USE ReaderApart
<1>0. config.eval_days \in Int /\ TrendDays \in Int
  BY ConfigType, RankAssumption DEF TypeInv
<1>1. ASSUME NEW p \in Processes, Connect(p) PROVE TypeInv'
  <2>1. lock' \in Locks
    BY <1>1, LockSteps DEF Connect, Read, TypeInv
  <2> QED
    BY <1>1, <2>1, MoveType DEF Connect, read, ReaderLabels, TypeInv
<1>2. ASSUME NEW p \in Processes, Close(p), UNCHANGED <<now, config>>,
             log' \subseteq Row, IsFiniteSet(log')
      PROVE  TypeInv'
  BY <1>2, CloseType DEF TypeInv
<1>3. ASSUME NEW p \in Processes, Fail(p) PROVE TypeInv'
  BY <1>2, <1>3 DEF Fail, TypeInv
<1>4. ASSUME NEW w \in Writers, CheckBatch(w) PROVE TypeInv'
  <2>1. CASE Close(w)
    BY <1>2, <1>4, <2>1 DEF CheckBatch, TypeInv
  <2>2. ASSUME NEW o \in Orders,
               job' = [job EXCEPT ![w] = [op |-> "collect", ts |-> now,
                                          tier |-> o[1], force |-> o[2]]],
               Read(w), To(w, "checked"), UNCHANGED read
        PROVE  TypeInv'
    <3>1. lock' \in Locks
      BY <2>2, LockSteps DEF Read, TypeInv
    <3>2. [op |-> "collect", ts |-> now, tier |-> o[1], force |-> o[2]] \in Collects
      BY RankAssumption DEF Collects, SampleTier, TypeInv
    <3>3. job'[w] \in Collects /\ \A v \in Writers \ {w} : job'[v] = job[v] /\ pc'[v] = pc[v]
      BY <2>2, <3>2 DEF To, TypeInv
    <3>4. job' \in [Writers -> {NoJob} \cup Collects \cup Syncs]
      BY <2>2, <3>2 DEF TypeInv
    <3>5. /\ pc' \in [Processes -> ReaderLabels \cup WriterLabels] /\ pc'[Reader] = pc[Reader]
          /\ pc'[w] \in WriterLabels
      BY <2>2 DEF To, TypeInv, WriterLabels
    <3> QED
      BY <1>4, <2>2, <3>1, <3>3, <3>4, <3>5 DEF CheckBatch, read, TypeInv
  <2> QED
    BY <1>4, <2>1, <2>2 DEF CheckBatch
<1>5. ASSUME NEW w \in Writers, Resolved(w) PROVE TypeInv'
  <2>1. PICK games \in SUBSET Games :
            job' = [job EXCEPT ![w] = [op |-> "sync", games |-> games]]
    BY <1>5 DEF Resolved
  <2>2. [op |-> "sync", games |-> games] \in Syncs
    BY DEF Syncs
  <2>3. job'[w] \in Syncs /\ \A v \in Writers \ {w} : job'[v] = job[v] /\ pc'[v] = pc[v]
    BY <1>5, <2>1, <2>2 DEF Resolved, To, TypeInv
  <2>4. job' \in [Writers -> {NoJob} \cup Collects \cup Syncs]
    BY <2>1, <2>2 DEF TypeInv
  <2>5. /\ pc' \in [Processes -> ReaderLabels \cup WriterLabels] /\ pc'[Reader] = pc[Reader]
        /\ pc'[w] \in WriterLabels
    BY <1>5 DEF Resolved, To, TypeInv, WriterLabels
  <2> QED
    BY <1>5, <2>3, <2>4, <2>5 DEF Resolved, read, TypeInv
<1>6. ASSUME NEW w \in Writers, BeginWrite(w) PROVE TypeInv'
  <2>1. lock' \in Locks
    BY <1>6, LockSteps DEF BeginWrite, TypeInv
  <2> QED
    BY <1>6, <2>1, MoveType DEF BeginWrite, read, TypeInv
<1>7. ASSUME NEW w \in Writers, Locked(w) PROVE TypeInv'
  BY <1>2, <1>7 DEF Locked, TypeInv
<1>8. ASSUME NEW w \in Writers, DrainReaders(w) PROVE TypeInv'
  BY <1>8, LockSteps DEF DrainReaders, read, TypeInv
<1>9. ASSUME NEW w \in Writers, Commit(w) PROVE TypeInv'
  BY <1>2, <1>9, CommitLog DEF Commit
<1>10. CASE FetchAggregates(Reader)
  <2>1. lock' \in Locks
    BY <1>10, LockSteps DEF FetchAggregates, Read, TypeInv
  <2> QED
    BY <1>0, <1>10, <2>1, MoveType, WindowType
    DEF FetchAggregates, ReaderLabels, Reading, TypeInv
<1>11. CASE FetchOwned(Reader) \/ FetchSeries(Reader)
  <2>1. lock' \in Locks
    BY <1>11, LockSteps DEF FetchOwned, FetchSeries, Read, TypeInv
  <2> QED
    BY <1>11, <2>1, MoveType DEF FetchOwned, FetchSeries, ReaderLabels, Reading, TypeInv
<1>12. CASE Report(Reader)
  BY <1>2, <1>12 DEF Report, TypeInv
<1>13. CASE Tick
  BY <1>13 DEF Tick, read, TypeInv
<1>14. CASE UNCHANGED vars
  BY <1>14 DEF vars, read, TypeInv
<1> QED
  BY <1>1, <1>3, <1>4, <1>5, <1>6, <1>7, <1>8, <1>9, <1>10, <1>11, <1>12, <1>13, <1>14
  DEF Next, WriteStep, ReadStep

LEMMA TypeInvariance == Init /\ [][Next]_vars => []TypeInv
<1>1. Init => TypeInv
  <2>1. IsFiniteSet({})
    BY FS_EmptySet
  <2> QED
    BY <2>1, ReaderApart DEF Init, TypeInv, Locks, ReaderLabels, WriterLabels
<1> QED
  BY <1>1, NextTypeInv, PTL

----------------------------------------------------------------------------
(* The locks *)

LockInv ==
    /\ \A p, q \in Processes :
          lock[p] \in {"reserved", "pending"} /\ lock[q] \in {"reserved", "pending"} => p = q
    /\ \A p \in Processes : lock[p] \in {"reserved", "pending"} => pc[p] = "writing"
    /\ Local => \A p \in Processes : pc[p] = "off" \/ lock[p] # "none"

\* A SELECT upgrades nothing, and on SQLite leaves a lock.
LEMMA SelectLock ==
    ASSUME TypeInv, LockInv, NEW p \in Processes, Read(p), NEW label, To(p, label),
           backend' = backend, lock[p] \notin {"reserved", "pending"}
    PROVE  LockInv'
<1>1. /\ \A q \in Processes \ {p} : lock'[q] = lock[q] /\ pc'[q] = pc[q]
      /\ lock'[p] \notin {"reserved", "pending"}
      /\ Local => lock'[p] # "none"
  BY DEF Read, Select, Hold, To, TypeInv, Locks
<1> QED
  BY <1>1 DEF LockInv, Local

LEMMA CloseLock ==
    ASSUME TypeInv, LockInv, NEW p \in Processes, Close(p), backend' = backend
    PROVE  LockInv'
<1>1. /\ \A q \in Processes \ {p} : lock'[q] = lock[q] /\ pc'[q] = pc[q]
      /\ lock'[p] = "none" /\ pc'[p] = "off"
  BY DEF Close, Release, Hold, To, TypeInv, Locks
<1> QED
  BY <1>1 DEF LockInv, Local

LEMMA NextLockInv ==
    ASSUME TypeInv, LockInv, [Next]_vars
    PROVE  LockInv' /\ backend' = backend
<1> USE ReaderApart
<1>0. \A p \in Processes : pc[p] # "writing" => lock[p] \notin {"reserved", "pending"}
  BY DEF LockInv
<1>1. ASSUME NEW p \in Processes, Connect(p) PROVE LockInv' /\ backend' = backend
  BY <1>0, <1>1, SelectLock DEF Connect
<1>2. ASSUME NEW p \in Processes, Fail(p) PROVE LockInv' /\ backend' = backend
  BY <1>2, CloseLock DEF Fail
<1>3. ASSUME NEW w \in Writers, CheckBatch(w) PROVE LockInv' /\ backend' = backend
  BY <1>0, <1>3, CloseLock, SelectLock DEF CheckBatch
<1>4. ASSUME NEW w \in Writers, Resolved(w) PROVE LockInv' /\ backend' = backend
  <2>1. /\ \A q \in Processes \ {w} : pc'[q] = pc[q]
        /\ pc[w] = "open" /\ lock' = lock /\ backend' = backend
    BY <1>4 DEF Resolved, To, TypeInv
  <2> QED
    BY <1>0, <2>1 DEF LockInv, Local
<1>5. ASSUME NEW w \in Writers, BeginWrite(w) PROVE LockInv' /\ backend' = backend
  <2>1. /\ \A q \in Processes \ {w} : lock'[q] = lock[q] /\ pc'[q] = pc[q]
                                      /\ lock[q] \notin {"reserved", "pending"}
        /\ lock'[w] = "reserved" /\ pc'[w] = "writing"
    BY <1>5 DEF BeginWrite, Write, OthersHold, Hold, To, TypeInv, Locks
  <2> QED
    BY <1>5, <2>1 DEF BeginWrite, LockInv, Local
<1>6. ASSUME NEW w \in Writers, Locked(w) PROVE LockInv' /\ backend' = backend
  BY <1>6, CloseLock DEF Locked
<1>7. ASSUME NEW w \in Writers, DrainReaders(w) PROVE LockInv' /\ backend' = backend
  <2>1. /\ \A q \in Processes \ {w} : lock'[q] = lock[q]
        /\ pc' = pc /\ pc[w] = "writing" /\ lock[w] = "reserved" /\ lock'[w] = "pending"
    BY <1>7 DEF DrainReaders, BeginCommit, Hold, TypeInv, Locks
  <2> QED
    BY <1>7, <2>1 DEF DrainReaders, LockInv, Local
<1>8. ASSUME NEW w \in Writers, Commit(w) PROVE LockInv' /\ backend' = backend
  BY <1>8, CloseLock DEF Commit
<1>9. CASE FetchAggregates(Reader)
  BY <1>0, <1>9, SelectLock DEF FetchAggregates
<1>10. CASE FetchOwned(Reader)
  BY <1>0, <1>10, SelectLock DEF FetchOwned
<1>11. CASE FetchSeries(Reader)
  BY <1>0, <1>11, SelectLock DEF FetchSeries
<1>12. CASE Report(Reader)
  BY <1>12, CloseLock DEF Report
<1>13. CASE Tick \/ UNCHANGED vars
  BY <1>13 DEF Tick, vars, LockInv, Local
<1> QED
  BY <1>1, <1>2, <1>3, <1>4, <1>5, <1>6, <1>7, <1>8, <1>9, <1>10, <1>11, <1>12, <1>13
  DEF Next, WriteStep, ReadStep

\* On SQLite a commit finds nobody else connected.
LEMMA CommitAlone ==
    ASSUME TypeInv, LockInv, Local, NEW w \in Writers, Commit(w)
    PROVE  \A p \in Processes \ {w} : pc[p] = "off"
<1>1. lock[w] = "pending" /\ \A p \in Processes \ {w} : lock[p] # "shared"
  BY DEF Commit, MayCommit, OthersHold
<1>2. \A p \in Processes \ {w} : lock[p] \notin {"reserved", "pending"}
  BY <1>1, ReaderApart DEF LockInv
<1>3. \A p \in Processes \ {w} : lock[p] = "none"
  BY <1>1, <1>2 DEF TypeInv, Locks
<1> QED
  BY <1>3 DEF LockInv

\* Only a commit touches what the reader reads.
LEMMA StoreStep ==
    ASSUME [Next]_vars
    PROVE  (log' = log /\ library' = library) \/ \E w \in Writers : Commit(w)
BY DEF Next, vars, Connect, Fail, WriteStep, CheckBatch, Resolved, BeginWrite, Locked,
   DrainReaders, ReadStep, FetchAggregates, FetchOwned, FetchSeries, Report, Tick

----------------------------------------------------------------------------
(* One snapshot *)

Snapshot ==
    Local =>
        /\ pc[Reader] \in Reading => {r \in counted : ~Aged(r)} = Window(config.eval_days)
        /\ pc[Reader] \in {"owned", "fetched"} => owned = library
        /\ pc[Reader] = "fetched" => series \subseteq counted

\* What a step means to the reader.
LEMMA ReaderStep ==
    ASSUME TypeInv, [Next]_vars
    PROVE  \/ pc'[Reader] \notin Reading
           \/ /\ UNCHANGED <<config, counted, owned, series>> /\ pc'[Reader] = pc[Reader]
              /\ now' = now \/ (now' = now + 1 /\ log' = log /\ library' = library)
           \/ FetchAggregates(Reader) \/ FetchOwned(Reader) \/ FetchSeries(Reader)
<1> DEFINE Bystander ==
        /\ UNCHANGED <<config, counted, owned, series>> /\ pc'[Reader] = pc[Reader]
        /\ now' = now \/ (now' = now + 1 /\ log' = log /\ library' = library)
<1> USE ReaderApart
<1>1. ASSUME NEW p \in Processes, Close(p), now' = now, config' = config
      PROVE  pc'[Reader] \notin Reading \/ Bystander
  BY <1>1 DEF Close, To, Reading, TypeInv
<1>2. ASSUME NEW p \in Processes, Connect(p) PROVE pc'[Reader] \notin Reading \/ Bystander
  BY <1>2 DEF Connect, To, Reading, read, TypeInv
<1>3. ASSUME NEW p \in Processes, Fail(p) PROVE pc'[Reader] \notin Reading \/ Bystander
  BY <1>1, <1>3 DEF Fail
<1>4. ASSUME NEW w \in Writers, CheckBatch(w) PROVE pc'[Reader] \notin Reading \/ Bystander
  BY <1>1, <1>4 DEF CheckBatch, To, read, TypeInv
<1>5. ASSUME NEW w \in Writers, Resolved(w) \/ BeginWrite(w) \/ DrainReaders(w)
      PROVE  Bystander
  BY <1>5 DEF Resolved, BeginWrite, DrainReaders, To, read, TypeInv
<1>6. ASSUME NEW w \in Writers, Locked(w) \/ Commit(w)
      PROVE  pc'[Reader] \notin Reading \/ Bystander
  BY <1>1, <1>6 DEF Locked, Commit
<1>7. CASE Report(Reader)
  BY <1>1, <1>7 DEF Report
<1>8. CASE Tick
  BY <1>8 DEF Tick, read
<1>9. CASE UNCHANGED vars
  BY <1>9 DEF vars, read
<1> QED
  BY <1>2, <1>3, <1>4, <1>5, <1>6, <1>7, <1>8, <1>9 DEF Next, WriteStep, ReadStep

\* The clock moves: of what is kept by age, the same is left on both sides.
LEMMA AgedTogether ==
    ASSUME TypeInv, TypeInv', UNCHANGED <<log, counted, config>>,
           now' = now \/ now' = now + 1,
           {r \in counted : ~Aged(r)} = Window(config.eval_days)
    PROVE  {r \in counted : ~Aged(r)}' = Window(config.eval_days)'
<1>1. config.eval_days \in Int /\ now \in Int
  BY ConfigType DEF TypeInv
<1>2. ASSUME NEW r \in Row, r.ts >= now' - config.eval_days
      PROVE  r.ts >= now - config.eval_days
  BY <1>1, <1>2 DEF Row
<1>3. \A r \in Row : ~(r.ts < now - config.eval_days) <=> r.ts >= now - config.eval_days
  BY <1>1 DEF Row
<1>4. \A r \in Row : ~(r.ts < now' - config.eval_days) <=> r.ts >= now' - config.eval_days
  BY <1>1 DEF Row
<1>5. counted \subseteq Row /\ log \subseteq Row
  BY DEF TypeInv
<1>6. ASSUME NEW r \in Row, r.ts >= now' - config.eval_days
      PROVE  r \in counted <=> r \in log /\ r.tier = "window"
  <2>1. r \in counted <=> r \in {q \in counted : ~Aged(q)}
    BY <1>2, <1>3, <1>6 DEF Aged
  <2>2. r \in Window(config.eval_days) <=> r \in log /\ r.tier = "window"
    BY <1>2, <1>6 DEF Window
  <2> QED
    BY <2>1, <2>2
<1> QED
  BY <1>4, <1>5, <1>6 DEF Aged, Window

LEMMA NextSnapshot ==
    ASSUME TypeInv, TypeInv', LockInv, Snapshot, [Next]_vars
    PROVE  Snapshot'
<1> SUFFICES ASSUME Local' PROVE Snapshot'
  BY DEF Snapshot
<1>1. Local
  BY NextLockInv DEF Local
<1>2. CASE pc'[Reader] \notin Reading
  BY <1>2 DEF Snapshot, Reading
<1>3. CASE /\ pc'[Reader] \in Reading
           /\ UNCHANGED <<config, counted, owned, series>> /\ pc'[Reader] = pc[Reader]
           /\ now' = now \/ (now' = now + 1 /\ log' = log /\ library' = library)
  <2>1. ASSUME NEW w \in Writers, Commit(w) PROVE FALSE
    BY <1>1, <1>3, <2>1, CommitAlone, ReaderApart DEF Reading
  <2>2. log' = log /\ library' = library
    BY <2>1, StoreStep
  <2>3. {r \in counted : ~Aged(r)} = Window(config.eval_days)
    BY <1>1, <1>3 DEF Snapshot
  <2>4. {r \in counted : ~Aged(r)}' = Window(config.eval_days)'
    BY <1>3, <2>2, <2>3, AgedTogether
  <2> QED
    BY <1>1, <1>3, <2>2, <2>4 DEF Snapshot
<1>4. config.eval_days \in Int /\ now \in Int /\ log \subseteq Row
  BY ConfigType DEF TypeInv
<1>5. CASE FetchAggregates(Reader)
  <2>1. /\ counted' = Window(config.eval_days) /\ UNCHANGED <<now, log, config>>
        /\ pc'[Reader] = "counted"
    BY <1>5, ReaderApart DEF FetchAggregates, To, TypeInv
  <2>2. \A r \in Window(config.eval_days) : ~(r.ts < now - config.eval_days)
    BY <1>4 DEF Window, Row
  <2>3. {r \in counted : ~Aged(r)}' = Window(config.eval_days)'
    BY <2>1, <2>2 DEF Aged, Window
  <2> QED
    BY <2>1, <2>3 DEF Snapshot
<1>6. CASE FetchOwned(Reader)
  <2>1. /\ UNCHANGED <<now, log, config, counted, library>> /\ owned' = library
        /\ pc[Reader] = "counted" /\ pc'[Reader] = "owned"
    BY <1>6, ReaderApart DEF FetchOwned, To, TypeInv
  <2>2. {r \in counted : ~Aged(r)}' = Window(config.eval_days)'
    BY <1>1, <2>1 DEF Snapshot, Reading, Aged, Window
  <2> QED
    BY <2>1, <2>2 DEF Snapshot
<1>7. CASE FetchSeries(Reader)
  <2>1. /\ UNCHANGED <<now, log, config, counted, library, owned>>
        /\ pc[Reader] = "owned" /\ series' \subseteq Window(config.eval_days)
    BY <1>7 DEF FetchSeries
  <2>2. {r \in counted : ~Aged(r)}' = Window(config.eval_days)'
    BY <1>1, <2>1 DEF Snapshot, Reading, Aged, Window
  <2>3. owned = library /\ Window(config.eval_days) \subseteq counted
    BY <1>1, <2>1 DEF Snapshot, Reading
  <2> QED
    BY <2>1, <2>2, <2>3 DEF Snapshot
<1> QED
  BY <1>2, <1>3, <1>5, <1>6, <1>7, ReaderStep

\* On local SQLite a report is of one database, that of the moment it is given:
\* its connection holds the shared lock from the version check on, so that no
\* commit falls between its statements (rank.py:92, db.py:35).
THEOREM ReportIsOneSnapshot == Spec => []OneSnapshot
<1>1. Init => LockInv /\ Snapshot
  BY ReaderApart DEF Init, LockInv, Snapshot, Reading
<1>2. Snapshot => OneSnapshot
  BY DEF Snapshot, OneSnapshot, Fetched, Reading
<1>3. TypeInv /\ TypeInv' /\ LockInv /\ Snapshot /\ [Next]_vars => LockInv' /\ Snapshot'
  BY NextLockInv, NextSnapshot
<1> QED
  BY <1>1, <1>2, <1>3, TypeInvariance, PTL DEF Spec

----------------------------------------------------------------------------
(* The series covers the aggregates *)

Sampled(r) == \E s \in log : s.ts = r.ts /\ s.game = r.game

\* What was counted is still sampled, though perhaps by other rows.
CountedSampled == pc[Reader] \in Reading => \A r \in counted : Sampled(r)

\* A commit replaces rows, and takes none away.
LEMMA SampledStays ==
    ASSUME TypeInv, [Next]_vars, NEW r \in Row, Sampled(r)
    PROVE  Sampled(r)'
<1>1. CASE log' = log
  BY <1>1 DEF Sampled
<1>2. ASSUME NEW w \in Writers, Commit(w), log' # log PROVE Sampled(r)'
  <2>1. PICK rows : log' = Kept(rows) \cup rows
    BY <1>2, CommitLog
  <2>2. PICK s \in log : s.ts = r.ts /\ s.game = r.game
    BY DEF Sampled
  <2>3. CASE s \in Kept(rows)
    BY <2>1, <2>2, <2>3 DEF Sampled
  <2>4. CASE s \notin Kept(rows)
    <3>1. PICK q \in rows : q.ts = s.ts /\ q.game = s.game
      BY <2>2, <2>4 DEF Kept
    <3> QED
      BY <2>1, <2>2, <3>1 DEF Sampled
  <2> QED
    BY <2>3, <2>4
<1> QED
  BY <1>1, <1>2, StoreStep

LEMMA NextCountedSampled ==
    ASSUME TypeInv, CountedSampled, [Next]_vars
    PROVE  CountedSampled'
<1>1. CASE pc'[Reader] \notin Reading
  BY <1>1 DEF CountedSampled
<1>2. CASE /\ UNCHANGED <<config, counted, owned, series>> /\ pc'[Reader] = pc[Reader]
           /\ now' = now \/ (now' = now + 1 /\ log' = log /\ library' = library)
  BY <1>2, SampledStays DEF CountedSampled, TypeInv
<1>3. CASE FetchAggregates(Reader)
  BY <1>3 DEF FetchAggregates, Window, CountedSampled, Sampled
<1>4. CASE FetchOwned(Reader) \/ FetchSeries(Reader)
  BY <1>4 DEF FetchOwned, FetchSeries, CountedSampled, Reading, Sampled
<1> QED
  BY <1>1, <1>2, <1>3, <1>4, ReaderStep

LEMMA SeriesStep ==
    ASSUME TypeInv, CountedSampled, [Next]_vars,
           pc[Reader] = "owned", pc'[Reader] = "fetched",
           NEW r \in counted, r.game \in Shown(Listed) \cup Shown(OwnedListed), ~Aged(r)
    PROVE  \E s \in log : /\ s.ts = r.ts /\ s.game = r.game
                          /\ s \in series' \/ s.tier # "window"
<1>1. FetchSeries(Reader)
  BY ReaderStep, ReaderApart DEF FetchAggregates, FetchOwned, Reading
<1>2. PICK s \in log : s.ts = r.ts /\ s.game = r.game
  BY DEF CountedSampled, Reading, Sampled
<1>3. r.ts >= now - config.eval_days
  BY ConfigType DEF Aged, Row, TypeInv
<1>4. r.game \in Listed \cup OwnedListed
  BY DEF Shown
<1> QED
  BY <1>1, <1>2, <1>3, <1>4 DEF FetchSeries, Window

\* On either backend the series holds every sample a shown game was judged on,
\* but those that aged or were rewritten by a run of another tier between the two
\* statements: a commit takes no key away (queries.py:77, snapshots.py:161).
THEOREM NoSampleIsMissed == Spec => SeriesCoversCounted
<1>1. Init => CountedSampled
  BY DEF Init, CountedSampled, Reading
<1>2. TypeInv /\ CountedSampled /\ [Next]_vars => CountedSampled'
  BY NextCountedSampled
<1>3. ASSUME TypeInv, CountedSampled, [Next]_vars
      PROVE  [pc[Reader] = "owned" /\ pc'[Reader] = "fetched" =>
                \A r \in counted :
                   r.game \in Shown(Listed) \cup Shown(OwnedListed) /\ ~Aged(r) =>
                       \E s \in log : /\ s.ts = r.ts /\ s.game = r.game
                                      /\ s \in series' \/ s.tier # "window"]_vars
  BY <1>3, SeriesStep
<1> QED
  BY <1>1, <1>2, <1>3, TypeInvariance, PTL DEF Spec, SeriesCoversCounted

----------------------------------------------------------------------------
(* Filled slots *)

\* On SQLite the answer of has_batch is still true when the run writes.
StillEmpty ==
    Local =>
        \A w \in Writers :
            /\ pc[w] \in {"checked", "writing"} /\ job[w].op = "collect" /\ ~job[w].force
            => ~HasBatch(job[w].ts)

LEMMA NextStillEmpty ==
    ASSUME TypeInv, LockInv, StillEmpty, [Next]_vars
    PROVE  StillEmpty'
<1> SUFFICES ASSUME Local', NEW v \in Writers,
                    pc'[v] \in {"checked", "writing"},
                    job'[v].op = "collect", ~job'[v].force
             PROVE  ~\E r \in log' : r.ts = job'[v].ts
  BY DEF StillEmpty, HasBatch
<1> USE ReaderApart
<1>1. Local
  BY NextLockInv DEF Local
<1>2. ASSUME NEW w \in Writers, Commit(w) PROVE FALSE
  <2>1. pc'[v] \in {"off"} \cup {pc[v]} /\ (v = w => pc'[v] = "off")
    BY <1>2 DEF Commit, Close, To, TypeInv
  <2> QED
    BY <1>1, <1>2, <2>1, CommitAlone
<1>3. log' = log
  BY <1>2, StoreStep
<1>4. CASE job'[v] = job[v] /\ pc[v] \in {"checked", "writing"}
  BY <1>1, <1>3, <1>4 DEF StillEmpty, HasBatch
<1>5. CASE ~HasBatch(job'[v].ts)
  BY <1>3, <1>5 DEF HasBatch
<1>6. ASSUME NEW p \in Processes, Close(p) PROVE job'[v] = job[v] /\ pc'[v] = pc[v]
  BY <1>6 DEF Close, To, TypeInv
<1>7. ASSUME NEW p \in Processes, NEW label, To(p, label), job' = job,
             label \in {"checked", "writing"} => pc[p] \in {"checked", "writing"}
      PROVE  job'[v] = job[v] /\ pc[v] \in {"checked", "writing"}
  BY <1>7 DEF To, TypeInv
<1>8. ASSUME NEW w \in Writers, CheckBatch(w)
      PROVE  (job'[v] = job[v] /\ pc'[v] = pc[v]) \/ ~HasBatch(job'[v].ts)
  BY <1>6, <1>8 DEF CheckBatch, To, TypeInv
<1>9. ASSUME NEW w \in Writers, Resolved(w) PROVE job'[v] = job[v] /\ pc'[v] = pc[v]
  BY <1>9 DEF Resolved, To, TypeInv
<1>10. ASSUME NEW p \in Processes,
              \/ Connect(p) \/ BeginWrite(p) \/ FetchAggregates(p) \/ FetchOwned(p)
              \/ FetchSeries(p)
       PROVE  job'[v] = job[v] /\ pc[v] \in {"checked", "writing"}
  BY <1>7, <1>10 DEF Connect, BeginWrite, FetchAggregates, FetchOwned, FetchSeries
<1>11. ASSUME NEW p \in Processes, Fail(p) \/ Locked(p) \/ Report(p)
       PROVE  job'[v] = job[v] /\ pc'[v] = pc[v]
  BY <1>6, <1>11 DEF Fail, Locked, Report
<1>12. ASSUME Tick \/ UNCHANGED vars \/ \E w \in Writers : DrainReaders(w)
       PROVE  job'[v] = job[v] /\ pc'[v] = pc[v]
  BY <1>12 DEF Tick, vars, DrainReaders
<1> QED
  BY <1>2, <1>4, <1>5, <1>8, <1>9, <1>10, <1>11, <1>12 DEF Next, WriteStep, ReadStep

\* Only a forced run writes a slot that has rows.
LEMMA WriteStepKeeps ==
    ASSUME TypeInv, LockInv, StillEmpty, [Next]_vars, Local,
           NEW r \in (log \ log') \cup (log' \ log), HasBatch(r.ts)
    PROVE  \E w \in Writers : pc[w] = "writing" /\ pc'[w] = "off" /\ job[w].force
<1>1. PICK w \in Writers : Commit(w)
  BY StoreStep
<1>2. /\ job[w] \in Collects
      /\ \E rows \in Samples(job[w].ts, job[w].tier) : log' = Kept(rows) \cup rows
  BY <1>1, CommitLog
<1>3. PICK rows \in Samples(job[w].ts, job[w].tier) : log' = Kept(rows) \cup rows
  BY <1>2
<1>4. \A s \in rows : s.ts = job[w].ts
  BY <1>2, SampleRows DEF Collects
<1>5. r.ts = job[w].ts
  <2>1. CASE r \in rows
    BY <1>4, <2>1
  <2>2. CASE r \notin rows
    <3>1. r \in log /\ r \notin Kept(rows)
      BY <1>3, <2>2 DEF Kept
    <3> QED
      BY <1>4, <3>1 DEF Kept
  <2> QED
    BY <2>1, <2>2
<1>6. pc[w] = "writing" /\ pc'[w] = "off"
  BY <1>1, ReaderApart DEF Commit, Close, To, TypeInv
<1>7. job[w].force
  BY <1>2, <1>5, <1>6 DEF StillEmpty, Collects
<1> QED
  BY <1>6, <1>7

\* On local SQLite an unforced run leaves a slot that has rows: it holds its lock
\* from has_batch on, so that nobody else can commit before it has (db.py:190).
THEOREM FilledSlotsAreKept == Spec => FilledSlotIsKept
<1>1. Init => LockInv /\ StillEmpty
  BY ReaderApart DEF Init, LockInv, StillEmpty
<1>2. TypeInv /\ LockInv /\ StillEmpty /\ [Next]_vars => LockInv' /\ StillEmpty'
  BY NextLockInv, NextStillEmpty
<1>3. ASSUME TypeInv, LockInv, StillEmpty, [Next]_vars
      PROVE  [Local =>
                \A r \in (log \ log') \cup (log' \ log) :
                   HasBatch(r.ts) =>
                       \E w \in Writers : pc[w] = "writing" /\ pc'[w] = "off"
                                          /\ job[w].force]_vars
  BY <1>3, WriteStepKeeps
<1> QED
  BY <1>1, <1>2, <1>3, TypeInvariance, PTL DEF Spec, FilledSlotIsKept

----------------------------------------------------------------------------
(* Sums over rows *)

Less == {pair \in Nat \X Nat : pair[1] < pair[2]}

\* Induction: an instance of the least-element principle, for a set of numbers.
LEMMA Induction ==
    ASSUME NEW T \in SUBSET Nat, 0 \in T, \A n \in T : n + 1 \in T
    PROVE  T = Nat
<1> SUFFICES ASSUME Nat \ T # {} PROVE FALSE
  OBVIOUS
<1>1. IsWellFoundedOn(Less, Nat)
  BY NatLessThanWellFounded DEF OpToRel, Less
<1>2. PICK n \in Nat \ T : \A m \in Nat \ T : ~(<<m, n>> \in Less)
  BY <1>1, WFMin
<1>3. n # 0 /\ n - 1 \in Nat /\ n - 1 < n
  BY <1>2
<1>4. n - 1 \in T
  BY <1>2, <1>3 DEF Less
<1>5. (n - 1) + 1 \in T
  BY <1>4
<1> QED
  BY <1>2, <1>5

Pick1(s) == CHOOSE x \in s : TRUE

\* How the sum of a field over a set of rows is computed.
Adds(S, field, f) ==
    [s \in S |-> IF s = {} THEN 0 ELSE Pick1(s)[field] + f[s \ {Pick1(s)}]]
Sums(S, field) == CHOOSE f : f = Adds(SUBSET S, field, f)

LEMMA ViewersAdd == ASSUME NEW rows PROVE Viewers(rows) = Sums(rows, "viewers")[rows]
BY DEF Viewers, MapThenSumSet, MapThenFoldSet, Sums, Adds, Pick1

LEMMA ChannelsAdd == ASSUME NEW rows PROVE Channels(rows) = Sums(rows, "channels")[rows]
BY DEF Channels, MapThenSumSet, MapThenFoldSet, Sums, Adds, Pick1

UpTo(S, n) == {s \in SUBSET S : Cardinality(s) <= n}

LEMMA SmallerByOne ==
    ASSUME NEW S, IsFiniteSet(S), NEW n \in Nat, NEW s \in UpTo(S, n + 1), s # {}
    PROVE  Pick1(s) \in s /\ s \ {Pick1(s)} \in UpTo(S, n)
<1>1. Pick1(s) \in s
  BY DEF Pick1
<1>2. IsFiniteSet(s) /\ s \in SUBSET S /\ Cardinality(s) <= n + 1 /\ Cardinality(s) \in Nat
  BY FS_Subset, FS_CardinalityType DEF UpTo
<1>3. Cardinality(s \ {Pick1(s)}) = Cardinality(s) - 1
  BY <1>1, <1>2, FS_RemoveElement
<1> QED
  BY <1>1, <1>2, <1>3 DEF UpTo

\* Such a function exists: one for the sets of n rows extends to those of n + 1.
LEMMA SumsExist ==
    ASSUME NEW S, IsFiniteSet(S), NEW field
    PROVE  \E f : f = Adds(SUBSET S, field, f)
<1> DEFINE T == {n \in Nat : \E f : f = Adds(UpTo(S, n), field, f)}
<1>1. 0 \in T
  <2> DEFINE f == [s \in UpTo(S, 0) |-> 0]
  <2>1. \A s \in UpTo(S, 0) : s = {}
    BY FS_Subset, FS_CardinalityType, FS_EmptySet DEF UpTo
  <2>2. f = Adds(UpTo(S, 0), field, f)
    BY <2>1 DEF Adds
  <2> QED
    BY <2>2
<1>2. ASSUME NEW n \in T PROVE n + 1 \in T
  <2>1. PICK f : f = Adds(UpTo(S, n), field, f)
    OBVIOUS
  <2> DEFINE h == Adds(UpTo(S, n + 1), field, f)
  <2>2. \A s \in UpTo(S, n) : s \in UpTo(S, n + 1)
    BY FS_Subset, FS_CardinalityType DEF UpTo
  <2>3. \A s \in UpTo(S, n) : h[s] = f[s]
    BY <2>1, <2>2 DEF Adds
  <2>4. \A s \in UpTo(S, n + 1) : s # {} => h[s \ {Pick1(s)}] = f[s \ {Pick1(s)}]
    BY <2>3, SmallerByOne
  <2>5. h = Adds(UpTo(S, n + 1), field, h)
    BY <2>4 DEF Adds
  <2> QED
    BY <2>5
<1>3. Cardinality(S) \in T
  <2> HIDE DEF T
  <2>1. T \subseteq Nat
    BY DEF T
  <2> QED
    BY <1>1, <1>2, <2>1, Induction, FS_CardinalityType
<1>4. UpTo(S, Cardinality(S)) = SUBSET S
  BY FS_Subset DEF UpTo
<1> QED
  BY <1>3, <1>4

\* A sum of numbers is a number.
LEMMA SumType ==
    ASSUME NEW rows \in SUBSET Row, IsFiniteSet(rows), NEW field \in {"viewers", "channels"}
    PROVE  Sums(rows, field)[rows] \in Nat
<1> DEFINE f == Sums(rows, field)
<1>1. f = Adds(SUBSET rows, field, f)
  BY SumsExist DEF Sums
<1> DEFINE T == {n \in Nat : \A s \in UpTo(rows, n) : f[s] \in Nat}
<1> HIDE DEF f
<1>2. 0 \in T
  <2>1. \A s \in UpTo(rows, 0) : s = {}
    BY FS_Subset, FS_CardinalityType, FS_EmptySet DEF UpTo
  <2>2. f[{}] = 0
    BY <1>1 DEF Adds
  <2>3. \A s \in UpTo(rows, 0) : f[s] \in Nat
    <3> SUFFICES ASSUME NEW s \in UpTo(rows, 0) PROVE f[s] \in Nat
      OBVIOUS
    <3>1. f[s] = 0
      BY <2>1, <2>2
    <3> QED
      BY <3>1
  <2> QED
    BY <2>3
<1>3. ASSUME NEW n \in T PROVE n + 1 \in T
  <2> SUFFICES ASSUME NEW s \in UpTo(rows, n + 1) PROVE f[s] \in Nat
    OBVIOUS
  <2>1. f[s] = IF s = {} THEN 0 ELSE Pick1(s)[field] + f[s \ {Pick1(s)}]
    BY <1>1 DEF Adds, UpTo
  <2>2. CASE s # {}
    <3>1. Pick1(s) \in s /\ s \ {Pick1(s)} \in UpTo(rows, n)
      BY <2>2, SmallerByOne
    <3>2. Pick1(s) \in Row
      BY <3>1 DEF UpTo
    <3>3. Pick1(s)[field] \in Nat
      BY <3>2 DEF Row
    <3>4. f[s \ {Pick1(s)}] \in Nat
      BY <3>1
    <3> QED
      BY <2>1, <2>2, <3>3, <3>4
  <2> QED
    BY <2>1, <2>2
<1>4. Cardinality(rows) \in T
  <2> HIDE DEF T
  <2>1. T \subseteq Nat
    BY DEF T
  <2> QED
    BY <1>2, <1>3, <2>1, Induction, FS_CardinalityType
<1>5. rows \in UpTo(rows, Cardinality(rows))
  BY FS_CardinalityType DEF UpTo
<1> QED
  BY <1>4, <1>5 DEF f

LEMMA SumsAreNumbers ==
    ASSUME NEW rows \in SUBSET Row, IsFiniteSet(rows)
    PROVE  Viewers(rows) \in Nat /\ Channels(rows) \in Nat
BY SumType, ViewersAdd, ChannelsAdd

----------------------------------------------------------------------------
(* The owned section *)

LEMMA Product ==
    ASSUME NEW n \in Nat, NEW a \in Nat, NEW b \in Nat, a >= b
    PROVE  n * a >= n * b
<1>1. a = b + (a - b) /\ a - b \in Nat
  OBVIOUS
<1>2. n * (a - b) \in Nat /\ n * a = n * b + n * (a - b)
  BY <1>1
<1> QED
  BY <1>2

\* Guards with the same ceilings and lower floors let the same rows pass.
LEMMA LooserPasses ==
    ASSUME NEW rows \in SUBSET Row, IsFiniteSet(rows), NEW guards \in Guards,
           guards.floor >= RelaxedOwnedGuards.floor, guards.low >= RelaxedOwnedGuards.low,
           Passes(rows, guards)
    PROVE  \E looser \in OwnedGuards(guards.high) : Passes(rows, looser)
<1> DEFINE n == Cardinality(rows)
           looser == [RelaxedOwnedGuards EXCEPT !.high = guards.high]
<1>1. /\ n \in Nat /\ Viewers(rows) \in Nat /\ Channels(rows) \in Nat
      /\ guards.floor \in Nat /\ guards.low \in Nat /\ guards.samples \in Nat \ {0}
      /\ guards.high \subseteq Nat
  BY SumsAreNumbers, FS_CardinalityType DEF Guards
<1>2. /\ n >= guards.samples
      /\ Viewers(rows) >= n * guards.floor /\ Channels(rows) >= n * guards.low
      /\ \A h \in guards.high : Channels(rows) <= n * h
  BY DEF Passes
<1> HIDE DEF n
<1>3. guards.floor >= 10 /\ guards.low >= 1
  BY DEF RelaxedOwnedGuards
<1>4. n * guards.floor >= n * 10 /\ n * guards.low >= n * 1
  BY <1>1, <1>3, Product
<1>5. n >= 1 /\ Viewers(rows) >= n * 10 /\ Channels(rows) >= n
  <2>1. n * guards.floor \in Nat /\ n * guards.low \in Nat /\ n * 1 = n
    BY <1>1
  <2> QED
    BY <1>1, <1>2, <1>4, <2>1
<1>6. ASSUME NEW h \in guards.high, h < 1 PROVE FALSE
  <2>1. h = 0 /\ n * h = 0
    BY <1>1, <1>6
  <2> QED
    BY <1>1, <1>2, <1>5, <2>1
<1>7. looser \in OwnedGuards(guards.high)
  BY <1>6 DEF OwnedGuards, RelaxedOwnedGuards
<1>8. looser = [floor |-> 10, low |-> 1, high |-> guards.high, samples |-> 1]
  BY DEF RelaxedOwnedGuards
<1>9. n * 1 = n
  BY <1>1
<1>10. Passes(rows, looser)
  BY <1>2, <1>5, <1>8, <1>9 DEF Passes, n
<1> QED
  BY <1>7, <1>10

LEMMA OwnedFollowsListed ==
    ASSUME TypeInv, config.guards.floor >= RelaxedOwnedGuards.floor,
           config.guards.low >= RelaxedOwnedGuards.low
    PROVE  owned \cap Shown(Listed) \subseteq Shown(OwnedListed)
<1> SUFFICES ASSUME NEW g \in owned, g \in Shown(Listed)
             PROVE  g \in Shown(OwnedListed)
  OBVIOUS
<1>1. g \in Listed /\ (config.hide_falling => ~Falling(g))
  BY DEF Shown
<1>2. Of(counted, g) # {} /\ Passes(Of(counted, g), config.guards)
  BY <1>1 DEF Listed, Eligible
<1>3. Of(counted, g) \in SUBSET Row /\ IsFiniteSet(Of(counted, g))
  <2>1. Of(counted, g) \in SUBSET counted
    BY DEF Of
  <2> QED
    BY <2>1, FS_Subset DEF TypeInv
<1>4. config.guards \in Guards
  BY ConfigType DEF TypeInv
<1>5. PICK looser \in OwnedGuards(config.guards.high) : Passes(Of(counted, g), looser)
  BY <1>2, <1>3, <1>4, LooserPasses
<1>6. g \in Eligible(owned, looser)
  BY <1>2, <1>5 DEF Eligible
<1>7. g \in OwnedListed
  BY <1>5, <1>6 DEF OwnedListed
<1> QED
  BY <1>1, <1>7 DEF Shown

\* An owned game that passes guards no looser than the relaxed ones is in the
\* owned section too: a ceiling that would disable the section lets no game pass
\* that has a sample (cli.py:256).
THEOREM OwnedSectionFollows == Spec => []OwnedIncludesListed
<1>1. TypeInv => OwnedIncludesListed
  BY OwnedFollowsListed DEF OwnedIncludesListed
<1> QED
  BY <1>1, TypeInvariance, PTL DEF Spec

----------------------------------------------------------------------------
(* Progress *)

\* Who has ended holds no lock, who writes holds the one that writers have, and
\* the shared one is of SQLite only.
HoldInv ==
    \A p \in Processes :
        /\ pc[p] = "off" => lock[p] = "none"
        /\ pc[p] = "writing" => lock[p] \in {"reserved", "pending"}
        /\ ~Local => lock[p] \notin {"shared", "pending"}

\* What a step of p leaves of the others.
Alone(p) ==
    /\ backend' = backend
    /\ \A q \in Processes \ {p} : pc'[q] = pc[q] /\ lock'[q] = lock[q]

Ends(p) == pc[p] # "off" /\ pc'[p] = "off" /\ lock'[p] = "none"

\* A statement that reads, or none.
Reads(p) ==
    /\ \/ pc[p] = "off" /\ pc'[p] = "open"
       \/ pc[p] = "open" /\ pc'[p] \in {"checked", "counted"}
       \/ pc[p] = "counted" /\ pc'[p] = "owned"
       \/ pc[p] = "owned" /\ pc'[p] = "fetched"
    /\ lock'[p] = lock[p] \/ (Local /\ lock[p] = "none" /\ lock'[p] = "shared")

Writes(p) ==
    \/ pc[p] = "checked" /\ pc'[p] = "writing" /\ lock'[p] = "reserved"
    \/ /\ Local /\ pc[p] = "writing" /\ pc'[p] = "writing"
       /\ lock[p] = "reserved" /\ lock'[p] = "pending"

\* A command that closes.
LEMMA CloseEnds ==
    ASSUME TypeInv, NEW p \in Processes, pc[p] # "off", Close(p), backend' = backend
    PROVE  Alone(p) /\ Ends(p)
BY DEF Close, Release, Hold, To, TypeInv, Locks, Alone, Ends

\* A command that goes on with a SELECT.
LEMMA SelectReads ==
    ASSUME TypeInv, NEW p \in Processes, Read(p), NEW label, To(p, label), backend' = backend
    PROVE  /\ Alone(p) /\ pc'[p] = label
           /\ lock'[p] = lock[p] \/ (Local /\ lock[p] = "none" /\ lock'[p] = "shared")
<1>1. \A q \in Processes \ {p} : pc'[q] = pc[q] /\ lock'[q] = lock[q]
  BY DEF Read, Select, Hold, To, TypeInv, Locks
<1>2. pc'[p] = label
  BY DEF To, TypeInv
<1>3. lock'[p] = lock[p] \/ (Local /\ lock[p] = "none" /\ lock'[p] = "shared")
  BY DEF Read, Select, Hold, TypeInv, Locks
<1> QED
  BY <1>1, <1>2, <1>3 DEF Alone

LEMMA WriterMoves ==
    ASSUME TypeInv, NEW w \in Writers, WriteStep(w)
    PROVE  /\ Alone(w) /\ pc[w] # "off"
           /\ Ends(w) \/ Reads(w) \/ Writes(w)
<1> w \in Processes
  BY ReaderApart
<1>1. CASE CheckBatch(w)
  <2>1. pc[w] = "open" /\ backend' = backend
    BY <1>1 DEF CheckBatch
  <2>2. Close(w) \/ (Read(w) /\ To(w, "checked"))
    BY <1>1 DEF CheckBatch
  <2>3. CASE Close(w)
    BY <2>1, <2>3, CloseEnds
  <2>4. CASE Read(w) /\ To(w, "checked")
    BY <2>1, <2>4, SelectReads DEF Reads
  <2> QED
    BY <2>2, <2>3, <2>4
<1>2. CASE Resolved(w)
  BY <1>2 DEF Resolved, To, TypeInv, Alone, Reads
<1>3. CASE BeginWrite(w)
  BY <1>3 DEF BeginWrite, Write, Hold, To, TypeInv, Locks, Alone, Writes
<1>4. CASE Locked(w)
  BY <1>4, CloseEnds DEF Locked
<1>5. CASE DrainReaders(w)
  BY <1>5 DEF DrainReaders, BeginCommit, Hold, TypeInv, Locks, Alone, Writes
<1>6. CASE Commit(w)
  BY <1>6, CloseEnds DEF Commit
<1> QED
  BY <1>1, <1>2, <1>3, <1>4, <1>5, <1>6 DEF WriteStep

LEMMA ReaderMoves ==
    ASSUME TypeInv, ReadStep(Reader)
    PROVE  /\ Alone(Reader) /\ pc[Reader] # "off"
           /\ Ends(Reader) \/ Reads(Reader)
<1> Reader \in Processes
  BY ReaderApart
<1>1. CASE FetchAggregates(Reader)
  BY <1>1, SelectReads DEF FetchAggregates, Reads
<1>2. CASE FetchOwned(Reader)
  BY <1>2, SelectReads DEF FetchOwned, Reads
<1>3. CASE FetchSeries(Reader)
  BY <1>3, SelectReads DEF FetchSeries, Reads
<1>4. CASE Report(Reader)
  BY <1>4, CloseEnds DEF Report
<1> QED
  BY <1>1, <1>2, <1>3, <1>4 DEF ReadStep

LEMMA ConnectMoves ==
    ASSUME TypeInv, NEW p \in Processes, Connect(p)
    PROVE  Alone(p) /\ pc[p] = "off" /\ Reads(p)
BY SelectReads DEF Connect, Reads

LEMMA FailMoves ==
    ASSUME TypeInv, NEW p \in Processes, Fail(p)
    PROVE  Alone(p) /\ Ends(p)
BY CloseEnds DEF Fail

\* Every step is one command's, or none's.
LEMMA OneMoves ==
    ASSUME TypeInv, [Next]_vars
    PROVE  \/ UNCHANGED <<backend, pc, lock>>
           \/ \E p \in Processes : Alone(p) /\ (Ends(p) \/ Reads(p) \/ Writes(p))
<1>1. ASSUME NEW w \in Writers, WriteStep(w)
      PROVE  w \in Processes /\ Alone(w) /\ (Ends(w) \/ Reads(w) \/ Writes(w))
  BY <1>1, WriterMoves, ReaderApart
<1>2. CASE Tick \/ UNCHANGED vars
  BY <1>2 DEF Tick, vars
<1> QED
  BY <1>1, <1>2, ReaderMoves, ConnectMoves, FailMoves, ReaderApart DEF Next

LEMMA NextHoldInv ==
    ASSUME TypeInv, LockInv, HoldInv, [Next]_vars
    PROVE  HoldInv'
<1>1. CASE UNCHANGED <<backend, pc, lock>>
  BY <1>1 DEF HoldInv, Local
<1>2. ASSUME NEW p \in Processes, Alone(p), Ends(p) \/ Reads(p) \/ Writes(p)
      PROVE  HoldInv'
  <2>1. /\ pc'[p] = "off" => lock'[p] = "none"
        /\ pc'[p] = "writing" => lock'[p] \in {"reserved", "pending"}
        /\ ~Local => lock'[p] \notin {"shared", "pending"}
    BY <1>2 DEF Ends, Reads, Writes, HoldInv
  <2> QED
    BY <1>2, <2>1 DEF Alone, HoldInv, Local
<1> QED
  BY <1>1, <1>2, OneMoves

LEMMA HoldInvariance == Spec => [](TypeInv /\ LockInv /\ HoldInv)
<1>1. Init => LockInv /\ HoldInv
  BY DEF Init, LockInv, HoldInv
<1>2. TypeInv /\ LockInv /\ HoldInv /\ [Next]_vars => LockInv' /\ HoldInv'
  BY NextLockInv, NextHoldInv
<1> QED
  BY <1>1, <1>2, TypeInvariance, PTL DEF Spec

\* A command under way can go on, but one that holds the file for its commit, or
\* on Turso one that comes to write second.
LEMMA WhoMayWait ==
    ASSUME TypeInv, LockInv, HoldInv, NEW p \in Processes, pc[p] # "off", ~MayGoOn(p)
    PROVE  \/ Local /\ lock[p] = "pending"
           \/ ~Local /\ pc[p] = "checked"
<1>1. pc[p] \in {"open", "checked", "writing", "counted", "owned", "fetched"}
  BY DEF TypeInv, ReaderLabels, WriterLabels, Reading
<1>2. CASE Local
  <2>1. lock[p] \in {"shared", "reserved", "pending"}
    BY <1>2 DEF LockInv, TypeInv, Locks
  <2>2. CASE lock[p] = "shared"
    BY <1>1, <1>2, <2>2 DEF MayGoOn, MayRead, Refused, HoldInv
  <2>3. CASE lock[p] = "reserved"
    BY <2>3 DEF MayGoOn, LockInv
  <2> QED
    BY <1>2, <2>1, <2>2, <2>3
<1>3. CASE ~Local
  BY <1>1, <1>3 DEF MayGoOn, MayRead
<1> QED
  BY <1>2, <1>3

LEMMA WaitIsForTheFree ==
    ASSUME TypeInv, LockInv, HoldInv, NEW p \in Processes, NEW q \in Processes,
           pc[p] # "off", ~MayGoOn(p), q # p, lock[q] # "none"
    PROVE  MayGoOn(q)
<1> SUFFICES ASSUME ~MayGoOn(q) PROVE FALSE
  OBVIOUS
<1>1. pc[q] # "off"
  BY DEF HoldInv
<1>2. CASE Local
  <2>1. lock[p] = "pending" /\ lock[q] = "pending"
    BY <1>1, <1>2, WhoMayWait
  <2> QED
    BY <2>1 DEF LockInv
<1>3. CASE ~Local
  <2>1. pc[q] = "checked"
    BY <1>1, <1>3, WhoMayWait
  <2>2. lock[q] = "reserved"
    BY <1>3 DEF HoldInv, TypeInv, Locks
  <2> QED
    BY <2>1, <2>2 DEF LockInv
<1> QED
  BY <1>2, <1>3

\* What is left at each place.
LEMMA Remaining ==
    ASSUME NEW p
    PROVE  /\ pc[p] = "off" => StepsLeft(p) = 0
           /\ pc[p] = "open" => StepsLeft(p) = 4
           /\ pc[p] \in {"checked", "counted"} => StepsLeft(p) = 3
           /\ pc[p] = "owned" => StepsLeft(p) = 2
           /\ pc[p] = "fetched" => StepsLeft(p) = 1
           /\ pc[p] = "writing" => StepsLeft(p) = IF lock[p] = "pending" THEN 1 ELSE 2
BY DEF StepsLeft

LEMMA RemainingThen ==
    ASSUME NEW p
    PROVE  /\ pc'[p] = "off" => StepsLeft(p)' = 0
           /\ pc'[p] = "open" => StepsLeft(p)' = 4
           /\ pc'[p] \in {"checked", "counted"} => StepsLeft(p)' = 3
           /\ pc'[p] = "owned" => StepsLeft(p)' = 2
           /\ pc'[p] = "fetched" => StepsLeft(p)' = 1
           /\ pc'[p] = "writing" => StepsLeft(p)' = IF lock'[p] = "pending" THEN 1 ELSE 2
BY DEF StepsLeft

LEMMA MovesAdvance ==
    ASSUME TypeInv, NEW p \in Processes, pc[p] # "off", Ends(p) \/ Reads(p) \/ Writes(p)
    PROVE  StepsLeft(p)' < StepsLeft(p)
<1>1. pc[p] \in {"open", "checked", "writing", "counted", "owned", "fetched"}
  BY DEF TypeInv, ReaderLabels, WriterLabels, Reading
<1>2. StepsLeft(p) \in {1, 2, 3, 4}
  BY <1>1, Remaining
<1>3. CASE Ends(p)
  <2>1. StepsLeft(p)' = 0
    BY <1>3, RemainingThen DEF Ends
  <2> QED
    BY <1>2, <2>1
<1>4. CASE Reads(p)
  BY <1>4, Remaining, RemainingThen DEF Reads
<1>5. CASE Writes(p)
  BY <1>5, Remaining, RemainingThen DEF Writes
<1> QED
  BY <1>3, <1>4, <1>5

\* Commands do not wait for each other in a ring, nor for one that waits, and
\* each gets nearer to its end, on either backend and for any number of writers:
\* with the fairness of Spec this is why EveryCommandEnds holds.
THEOREM CommandsDoAdvance == Spec => CommandsAdvance
<1>1. TypeInv /\ LockInv /\ HoldInv =>
        \A p, q \in Processes :
            pc[p] # "off" /\ ~MayGoOn(p) /\ q # p /\ lock[q] # "none" => MayGoOn(q)
  BY WaitIsForTheFree
<1>2. TypeInv /\ [Next]_vars =>
        [\A p \in Processes :
            /\ (IF p = Reader THEN ReadStep(p) ELSE WriteStep(p)) =>
                   StepsLeft(p)' < StepsLeft(p)
            /\ pc[p] # "off" => StepsLeft(p)' <= StepsLeft(p)]_vars
  <2> SUFFICES ASSUME TypeInv, [Next]_vars, NEW p \in Processes
               PROVE  /\ (IF p = Reader THEN ReadStep(p) ELSE WriteStep(p)) =>
                             StepsLeft(p)' < StepsLeft(p)
                      /\ pc[p] # "off" => StepsLeft(p)' <= StepsLeft(p)
    OBVIOUS
  <2>1. ASSUME p = Reader, ReadStep(p) PROVE StepsLeft(p)' < StepsLeft(p)
    BY <2>1, ReaderMoves, MovesAdvance
  <2>2. ASSUME p # Reader, WriteStep(p) PROVE StepsLeft(p)' < StepsLeft(p)
    BY <2>2, WriterMoves, MovesAdvance DEF Writers
  <2>3. ASSUME pc[p] # "off" PROVE StepsLeft(p)' <= StepsLeft(p)
    <3>1. StepsLeft(p) \in Int
      BY <2>3, Remaining DEF TypeInv, ReaderLabels, WriterLabels, Reading
    <3>2. CASE pc'[p] = pc[p] /\ lock'[p] = lock[p]
      <4>1. StepsLeft(p)' = StepsLeft(p)
        BY <3>2 DEF StepsLeft
      <4> QED
        BY <3>1, <4>1
    <3>3. CASE Ends(p) \/ Reads(p) \/ Writes(p)
      <4>1. StepsLeft(p)' < StepsLeft(p)
        BY <2>3, <3>3, MovesAdvance
      <4>2. StepsLeft(p)' \in Int
        BY <3>3, RemainingThen DEF Ends, Reads, Writes
      <4> QED
        BY <3>1, <4>1, <4>2
    <3> QED
      BY <3>2, <3>3, OneMoves DEF Alone
  <2> QED
    BY <2>1, <2>2, <2>3
<1> QED
  BY <1>1, <1>2, HoldInvariance, PTL DEF CommandsAdvance, Spec
=============================================================================
