-------------------------------- MODULE Rank --------------------------------
(***************************************************************************)
(* scout rank (src/twitch_scout/rank/) reads the database in three          *)
(* statements, each against the clock of its own moment: the aggregates of  *)
(* the evaluation window, the owned games, and the series of the games that *)
(* passed the guards.  Meanwhile collect runs commit whole batches          *)
(* (module SampleLog) and steam-sync replaces the library (SteamSync).  On  *)
(* local SQLite every command holds the shared lock from its first SELECT,  *)
(* in connect(); on Turso a statement reads what is committed, and lock     *)
(* only keeps two write transactions apart.  Averages are kept as the rows  *)
(* they are taken over; days are instants.  The order of a section, a       *)
(* floating-point score, is left out.                                       *)
(***************************************************************************)
EXTENDS Integers, FiniteSets, FiniteSetsExt, SqliteLocks

CONSTANTS
    Backends,             \* of "turso" and "sqlite"
    Reader,               \* the process that runs rank; the others write
    Games,
    Readings,             \* <<viewers, channels>> a sample may find
    Orders,               \* <<tier, force>> of the collect runs
    TrendDays,            \* the recent part of the window
    Configs,              \* command lines of rank
    MaxNow,               \* bound of the clock
    MaxStarts             \* bound: how often a process is started

Guards == [floor : Nat, low : Nat, high : SUBSET Nat, samples : Nat \ {0}]

ASSUME RankAssumption ==
    /\ Backends \subseteq {"turso", "sqlite"} /\ Reader \in Processes
    /\ IsFiniteSet(Games)
    /\ Readings \subseteq Nat \X Nat
    /\ Orders \subseteq {"window", "baseline"} \X BOOLEAN
    /\ TrendDays \in Nat \ {0}
    /\ \A c \in Configs : /\ c.eval_days \in Nat \ {0}
                          /\ c.guards \in Guards /\ c.hide_falling \in BOOLEAN
    /\ MaxNow \in Nat /\ MaxStarts \in [Processes -> Nat]

VARIABLES
    backend,   \* what SCOUT_DB names
    now,
    log,       \* rows of snapshots
    library,   \* categories of the owned games
    pc,
    job,       \* what a writer is to write
    config,    \* of the reader, and what it has read:
    counted,   \*   the rows of the aggregates
    recent,    \*   those of the trend
    owned,
    series,
    starts

read == <<config, counted, recent, owned, series>>
vars == <<backend, lock, now, log, library, pc, job, read, starts>>

Writers == Processes \ {Reader}
Local == backend = "sqlite"
NoJob == [op |-> "none"]

Init ==
    /\ backend \in Backends /\ now = 1
    /\ log = {} /\ library = {}
    /\ lock = [p \in Processes |-> "none"]
    /\ pc = [p \in Processes |-> "off"]
    /\ job = [w \in Writers |-> NoJob]
    /\ config \in Configs
    /\ counted = {} /\ recent = {} /\ owned = {} /\ series = {}
    /\ starts = [p \in Processes |-> 0]

To(p, label) == pc' = [pc EXCEPT ![p] = label]
Read(p) == IF Local THEN Select(p) ELSE UNCHANGED lock

\* The command ends, and what it had in mind is gone.
Close(p) ==
    /\ To(p, "off") /\ Release(p)
    /\ job' = [w \in Writers |-> IF w = p THEN NoJob ELSE job[w]]
    /\ IF p = Reader THEN counted' = {} /\ recent' = {} /\ owned' = {} /\ series' = {}
                     ELSE UNCHANGED <<counted, recent, owned, series>>

\* connect() of any command: the migration's SELECT of the version.
Connect(p) ==
    /\ pc[p] = "off" /\ starts[p] < MaxStarts[p]
    /\ Read(p)
    /\ To(p, "open")
    /\ starts' = [starts EXCEPT ![p] = @ + 1]
    /\ UNCHANGED <<backend, now, log, library, job, read>>

----------------------------------------------------------------------------
(* The writers *)

HasBatch(ts) == \E r \in log : r.ts = ts

\* Slip: has_batch on a connection of its own.
CheckBatchApart(w) ==
    /\ pc[w] = "open"
    /\ \E o \in Orders :
          IF ~o[2] /\ HasBatch(now) THEN Close(w)
          ELSE /\ job' = [job EXCEPT ![w] = [op |-> "collect", ts |-> now,
                                             tier |-> o[1], force |-> o[2]]]
               /\ Release(w) /\ To(w, "checked")
               /\ UNCHANGED read
    /\ UNCHANGED <<backend, now, log, library, config, starts>>

\* A collect run takes the slot of the clock, and leaves one already sampled.
CheckBatch(w) ==
    /\ pc[w] = "open"
    /\ \E o \in Orders :
          IF ~o[2] /\ HasBatch(now) THEN Close(w)
          ELSE /\ job' = [job EXCEPT ![w] = [op |-> "collect", ts |-> now,
                                             tier |-> o[1], force |-> o[2]]]
               /\ Read(w) /\ To(w, "checked")
               /\ UNCHANGED read
    /\ UNCHANGED <<backend, now, log, library, config, starts>>

\* A steam-sync has its answer from Steam, and what of it resolves.
Resolved(w) ==
    /\ pc[w] = "open"
    /\ \E games \in SUBSET Games :
          job' = [job EXCEPT ![w] = [op |-> "sync", games |-> games]]
    /\ To(w, "checked")
    /\ UNCHANGED <<backend, lock, now, log, library, read, starts>>

BeginWrite(w) ==
    /\ pc[w] = "checked"
    /\ Write(w)
    /\ To(w, "writing")
    /\ UNCHANGED <<backend, now, log, library, job, read, starts>>

\* "database is locked": the exception ends the command.
Locked(w) ==
    /\ pc[w] = "checked" /\ Refused(w)
    /\ Close(w)
    /\ UNCHANGED <<backend, now, log, library, config, starts>>

DrainReaders(w) ==
    /\ Local /\ pc[w] = "writing" /\ BeginCommit(w)
    /\ UNCHANGED <<backend, now, log, library, pc, job, read, starts>>

\* The rows of a sample: some of the games, each with a reading.
Samples(ts, tier) ==
    UNION {{{[ts |-> ts, tier |-> tier, game |-> g,
              viewers |-> f[g][1], channels |-> f[g][2]] : g \in some}
            : f \in [some -> Readings]} : some \in SUBSET Games}

\* What the upsert leaves of the rows before.
Kept(rows) == {r \in log : ~\E s \in rows : s.ts = r.ts /\ s.game = r.game}

Commit(w) ==
    /\ pc[w] = "writing"
    /\ Local => MayCommit(w)
    /\ IF job[w].op = "sync"
       THEN library' = job[w].games /\ UNCHANGED log
       ELSE /\ \E rows \in Samples(job[w].ts, job[w].tier) : log' = Kept(rows) \cup rows
            /\ UNCHANGED library
    /\ Close(w)
    /\ UNCHANGED <<backend, now, config, starts>>

----------------------------------------------------------------------------
(* The reader *)

Window(days) == {r \in log : r.tier = "window" /\ r.ts >= now - days}

\* Slip: every SELECT in a transaction of its own.
FetchAggregatesApart(p) ==
    /\ pc[p] = "open"
    /\ counted' = Window(config.eval_days)
    /\ recent' = Window(config.eval_days) \cap Window(TrendDays)
    /\ Release(p) /\ To(p, "counted")
    /\ UNCHANGED <<backend, now, log, library, job, config, owned, series, starts>>

FetchAggregates(p) ==
    /\ pc[p] = "open"
    /\ counted' = Window(config.eval_days)
    /\ recent' = Window(config.eval_days) \cap Window(TrendDays)
    /\ Read(p) /\ To(p, "counted")
    /\ UNCHANGED <<backend, now, log, library, job, config, owned, series, starts>>

FetchOwned(p) ==
    /\ pc[p] = "counted"
    /\ owned' = library
    /\ Read(p) /\ To(p, "owned")
    /\ UNCHANGED <<backend, now, log, library, job, config, counted, recent, series, starts>>

Of(rows, g) == {r \in rows : r.game = g}
Viewers(rows) == MapThenSumSet(LAMBDA r : r.viewers, rows)
Channels(rows) == MapThenSumSet(LAMBDA r : r.channels, rows)

\* evaluate(): the averages of a game's rows against the guards.
Passes(rows, guards) ==
    LET n == Cardinality(rows)
    IN  /\ n >= guards.samples
        /\ Viewers(rows) >= n * guards.floor
        /\ Channels(rows) >= n * guards.low
        /\ \A h \in guards.high : Channels(rows) <= n * h

\* partition()
Eligible(games, guards) ==
    {g \in games : Of(counted, g) # {} /\ Passes(Of(counted, g), guards)}

RelaxedOwnedGuards == [floor |-> 10, low |-> 1, high |-> {}, samples |-> 1]

\* Slip: a ceiling at the minimum disables the section.
OwnedGuardsAbove(high) ==
    IF \E h \in high : h <= RelaxedOwnedGuards.low THEN {}
    ELSE {[RelaxedOwnedGuards EXCEPT !.high = high]}

\* None, when a ceiling below their minimum would leave the section empty.
OwnedGuards(high) ==
    IF \E h \in high : h < RelaxedOwnedGuards.low THEN {}
    ELSE {[RelaxedOwnedGuards EXCEPT !.high = high]}

Listed == Eligible(Games, config.guards)
OwnedListed ==
    UNION {Eligible(owned, guards) : guards \in OwnedGuards(config.guards.high)}

\* Slip: the series over the days of the trend.
FetchSeriesOfTrend(p) ==
    /\ pc[p] = "owned"
    /\ series' = {r \in Window(TrendDays) : r.game \in Listed \cup OwnedListed}
    /\ Read(p) /\ To(p, "fetched")
    /\ UNCHANGED <<backend, now, log, library, job, config, counted, recent, owned, starts>>

FetchSeries(p) ==
    /\ pc[p] = "owned"
    /\ series' = {r \in Window(config.eval_days) : r.game \in Listed \cup OwnedListed}
    /\ Read(p) /\ To(p, "fetched")
    /\ UNCHANGED <<backend, now, log, library, job, config, counted, recent, owned, starts>>

\* classify_trend(), with its dead band of a tenth; the averages of the two
\* windows are compared without dividing.
Falling(g) ==
    LET long == Of(counted, g)
        short == Of(recent, g)
        level == Viewers(long) * Cardinality(short)
    IN  10 * Viewers(short) * Cardinality(long) < 9 * level

\* build(): a section as it is shown.
Shown(section) == {g \in section : config.hide_falling => ~Falling(g)}

\* Slip: the connection stays open.
ReportOpen(p) ==
    /\ pc[p] = "fetched" /\ To(p, "off")
    /\ UNCHANGED <<backend, lock, now, log, library, job, read, starts>>

\* The result is complete; close, and print.
Report(p) ==
    /\ pc[p] = "fetched" /\ Close(p)
    /\ UNCHANGED <<backend, now, log, library, config, starts>>

----------------------------------------------------------------------------

\* Any statement may raise, the commit on SQLite also because a reader took
\* longer than the busy timeout; or the process is lost.
Fail(p) ==
    /\ pc[p] # "off" /\ Close(p)
    /\ UNCHANGED <<backend, now, log, library, config, starts>>

Tick ==
    /\ now < MaxNow /\ now' = now + 1
    /\ UNCHANGED <<backend, lock, log, library, pc, job, read, starts>>

WriteStep(w) ==
    CheckBatch(w) \/ Resolved(w) \/ BeginWrite(w) \/ Locked(w) \/ DrainReaders(w) \/ Commit(w)

ReadStep(p) == FetchAggregates(p) \/ FetchOwned(p) \/ FetchSeries(p) \/ Report(p)

Next ==
    \/ \E p \in Processes : Connect(p) \/ Fail(p)
    \/ \E w \in Writers : WriteStep(w)
    \/ ReadStep(Reader)
    \/ Tick

\* A command that can take its next step takes it; nothing makes it fail.
Spec ==
    /\ Init /\ [][Next]_vars
    /\ \A w \in Writers : WF_vars(WriteStep(w))
    /\ WF_vars(ReadStep(Reader))

----------------------------------------------------------------------------
(* Properties *)

Fetched == pc[Reader] = "fetched"
Aged(r) == r.ts < now - config.eval_days

\* On local SQLite the three statements of a report read one database, that of
\* the moment it is given, though collect and steam-sync run beside it and the
\* clock moves: its rows are those of the window, less what aged meanwhile, and
\* its library the library (rank.py:92).
OneSnapshot ==
    Local /\ Fetched =>
        /\ {r \in counted : ~Aged(r)} = Window(config.eval_days)
        /\ series \subseteq counted
        /\ owned = library

\* On either backend every sample a shown game was judged on is in the series its
\* floor and its spike are taken from, unless it aged, or a run of another tier
\* rewrote it, between the two statements (queries.py:77).
SeriesCoversCounted ==
    [][pc[Reader] = "owned" /\ pc'[Reader] = "fetched" =>
         \A r \in counted :
            r.game \in Shown(Listed) \cup Shown(OwnedListed) /\ ~Aged(r) =>
                \E s \in log : /\ s.ts = r.ts /\ s.game = r.game
                               /\ s \in series' \/ s.tier # "window"]_vars

\* An owned game that passes guards no looser than the relaxed ones is in the
\* owned section as well, whatever the ceiling (cli.py:256).
OwnedIncludesListed ==
    /\ Fetched
    /\ config.guards.floor >= RelaxedOwnedGuards.floor
    /\ config.guards.low >= RelaxedOwnedGuards.low
    => owned \cap Shown(Listed) \subseteq Shown(OwnedListed)

\* On local SQLite a slot that has rows is only written again by a forced run:
\* what the concurrency group does for the workflow, the locks do between any two
\* unforced runs, however long after has_batch they write (db.py:190).
FilledSlotIsKept ==
    [][Local =>
         \A r \in (log \ log') \cup (log' \ log) :
            HasBatch(r.ts) =>
                \E w \in Writers : pc[w] = "writing" /\ pc'[w] = "off" /\ job[w].force]_vars

\* The next step of a command waits for a lock, or for nothing.
MayRead(p) == Local /\ lock[p] = "none" => ~OthersHold(p, {"pending"})

MayGoOn(p) ==
    \/ pc[p] \in {"open", "counted", "owned"} /\ MayRead(p)
    \/ pc[p] = "checked" /\ (~OthersHold(p, {"reserved", "pending"}) \/ Refused(p))
    \/ pc[p] = "writing" /\ (Local => lock[p] = "reserved" \/ MayCommit(p))
    \/ pc[p] = "fetched"

\* How many steps a command has before it, at most.
StepsLeft(p) ==
    CASE pc[p] = "off" -> 0
      [] pc[p] = "open" -> 4
      [] pc[p] \in {"checked", "counted"} -> 3
      [] pc[p] = "owned" \/ (pc[p] = "writing" /\ lock[p] # "pending") -> 2
      [] pc[p] = "fetched" \/ (pc[p] = "writing" /\ lock[p] = "pending") -> 1

\* Nobody waits for one who waits (db.py:190): whoever holds a lock that a command
\* may be waiting for can itself go on, on either backend.  And a command that
\* goes on has fewer steps left, which no other command makes more.
CommandsAdvance ==
    /\ [](\A p, q \in Processes :
            pc[p] # "off" /\ ~MayGoOn(p) /\ q # p /\ lock[q] # "none" => MayGoOn(q))
    /\ [][\A p \in Processes :
            /\ (IF p = Reader THEN ReadStep(p) ELSE WriteStep(p)) =>
                   StepsLeft(p)' < StepsLeft(p)
            /\ pc[p] # "off" => StepsLeft(p)' <= StepsLeft(p)]_vars

\* Readers that wait for a commit, commits that wait for readers, and writers
\* that wait for each other: every command ends (db.py:35).
EveryCommandEnds == \A p \in Processes : pc[p] # "off" ~> pc[p] = "off"
=============================================================================
