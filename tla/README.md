# twitch-scout: specifications, model checking and proofs

twitch-scout samples Twitch categories every fifteen minutes into one database
and ranks them for a streamer. It is a small program that is hard to test where
it matters: it is started by an external trigger that may be late, lost or
doubled; it is killed by a timeout; its database does not roll back DDL; and two
of its processes may meet in that database. This directory holds TLA+ modules
of those parts, TLC configurations that check them on small instances, and
proofs, checked by TLAPS, that hold for every value of the constants.

All source paths below are under `src/twitch_scout/` unless they say otherwise.

## The system

| Component | State | Operations | Correct when |
|---|---|---|---|
| tier decision, `collect/tiers.py` | none (pure) | `resolve_slot`, `slot_for` | a late start stays in its slot; a timestamp fits its tier; DST moves nothing |
| collector, `collect/collector.py` | locals of one `run()` | resolve slot, check, list, extend, sample, write | one batch per slot, whole or absent, with everything it read; a lost run can be redone |
| workflow, `.github/workflows/collect.yml` | the concurrency group: one job in progress, one waiting | trigger, start, supersede, time out | jobs never overlap; every trigger ends |
| snapshot store, `store/snapshots.py` | table `snapshots`, key (ts, game_id) | `has_batch`, `write_batch`, `read_batch` | all-or-nothing, no key twice |
| database, `store/db.py` | schema, `meta.schema_version` | `connect`, `_migrate`, `transaction` | recorded version never ahead of the schema; a lost migration can be rerun |
| rate limiter, `twitch/ratelimit.py` | tokens, last refill | `acquire`, `available` | never above the limit in any interval; never gives up |
| Helix client, `twitch/client.py` | app token and its expiry | `_get` and the endpoints over it | no dead token sent, retries paced and bounded, errors are `TwitchError` |
| steam store and sync, `store/steam.py`, `steam/` | table `steam_games` | `replace_owned_games`, `sync_owned_games`, `resolve_titles` | an incomplete answer never loses a game |
| title resolution, `steam/resolve.py` | locals of one sync: matches, budget | `resolve_titles` | no game matched to another game; nothing resolvable lost |
| ranking, `rank/` | none (reads) | `rank_candidates`, `evaluate`, `partition` | what is shown is judged on one state of the database |
| command line, configuration | none | `main`, `Config.from_env` | failures are reported |

How they meet. The workflow starts `scout init-db` and `scout collect`; an
operator may start any command by hand, at any time, outside the concurrency
group. Every command connects, and so migrates. A collect run reads the clock
once, asks the store whether its timestamp has rows, asks Helix for the list
and for each game's streams (every request through the token, the bucket and
the retry loop of the client), reads the resolved library if its slot is a
window slot, and writes one batch in one transaction. `steam-sync` asks
Steam for the library, Helix for the categories its names resolve to, and
replaces the library in a transaction; `rank` reads what is there, in three
statements. There are no threads: all concurrency is between processes, through
the database. That is Turso, whose statements read what is committed, or a local
SQLite file, whose locks last as long as a transaction.

What is hard: the check for an existing batch is minutes before the commit that relies
on it; a job is killed at any point, the commit included; a commit may raise and have
happened; triggers are late, superseded or lost; window and baseline slots share
timestamps at 22:00; lists repeat games; a token may expire between the check and the
request; Twitch may say 401 or 429 for ever; Helix moves items between the pages of a
list that is being read, and has categories that differ by case alone; migrations are
partial after a failure and race each other; on a local file the commands wait for
each other's locks. `PROJECT.json` lists these hazards at their lines with the
properties that cover them.

## The modules

| Module | Models | State and actions against the code |
|---|---|---|
| `Tiers` | `collect/tiers.py` | operators named after its functions; instants are minutes of UTC, one DST change per instance |
| `SampleLog` | the promise | an abstract log of whole batches, one per timestamp |
| `Collector` | `Collector.run`, `snapshots.py`, the workflow | one process per trigger or manual run; `pc` is its place in `run()`; one action per call that leaves the process |
| `CollectorProperties` | | the properties, and the refinement mapping to `SampleLog` |
| `Cadence` | a local day of triggers | one step per trigger: a run in time, late, or lost |
| `TokenBucket` | `TokenBucket` | `Take` and `Wait` are the two outcomes of an iteration of `acquire`; `WakeUp` goes round the loop, or out of its end to the `RuntimeError` |
| `HelixClient` | `_get`, `_ensure_token`, `_fetch_token`, `_retry_after` | `pc` is the place in the loop, one action per HTTP answer |
| `SqliteLocks` | the file locks behind `sqlite3.connect(autocommit=False)` | who reads, writes or commits; no `Next` of its own |
| `Migrate` | `connect`, `_migrate`, on both backends | one action per statement; `MIGRATIONS` as in the code, reduced to the objects created and dropped |
| `Rank` | `rank_candidates`, its queries, guards and trend, beside the writers | one action per statement of the reader; a writer is its check, its first write and its commit |
| `Endpoints` | `get_top_games`, `get_streams`; the answers of `get_games_by_name` and `search_categories` | one action per page, with the list Twitch has at that moment |
| `Resolve` | `resolve_titles` | `tier`, `todo` and `tried` are its loops, over the tiers, the games of a tier and the names of a game; one action per hit taken, confirmation or search |
| `SteamSync` | `sync_owned_games`, `get_owned_games`, `replace_owned_games` | `pc` is the place of a sync in `sync_owned_games`; one action per call or statement, and one for the account that changes |
| `GameLibrary` | the promise | an abstract library that changes only as a whole, when a run publishes games it was shown |
| `TiersProofs`, `CollectorProofs`, `TokenBucketProofs`, `HelixClientProofs`, `MigrateProofs`, `RankProofs`, `ResolveProofs`, `SteamSyncProofs` | | theorems and their proofs; `TiersProofs` has those of `Cadence` too, whose names begin with `Day` so that `CollectorProofs` can extend both |
| `MCCollector`, `MCCadence`, `MCMigrate`, `MCRank`, `MCResolve` | | values of the constants for TLC |

`Collector` extends `Tiers`; `CollectorProperties` extends `Collector` and
instantiates `SampleLog`. `Cadence` also extends `Tiers` and takes a run as one
step: what `Collector` shows of its inside is what justifies that. `SteamSync`
has the inside of what `Collector` sees as one step, `ReplaceOwnedGames`,
and its refinement mapping to `GameLibrary`: a run stands where Steam has yet to
answer, has answered, or it will write no more (`Standing`), and what it was shown
is the account at the answer (`truth`).
`Migrate` and `Rank` extend `SqliteLocks`: on Turso the lock only keeps two write
transactions apart. `Rank` takes what `SampleLog` and `SteamSync` say of the
writers as given, a whole batch and a whole library at a commit: `SampleLog!Publish` and
`GameLibrary!Publish` with a whole answer.
`Resolve` extends `Endpoints` and is the inside of the resolution that
`SteamSync` leaves open; a behaviour of `Resolve!Spec` is either the walk of one
list (`endpoint` names it) or one call of `resolve_titles`.

Operators and actions whose comment begins with *Slip:* are not part of any
specification. Each is a plausible mistake in the definition below it; with
the mistake in place a run must fail, which shows that the property tells the
code from its bugs (`PROJECT.json`, `mutants`).

### What is abstracted

- A reading is the entry it was read for: a game and its place in the list. Its
  viewers, channels and truncated flag are whatever Helix answered. Rows carry
  the run that wrote them; the table does not, the properties need it.
- Seconds, which every floor discards, and which no bound of the window has.
- A call of `get_streams`, with its pages, tokens and retries, is one step of
  `Collector`: it answers, fails as a `TwitchError`, or raises something else.
  `HelixClient` has the inside of a request.
- The games of `_append_extra_candidates` share one place behind the list: they
  are distinct and nothing depends on their order.
- Tokens of the bucket are counted in the time it takes to refill them, in exact
  arithmetic; the code uses floats, whose rounding costs at most another wait.
- A game of the library is its appid; names and playtime are left out, but for
  whether a name is blank. What a name resolves to is open in `SteamSync`.
- In `Resolve` a name is its words, the separators between them, and its case.
  Accents, punctuation and trademark signs, which every comparison but that of
  the spelling ignores, are left out. A regular expression is what it takes away:
  `StripEdition` takes the four of `_strip_edition` in turn, each from what the ones
  before left, and which words name an edition or stand in parentheses is a constant.
- The pages of a list are cut from the order Twitch has when a page is read,
  chosen anew at every page. A stream is an item of the list; its viewers are not
  in the model, since a sum over the items is right when every item is.
- In `Rank` an average is the set of rows it is taken over, days are instants, and
  the rows of a batch are chosen at its commit. Sections are sets: score,
  percentile and spike, and the order they give, are floating-point formulas that
  change nothing. The minimum of samples is a constant, 2 in the run.
- The process is also killed by its timeout: `Crash` may come at any time, so
  no clock runs inside a job.

### What is assumed of the outside

Nothing of these is in `src/`; it is read off how the code uses them and what
its comments say of them. Turso: a read sees committed rows; a transaction's
rows become visible together at its commit; one transaction at a time has the
write lock, from its first write on; a lost process loses its transaction; DDL
takes effect at once and stays (`store/db.py:61`). SQLite, with a rollback journal: the
first `SELECT` of a transaction takes the shared lock and keeps it to the end of
the transaction; a reader that would write while another writes is refused at
once; a commit waits for the readers; whoever waits longer than 30 seconds gets
an error (`Fail`, which may come at any time); DDL rolls back. GitHub: at most one job of
the group in progress and one waiting, which a newer one replaces. Twitch: may
give any answer at any time, and accepts the latest token it issued until that
expires or is revoked. A cursor is an offset into the list; it is never missing
before the end of the list and may be given at it. Get Games ignores case and
returns one category for a name, some of those so spelt, if there is any. A search
is one page, 20 items in the code, `SEARCH_PAGE_SIZE` in `Endpoints`: it lists the
categories spelt as asked before any others, all of them or as many as fit, and what
Twitch lists is valid. Steam: `game_count` is the number of games owned, and no
game is listed twice; it may leave games out, and of a private profile it shows
none and the count 0. `zoneinfo`: Pacific time is 7 or 8 hours behind UTC.

## The runs

| Run | Shows | Bounds |
|---|---|---|
| `collector_serial` | three jobs of the workflow implement `SampleLog`; one run per batch; timestamps fit tiers; a window slot is never taken by a baseline batch; a run gets nearer to its end with every step; every trigger ends, three being one in progress, one waiting and one to supersede it | instants 22:14, 22:16, 22:30 of a Tuesday: two window slots, and the baseline slot that has the timestamp of the first hour; two games; one row per statement, so a batch takes several |
| `collector_overlap` | a job and a manual run with every option, unserialised: keys unique, batches whole, successes visible, the library covered, last reading kept | the same, with lists that repeat a game and a library that changes |
| `cadence` | which slots a day samples, with two late or lost triggers anywhere; the window follows the local clock; the batch counts of the routine check | a stream day, a plain day and the day the clocks go forward; 92 or 96 triggers; delays of 0 and 14 minutes: the two ends of "late by less than the period" |
| `token_bucket` | the limit over any interval; one wait suffices | capacity 4, costs 1 and 3, pauses below and above a full refill, sleeps that return late |
| `helix_client` | no dead or rejected token is sent; every request is paced; each step of a call leaves it fewer; every call returns | three tokens; lifetimes on both sides of twice the margin, so that both branches of `min(margin, lifetime // 2)` are taken; the longest wait in the bucket and exchanges together stay within the smaller margin, as 10-second timeouts do within 300 |
| `migrate_together` | the recorded version never runs ahead of the tables; whoever is connected can use the database; a migrator that fails anywhere and is started again alone ends with exactly its schema; on a local file the newest version comes with exactly its schema, and nobody migrates under a process that read its own version | both backends; two processes of this release and one of the last, each started up to three times |
| `steam_sync` | two syncs implement `GameLibrary`; the library is that of one committed sync, whole; only a complete answer drops a game | two overlapping syncs, two games, one category or none; any part of the account left out, malformed or blank; the account changes at any time |
| `rank` | on a local file a report reads one state of the database, and a slot that has rows is only rewritten by force; on Turso too the series covers every sample a game was judged on; the owned section has what the main one has; nobody waits for one who waits; every command ends | two writers, one of them started twice, beside one report; one game; three days, windows of one and two, so that rows age during a report; a command line without a ceiling that hides what falls, and one whose ceiling is the minimum of the owned section |
| `resolve` | an item that keeps its page is read once, whatever moves round it, or the result says it is truncated; a match has all words of the name; no game goes to a case twin of its category; a spent budget costs no game that needs no search | lists of up to five items, one of them invalid, in pages of two: limits that end within the first page and within the second, and a list longer than `max_pages` pages; two games, any of six names, one of them with a parenthetical and two editions to strip; any part of seven categories with twins, duplicates and subtitles; pages of two results, which the three categories of one spelling overfill; budgets that last, run out, or are none |

Instances are small because the hazards are: two runs suffice for every race on a
slot, a third for a slot redone after a loss; two games for a batch of more than one
statement and a repeated entry. Where that argument is not enough, the theorems drop
the bounds. Type invariants are theorems only. `MCCadence` has the hypotheses of the
theorems about a day, and the two numbers of the routine check
(`src/docs/OPERATIONS.md:50`), as assumptions that TLC evaluates. `CHECK_DEADLOCK
FALSE` stands where a finite set of triggers, starts or calls is used up and the
system rightly stops.

Three runs check what the repository says and the code does not do; TLC finds
the counterexample (`PROJECT.json`, `findings`).

- `collector_flaky`: one flaky category does abort the sample, if its answer is
  not JSON or not valid (`collect/collector.py:10` against `:133`). Its source is
  errors that are no `TwitchError` (`twitch/client.py:66` against `:256`).
- `migrate_settled`: two first migrators, one lost between `CREATE watchlist`
  and its commit, leave the dropped table behind for good (`store/db.py:123`).
- `steam_blank`: an item whose name is a space is not skipped; it makes the
  whole sync fail (`steam/models.py:42` against `:45`).

The models also show some things that contradict no promise, and that a reader
of the code should know:

- after `--force` a batch may hold rows of two runs (`src/docs/DATA_MODEL.md`
  says so), so `NoPartialBatch` is about the rows a run read;
- the search tier may match a case twin, where the results lack the category
  spelt like the game (`steam/resolve.py:260`); the other tiers do not
  (`TwinNeverTaken`), as long as a page of results holds all categories of that
  spelling, since no second page is read (`twitch/client.py:191`);
- the averages of `rank` take in samples that found no channel, so one in which
  a category was empty counts for it (`rank/guards.py:23`);
- on a local file a commit needs the readers gone: a command that reads for
  longer than the busy timeout costs a collect run its batch (`store/db.py:35`). No
  property covers this: the models have no clock for the timeout, and `Fail`, which
  stands for it, may come at any moment or never.

### Fairness

`Collector!Fairness`: weak fairness of starting a waiting job and of each
process's own steps. GitHub starts the waiting job once the group is free, and
a live process executes; its loops are bounded (`TokenBucket`, `HelixClient`)
and its HTTP calls time out. Nothing has to be triggered, fail or crash, and a
job that is killed leaves the group. `HelixClient!FairSpec`: weak fairness of
the call's own steps, for the same reason. `Rank!Spec`: weak fairness of the
steps of each command, none of its failing: commands end because the locks let
them, not because the busy timeout or a crash ends them.

## The proofs

| Theorem | For every ... | Under |
|---|---|---|
| `CollectorProofs!TypeCorrect` | runs, lists, libraries, instants | the assumptions of `Collector` |
| `CollectorProofs!KeysAreUnique`, `BatchesAreWhole` | ditto, with manual and forced runs | |
| `CollectorProofs!SuccessesAreVisible`, `LastReadingsAreStored`, `WindowsCoverLibrary` | ditto | |
| `CollectorProofs!OneRunWritesABatch`, `WorkflowImplementsLog` | number of jobs | no manual runs |
| `CollectorProofs!TimestampsFitTiers`, `WindowIsNotPreempted` | ditto, and any aligned schedule | no manual runs |
| `TiersProofs!LateFireKeepsSlot`, `SlotFitsTier` | instant, schedule, date of the DST change | an aligned schedule |
| `CollectorProofs!RunsDoAdvance` | ditto, with manual and forced runs | finite libraries |
| `TiersProofs!DayIsTyped`, `RecoveryIsComplete`, `WindowHasNoRecovery` | schedule, set of days, delays, number of faults | an aligned schedule, and triggers at its boundaries |
| `TiersProofs!WindowFollowsTheClock`, `RoutineCheckCounts` | ditto, days of 23, 24 and 25 hours | ditto, and days from midnight to midnight |
| `TokenBucketProofs!TypeCorrect`, `AlwaysRateLimited`, `AcquireNeverGivesUp` | capacity, costs, pauses, oversleeps | costs within the capacity |
| `HelixClientProofs!TypeCorrect`, `RequestsArePaced`, `RejectedTokensStayDropped`, `CallsAdvance` | retries, tokens, lifetimes, waits | the assumptions of `HelixClient` |
| `HelixClientProofs!TokensArriveAlive` | ditto | the waits fit into the margin |
| `MigrateProofs!TypeCorrect`, `VersionIsBacked`, `ConnectionsAreUsable`, `VersionIsHeld`, `NewestLocalIsExact`, `RetriesAreHarmless` | number of processes, of any releases, and of starts, on both backends | the list `MIGRATIONS` of the code |
| `RankProofs!ReportIsOneSnapshot`, `NoSampleIsMissed`, `FilledSlotsAreKept`, `OwnedSectionFollows` | writers, games, batches, options, days | finitely many games |
| `RankProofs!CommandsDoAdvance` | ditto, on both backends | ditto |
| `ResolveProofs!MatchesAreWhole`, `TwinsAreTold`, `HitsAreFree` | games, names, categories, aliases, budgets | finitely many categories |
| `ResolveProofs!SettledIsReadOnce` | lists, page sizes, limits, numbers of pages | finitely many items |
| `SteamSyncProofs!TypeCorrect`, `LibraryIsLastSync`, `OwnedGamesStay`, `SyncImplementsLibrary` | overlapping syncs, games, categories | finitely many games |

The hypotheses, and why the code has them:

- *Aligned*: the window starts and ends on slot boundaries and clocks change on a
  whole hour. `StreamSchedule` does not demand the former; the deployed schedule
  has it, and without it `SlotFitsTier` is false.
- *No manual runs*: the concurrency group covers the workflow only. With a manual
  run two runs may share a slot, which `collector_overlap` lets happen.
- *Cadenced*: the trigger fires as often as a window slot is wide, at its
  boundaries, and a run starts before the next one. `collect/tiers.py:16` gives
  this as the reason for the granularity.
- *LocalDays*: a day runs from local midnight to local midnight, and if the clocks
  change in it they do so before the window opens. They change at 02:00, the deployed
  window opens at 18:30.
- *WaitsWithinMargin*: an exchange of a token, the sleep in the bucket and the way
  to Twitch together take no longer than `min(margin, lifetime // 2)`. The margin
  is 300 seconds, the HTTP timeout 10, a sleep in the bucket below one; a token
  lives for weeks. A lifetime of less than a minute would break it, and the
  property with it.

### The arguments

*Collector.* Type correctness is inductive. Keys stay unique because `Upsert`
removes the rows with the keys it adds (`StoreStep`), and a batch has one entry per
game. That one run writes a batch is not inductive: between the check and the
commit another process could fill the slot. The invariant `SerialInv` adds what
rules it out: at most one process is in progress (`Exclusive`); every row belongs to
a run that published it (`RowsOwned`); a process that passed its check sees its
timestamp empty until it commits (`StillEmpty`), which holds because of the first;
its slot came from the clock (`OnTheClock`). With it, a commit adds a whole batch
under a fresh timestamp, which is `SampleLog!Publish`; every other step, a crash or
an abort before the commit too, leaves the table as it is and maps to a stutter. That
is the refinement. In a window slot every game of the library, as
the run read it, is still to do, read, or failed (`Accounted`). The places of the list
are bounded (`Positioned`), so a game that was read has a last reading, and it is this
one that a commit stores. That no baseline batch is in the way of a window run needs
the order of time as well (`InOrder`): slots were resolved at an instant that has
passed, those in the table before that of the run which checks, and a baseline slot
that shares the timestamp of a window slot is resolved only after the window is over.

*A day of triggers.* A run that starts late resolves to the slot of its boundary
(`LateFireKeepsSlot`), so a step deals with the trigger that is due and no other
(`EveryTrigger`). The invariant `DayInv` says of every batch that it is the slot of a
trigger that has passed (`Past`). A window slot has its own boundary as timestamp, and
a slot never lies after its trigger, so no trigger before or after has that timestamp;
a baseline hour that is not stored has lost all its triggers so far, and no slot is
there twice (`OneOfEach`). So the batches of a day that lost nothing are the slots of
its triggers, and their timestamps are the window's boundaries and the whole hours
outside the window's. The counts of the routine check are the sizes of these two sets,
by bijections from `0..(n - 1)`: they hold for any aligned window in a day of any
length, and 16 slots, or 12 batches more than a day has hours, are its case for the
deployed one. Since the day ends at midnight and the clocks are done with changing,
the window's boundaries are where the local clock has them, which `WindowOnTheWall`
counts back from the end of the day.

*Bucket.* The invariant says how much is owed at each place of the loop: `tokens +
spent` is bounded by the capacity and what time has refilled, and a caller that
wakes up has slept for its whole deficit.

*Helix client.* The cached token is the latest issued and has drawn no 401
(`Latest`), since a 401 drops it and only an exchange, which issues a new one, sets
it. The cached expiry keeps the distance of the margin to the real one, less the
exchange that took place meanwhile (`Remaining`); `Alive` then says at each place
behind the check how much of that distance the bucket and the way may still take.

*Library.* A run writes only what it was shown (`games` of a run are among its
`truth`), and its rows appear at its commit, all of them: that is
`GameLibrary!Publish`, with or without the deletion that follows a complete answer.
Whatever ends a run before that is `GiveUp`, the answer of Steam is `Show`, and
all other statements, which the transaction hides, map to a stutter. How two runs
overlap does not matter, because each replaces the rows of its games at its own commit.

*Progress.* The three liveness properties have a part without fairness, and that part
is proved: `CallsAdvance`, `CommandsDoAdvance` and `RunsDoAdvance`. A measure of what is
left to do goes down with each step of the process itself and up with nobody's: a number
of steps for a call and for a command; the place in `run()` and two finite sets, of
games and of rows, for a collect run. Where a process may have to wait, whoever it
waits for does not: of the jobs of the workflow one waits, for one in progress; on a
local file the lock that a command waits for belongs to one that can go on, since
the only waits under a lock are the commit's for the readers, who wait for nothing once
they hold the shared lock, while one that would write is refused (`Refused`).

*Migrations.* On Turso what the first statements of a migration made is there while
the rest runs (`Halfway`), and no statement of any release takes away an object that
lasts (`LastingKept`), so neither a migrator that starts over nor one of an older
release undoes what a recorded version, or a connected process, relies on. On SQLite a
migration takes effect at its commit, as a whole, and only the last one drops
anything: whoever commits version 4 leaves exactly its schema, and whoever commits
less than that is not the newest. A process that had nothing to migrate still holds
the shared lock of its read (`LockOf`), which no commit passes; one that became
connected by its own commit holds none, so a migrator that read an older version may
then record a lower one, and `OwnVersionHeld` is not about it. A process that is alone
has, at each statement, a schema between the two versions in which all statements up
to this one have taken effect (`Retried`), also when it executes them for the second
time.

*Ranking.* On SQLite the reader holds the shared lock from its version check on
(`LockInv`), and a commit finds nobody else connected (`CommitAlone`). So the tables
stay as the first statement saw them (`Snapshot`); the clock moves, and ages the
rows counted and the rows of the window together (`AgedTogether`). The same lock, held
from `has_batch` on, keeps what an unforced run found empty empty until it writes
(`StillEmpty`). On Turso a commit replaces rows but takes no key away
(`SampledStays`), hence the series. That the owned section follows the main one
compares sums of viewers and channels over rows, which are numbers because a fold
over a finite set of numbers is one (`SumsAreNumbers`, by induction on the size of
the set, from the existence of a least counterexample).

*Resolution.* Whatever a step looks at, it accepts only a category that is spelt like
the candidate or is the only one so spelt but for its case (`Meant`; a page that has
room for all of these has them, `PageHasSpelt`), or, in the search tier, has the words
of a title or continues them (`Searched`). But for an alias every candidate and every
title has at least the words that `StripEdition` leaves (`StripPrefix`,
`OptionsAreForms`), and prefixes compose. For the budget: before the exact tier only
an alias resolves anything (`Ordered`), and in it a game that is named exactly by one
category has that category as its hit (`OwnHit`), which is taken without a search
(`HitTaken`).

*Pages.* What a page yields has every valid item of its part of the list once
(`ParsedYields`, by induction on the items parsed, which is how `_parse_items` goes
through them). While a list is walked, the cursor has passed over as many pages as
were read, and an item that was on the same page at every reading is in what was read
once if that page was among them, and not at all if not (`Walking`). The walk ends before
the item's page only at its cap: the number of pages that `limit` implies reaches as
far as the limit (`PagesForLimit`), and a list that goes on has a cursor.

### Only model-checked

Every safety and every action property of the runs that pass is a theorem. Left to TLC
are:

- Liveness: `EveryTriggerEnds`, `CallReturns`, `EveryCommandEnds`. What *Progress* above
  does not show is that a process which has not ended has a step to take (`ENABLED`)
  and that fairness makes it take it: both are out of the prover's reach.
- The three properties that runs refute, of which nothing is to be proved.

## Plan

Done: `Tiers`, `Collector` with `SampleLog`, `Cadence`, `TokenBucket`, `HelixClient`,
`SteamSync` with `GameLibrary`, `Migrate` on both backends with `SqliteLocks`, `Rank`,
`Endpoints` and `Resolve`; proofs of every property but those just listed.

Left for whoever changes the code: a new migration extends `MIGRATIONS` and the case
analysis of `MigrateProofs`; a window off the slot boundaries breaks `Aligned`, which
`MCCadence` evaluates; an order between two syncs (`steam/sync.py:92`), or a retry of
the games a batch missed (`collect/collector.py:135`), would turn a hazard that has no
property into a promise to state.

### Not modelled

- Configuration reads the environment once, before anything happens; the ranges
  it enforces are the assumptions of the modules.
- Argument parsing, logging, printing and the layout of a report change no state.
- The fields of single items and what their validation rejects: the modules know
  that an item is dropped, not why.
- Score, percentile, spike and the order they give a section: floating-point
  formulas over rows that `Rank` knows to be the right ones, and TLA+ has no
  floating point.
- `upsert_steam_games` and the read-only queries of the stores that no command
  calls.
