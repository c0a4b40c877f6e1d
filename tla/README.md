# TLA+ specifications of minimoni

minimoni is a small monitoring daemon in C. One process samples the host every
few seconds, stores the sample in an SQLite file, consolidates and prunes that
file, evaluates alerts, and serves a dashboard over HTTP. The modules here
model the parts of it that carry state from one step to the next; TLC checks
them on small instances and TLAPS proves the main results for every instance.
Paths such as `src/db.c` are those of the repository.

## 1. Inventory

| Part | Code | State it keeps | Operations | What makes it correct |
|---|---|---|---|---|
| Metrics store | `src/db.c` | tables `metrics`, `alert_log`; the wall clock gives timestamps and cutoffs | `db_insert`, `db_consolidate`, `db_prune` | no sample lost or counted twice, buckets merged once and only when closed, a pass is all or nothing |
| Writer connection | `src/db.c`, used by `main.c`, `alerts.c` | five prepared statements, the SQLite transaction and snapshot, the WAL | reset, step, retry on `SQLITE_BUSY`, `BEGIN`/`COMMIT`/`ROLLBACK` | what is acknowledged is committed, locks are not kept over the sleep, contention passes |
| Alerts | `src/alerts.c` | `alert_log` in the file; loop index and `delivered` in the process | `alerts_evaluate`, `db_alert_on_cooldown`, webhook, command, `db_alert_log_fire` | cooldowns hold across restarts, an alert is silenced only by its own firing |
| Webhook client | `src/alerts.c`, `src/trust.c` | one connection, one deadline, the anchors and addresses of one delivery | resolve, connect, TLS, write, read | an end within the deadline, nothing left behind, one line for a failure |
| HTTP server | `src/http.c` | `sse_active`, `stopping`, a fixed pool of workers | request handlers, `sse_acquire`, `stream_loop`, `http_stop` | exact slot count, workers left for the API, a stop that completes, the database closed last |
| Range query | `src/http.c`, `src/downsample.c`, `src/db.c` | none between requests | parameters, `db_count_range`, `pick_bucket`, `db_query_range` | nearest bucket, bounded answer |
| Sampling | `src/metrics.c` | previous readings (statics), the reused `metrics_t` | `metrics_collect` | nothing stale stored, no byte in two rates, shares that add up |
| Serve loop | `src/main.c` | deadline, `shutdown_flag`, the connections and the server | start, sleep, cycle, signal handler, stop | one cycle per deadline, prompt stop |
| One-shot `collect` | `src/main.c` | the file | two samplings, then one cycle | as for the daemon, on a file it may share with it |
| Opening | `src/db.c` | schema, `application_id`, `user_version` | `db_open` | a stamp never promises what the schema lacks, and only its own schema is opened |
| minimoni-migrate | `src/migrate/*` | the file, its backups, an exit status | preflight, verify, snapshot, migrations, compaction | backup before the first write, honest exit status |
| Child process and pipes | `src/migrate/exec.c` | two bounded sinks, four descriptors, a child | pipe, fork, `drain_both`, wait | no deadlock with the child, output whole or cut at the end, nothing left over |
| `db exec` | `src/db_cmd.c` | the transaction a script is in | one statement after the other | a script is run whole or not at all, as its status says |
| Configuration | `src/config.c` | the `config_t` | parse, check, clamp; the retention from the ranges | what the other parts assume holds of every file accepted, and nothing usable in it is cut |
| JSON writer, units | `src/json.c`, `src/units.c` | a bounded buffer | append, escape | no overflow |
| Dashboard | `dashboard/*.js` | the last answer, the SSE source | fetch, reconnect | the newest answer wins |

How they interact. The daemon has one thread that runs the cycle (`main.c`: sleep,
sample, insert, consolidate, prune, read back, evaluate alerts) through one
read-write connection, and civetweb's workers, which read through a second,
read-only one. They share `stopping` and `sse_active`, and the file. A timer may
run `minimoni collect` on the same file; only SQLite's write lock orders the two.
`minimoni-migrate` works on the file through `minimoni db exec` children.

Hard behaviours: interleavings of processes on one file and of workers on one
counter; `SQLITE_BUSY` and what an unfinished statement leaves behind; the kill of
any process between any two steps; a wall clock that is set back; clients that
vanish; endpoints that are slow at every call; two processes joined by two pipes; signals
at every point of the loop; counters that wrap, reset or cannot be read. `PROJECT.json`
lists each as a hazard at its line.

## 2. Plan

Done, in this order: the store (SampleStore, Consolidation), the HTTP server, the
writer connection, alerts, upgrades, range queries, sampling, the serve loop, with
proofs for the store, the server, the connection, the alerts and the bucket choice;
then the delivery of a webhook, the configuration and the daemon's start and stop,
composed in ServeLoop, and `minimoni-migrate`'s child with its pipes, with proofs for
all but the configuration.

Then proofs of the rest of the store (its passes, its ladder, its refinement of
SampleStore), the order of the server's stop, upgrades, the size of an answer, and the
parts of a sample.

Last, the two that are about folds: the configuration, whose lists may be of any length,
and the bytes of any number of interfaces. With them every invariant that a passing
run checks is stated by a theorem, and what is left to TLC is liveness (section 6). Left to
model: nothing of the daemon's state that section 8 does not give a reason for.

## 3. Modules

Each `MC*` module extends the module it is named after with the model values of its
runs. A definition whose comment starts with *Mutant* is a deliberately wrong variant
of the definition after it, kept to show that a property can fail.

**SampleStore** is what the metrics table promises, without rows or transactions:
samples are stored, and expire when they are older than the retention, less the
coarsest resolution.

**Consolidation** is the table and the storing half of a cycle for any number of
processes. `rows` is the committed table; a row is its timestamp, its `bucket_sec` and
the set of samples its columns average. `work` is the table as the open transaction
sees it, `tier` and `verb` say which `INSERT` or `DELETE` of the SQL of
`build_consolidate_sql` is next. `InsertClock` and `Insert` are `db_insert` before and
after its reading of `time()`; `ConsolidateClock`, `Begin`, `TierInsert`, `TierDelete`,
`Commit` and `Rollback` are `db_consolidate`; `PruneClock` and `Prune` are `db_prune`.
Each has its failing form, `Crash` kills a process anywhere, `Tick` and `StepBack` move
the wall clock.

**WriterConnection** is the daemon's read-write connection. The code resets a prepared
statement when it next uses it, never when it is done with it, so what matters is the
set of statements that are `active` to SQLite, the snapshot they hold (`snap`) and what
has been written but not committed (`pending`). SQLite's rules are modelled as far as the
code meets them and marked external: a snapshot lives while a statement is active, a
write commits when no other write is active, `COMMIT` is refused while one is, a stale
snapshot cannot be upgraded, the automatic checkpoint is refused while the connection
itself reads. Other processes are `OtherBegin`, `OtherCommit`, `OtherRollback`.

**Alerts** is `alerts_evaluate` for any number of processes: `Prune`, then for each
alert `Skip`, `Suppress`, or `Fire`, `Webhook`, `Command` and `LogFire` or `Undelivered`.
`log` is `alert_log`, and `fired` a ghost that remembers every recorded firing.

**HttpServer** is civetweb's pool. A worker's `phase` says where it is: in
`sse_acquire` (`load`, `cas`), refusing, in `stream_loop` (`query`, `frame`, `wait`), or
releasing. A client's socket is `here`, `left` (its first write may still succeed) or
`reset`. `SetStopping`, `MgStop`, `Joined` and `CloseDb` are `http_stop` and what
follows it in `run_serve`.

**RangeQuery** is one `handler_metrics` after another over a table that grows: `Request`
takes the range and the points, `Count` and `Query` read the table at two instants, and
`Look` is one turn of the loop of `pick_bucket`. An interval that divides no bucket is in it
too, with the bucket `pick_bucket` falls back to. `Sizes`, of the properties, are the sizes
it has to choose from. The rows of a table are those of the daemon at one interval, former
or present; what `minimoni collect` stores in between is not in this module.

**Sampler** is `metrics_collect` between two moving kernels' counters: CPU ticks modulo
`Modulus` (2^64 in the code), bytes per interface, pages swapped. `mpc` is where the
collection is, `mono` the monotonic clock, `prev_*` are the statics of `metrics.c`, `m` the
`metrics_t` that `run_serve` reuses.

**Delivery** is one `post_webhook` at a time. `dpc` is where it is: resolving, between
two addresses, waiting for a connect, between two calls on the socket (`io`), in one
(`call`), closing. `tls` is whether the TLS exchange failed (`tls_failed`), and, as a
ghost, whether it did past the deadline (`cut`). `phase` is what the calls are for: the
write and the read of plain HTTP, or the handshake with the request, the reply and the
`close_notify` that BearSSL drives through `tls_sock_read` and `tls_sock_write`. A call
lasts as long as it likes up to `CallSeconds`, and the clock moves only during calls.
`held` is what has to be freed, `reported` how many lines were printed, `resolved` a
ghost: when `getaddrinfo` returned.

**Config** has no state: `config_open` and `config_load` are operators from a parsed
document to a `config_t` or a refusal, one operator per section of the file and in the
code's order, and `retention_days` is what `main.c` makes of the ranges. A document is
a record; keys copied by the same function are one key, and of a string there is
whether it fits, of an integer its value or that it is past `INT_MAX`. A loop over a list
that stops at what it refuses is a quantifier over the list; the one that keeps some of
its entries is a recursive function (`UsableOf`); and the names of charts are counted.
`IsDocument` is what the parser can hand over, with lists of any length, and is assumed of
the files ServeLoop starts with.

**ServeLoop** composes the two in `run_serve`: `Load`, `OpenDb`, `OpenReadonly`, `Started` or
`StartFails`; then the `while`: `Test`, the sleep, `Wake` or `Interrupt`, `Woken`, `Cycle`,
`Stored`, and for each alert `Skip`, or `Fire` with the steps of Delivery on the loop's own
clock, `Command` and `Settle`; then `Stop`. SIGTERM and SIGINT come at every step, and
SIGINT is ignored during an alert's command (`system`).

**MigrateExec** is `migrate_exec` and its child, `db_cmd_exec`, as two processes. `ppc`
follows the parent through `pipe`, `fork`, `drain_both` and `waitpid`, `cpc` the child through
open, prepare and step. Streams are counted: `due` is printed and still in stdio's
buffer or the child's hands, `wrote` is in the pipe or past it, `read` was read and `len`
kept. `begun`, `changed` and `committed` are the script's transaction. Stdio, the pipes and
the signals are external.

**Upgrade** is the file over versions: `db_open` creating or validating it (`dpc`), and
`do_migrate` with every combination of options (`mpc`), each killed between any two steps
and possibly running at the same time. Of the file it keeps schema and stamps; of each
backup the version it was taken at, its temporary file and the side files beside it.
The script of a step runs in a child, and what `do_migrate` learns of it may not be what
happened: it commits (`Apply`), it fails (`ApplyFails`), or it commits and the child is
killed before it exits, or `waitpid` fails (`ApplyUntold`; the ghost `lost` is 1 wherever
`migrate_exec` has no status of the child's to give). A killed `minimoni-migrate` may leave its
child behind: `orphans` are the steps still under way in such children, which commit
(`OrphanCommits`) or fail at any later time, beside the daemon or another run. `Commit` is
the script itself, whoever runs it. `applied`, a ghost, counts the steps of the run that
were committed.

ServeLoop is a composition by conjunction of actions, with a shared clock, and Consolidation
is tied to SampleStore by refinement. The rest is by interface: WriterConnection treats the
rows and the log as opaque, Consolidation and Alerts treat a statement as done or
failed, and RangeQuery reads any table that was filled at one interval, the present one
or a former one, and goes on at the present one. ServeLoop treats the sample of a cycle,
which is Sampler's, as taken.

## 4. Runs

Every run ends in under three minutes. Where a cfg sets `CHECK_DEADLOCK FALSE`, the
bounds on time or samples are what stops the model, or (HttpServer, ServeLoop) the
program itself has stopped.

| Run | Instance | What it shows |
|---|---|---|
| `Consolidation_two` | two processes, two tiers (2 s after 1 s, 4 s after 2 s), intervals 1 and 3, a v0 row, two samples, seven seconds | `NoSampleLost`, `NoDoubleCount`, `OneRowPerBucket`, `FreshNeverCoarse`; `PassComplete`: a committed pass leaves nothing that was due; `StoreSpec`: the table implements SampleStore |
| `Consolidation_back` | one process, the clock set back by up to 2 s at any step | `NoSampleLost` |
| `WriterConnection_cycles` | two alerts, a checkpoint due after three commits, three foreign transactions | alone: `AckedKeptAlone`, `WalCheckpointed`; with others: `HeldForUnfinished`, `InsertRecovers` |
| `Alerts_cooldown` | one process, two alerts, cooldowns 2 and 3, retention 3, seven seconds | `CooldownHonoured`, `NotSilenced` |
| `HttpServer_pool` | two workers, one stream slot, three clients, a frame every two seconds and a keepalive every one | `SlotsExact`, `ReserveKept`, `DbOutlivesWorkers`; `ApiAnswered`, `LeaverFreesSlot`, `StopCompletes` |
| `RangeQuery_bound` | five buckets with the ratios of `BUCKETS`, intervals that divide some, all or none of them, a former interval of 5, three ranges, up to five points | `ChosenNearest`, `TwiceOrFewest`, `AnswerBounded` |
| `Sampler_cycles` | two interfaces, three movements of any counter, two clock ticks, 3-bit CPU counters about to wrap | `NoByteTwice`, `StaleNeverStored`, `CpuShares` |
| `ServeLoop_stop` | 3,365 configuration files, of which those with an interval of up to 2 s are run: cycles of up to 1 s to store, a webhook with 2 s in all, 1 s per call, two addresses and a resolver of up to 3 s, and a command of 1 s; signals until 3 s, a clock until 15 s | `DriftFree`, `StopsAfterTerm`; of each delivery `EndsInTime`, `Released`, `SingleLine`; of each file `ConfigSound`, `ConfigWhole` |
| `MigrateExec_drain` | three scripts, pipes of 2 units, stdio's buffer of 2, rows and messages of 3, a caller's buffer of 4 for one stream and none for the other | `Returns`, `OutputExact`, `AllOrNothing`, `NothingLeft` |
| `Upgrade_safety` | two migrations, three kills, of migrate with or without its child | `StampTruthful`, `OpenedIsLatest`, `BackupBeforeWrite`, `ExitHonest` |

Two runs expect a violation; what they show is told in section 7.

| Run | Instance | Violates |
|---|---|---|
| `WriterConnection_lost` | one alert, two foreign transactions | `AckedKept` |
| `WriterConnection_stuck` | the same, with fairness | `EvaluatedUnlessLeft` |

Why the bounds are enough. Consolidation: two tiers are the least for a row to be
merged twice, and the seven seconds close both, prune the oldest row and leave time for
a pass of one process inside the other's cycle; interval 3 lies between the tiers, so
its rows skip the first. WriterConnection: the state does not depend on how many foreign
transactions there were, only on whether one is under way and whether one has committed
since the snapshot; three allow one to interrupt each of three uses of a statement.
HttpServer: with one slot and two workers both can be in the exchange at once, and a
third client waits in the queue. RangeQuery: the table is filled at the finest interval,
so the count exceeds and falls short of the points. Sampler: three movements are a
transfer, a reset hidden by another transfer, and any pair of wraps. ServeLoop: the
resolver (`MaxResolve`) may outlast the delivery's deadline, a cycle may outlast two
intervals (`MaxInterval`, `MaxStore`, `MaxCommand`), two addresses (`MaxAddrs`) are enough for
one to fail before the other, and `MaxSignal` leaves time under `MaxNow` for every stop to
complete; the configuration files put each number below, at and past each of its
limits, together with the keys of other sections that are read with it. MigrateExec: a row
does not fit a pipe, three (`MaxRows`) do not fit a pipe, stdio's buffer and the caller's, and
a message is longer than the second pipe. Upgrade: two
migrations are those there are, and three kills cover snapshot, migration and rerun, or
leave a child of each step behind and stop the run that meets it.

## 5. Fairness

* HttpServer: weak fairness of each worker's steps, for its thread is scheduled, and of
  taking a queued connection; strong fairness of the compare-and-swap, which may fail
  spuriously or to another worker but not for ever; weak fairness of `run_serve`'s stop
  once asked for. Clients are not fair: they may stay silent or never leave. A write
  to a peer that does not read is assumed to end, as civetweb's `request_timeout_ms`
  makes it.
* WriterConnection: weak fairness of the daemon's cycle, and of the end of a foreign
  transaction, which no process keeps open for ever.
* ServeLoop (`FairSpec`): strong fairness of `Tick`, since time passes whatever is tried in
  no time, such as sleeps that are interrupted over and over; weak fairness of the start
  and of the loop's own steps. Nothing is assumed of resolver, network and endpoint but
  the limits Delivery gives their calls, and no signal needs to come. It is assumed that
  sampling, SQLite and an alert's command end: the code puts no limit on the command.
* MigrateExec (`FairSpec`): weak fairness of the parent and of the child, each a scheduled
  process. That something fails is not assumed, nor that nothing does.

Consolidation, Alerts, Upgrade, RangeQuery and Sampler have no fairness: their
properties are safety properties.

## 6. Proofs

TLAPS checks each of these for every value of the constants that satisfies the named
assumptions of the module.

* **ConsolidationProofs**. For any ladder with positive buckets, any processes and any
  clock: `TypeCorrect`, `NothingLost`, `NothingTwice`, `PassAlwaysComplete`. `NoSampleLost` is
  not inductive: between a tier's `INSERT` and its `DELETE` the transaction's table counts
  samples twice. The invariant `Inv` therefore speaks of the rows the pending `DELETE` will
  spare, and says that they already partition what the committed table stands for; that
  the same instant `at[w]` is used by both statements is what carries it. It also needs
  that sample numbers are fresh (`Numbered`) and that nothing pruned is in the table.
  `PassInv` adds that the tiers a pass is done with hold no more row that was due at its
  cutoff: what a tier inserts is due only at a coarser one.
  For a clock that is not set back (`Monotonic`): `OneRowAlways`, `FreshAlwaysFine` and
  `ImplementsStore`. The hypothesis is needed: a row made by a pass is too fresh again once
  the clock is set back far enough, and its bucket may be merged a second time.
  `LadderInv` says of the table and of the transaction's copy that a merged row stands at a
  multiple of its bucket, which was closed at the threshold and holds its samples alone
  (`Shape`); that a bucket has one row (`Single`); and that no finer row starts in the
  bucket of a merged one (`Sealed`). The last is what makes the second hold after
  the next `INSERT`, and it rests on the divisibility of the ladder (`LadderAssumption`,
  with `NestedStart` and `NestedEnd`) and on `MaxStall` being no longer than the threshold: a
  row that waited for the lock is stored before its bucket closes. In the refinement, of
  the steps of a transaction only the commit is visible, and it changes no sample.
* **HttpServerProofs** (`TypeCorrect`, `SlotsAlwaysExact`, `ReserveAlwaysKept`,
  `DbAlwaysOutlives`). Any pool sized by `http_start`. `SlotInv` adds to the exact count that
  it never exceeds the limit, because a worker at the exchange has read a count below it.
  `Gone` says that the workers `mg_stop` has joined have left for good.
* **WriterConnectionProofs** (`KeptAlone`, `UnlockedAlone`, `LockExplained`). Any number of
  alerts. Until another process writes, only the cooldown check can be active and its
  snapshot is the latest, so `SQLITE_BUSY` cannot happen; `LockExplained` is inductive as it
  stands and holds with any number of foreign transactions.
* **AlertsProofs** (`CooldownKept`, `NeverSilenced`). `CooldownKept` for one evaluating process
  and cooldowns no longer than the retention: the invariant adds `RunningLogged` (a running
  cooldown has its row) and that a firing under way found none running. `NeverSilenced` for
  any processes and alerts of different names: every row of the log is explained by a
  delivered firing.
* **RangeQueryProofs** (`NearestChosen`, `TwiceAtMost`, `AnswerAlwaysBounded`). Any ascending
  ladder, interval, range and number of points; an interval that divides no bucket is among
  them, as the one size there is. `LoopInv` says that `best` is the nearest and
  finest of the buckets looked at so far. `AnswerAlwaysBounded` counts: rows at least `d`
  apart share no quotient by `d`, points of a bucket share none by its size, and a range of
  r seconds reaches into at most r / d + 2 of either (`OneEach`, by an injection into an
  interval). It has one hypothesis, `NeverDoubled`: no former interval was half the present
  one or less. Without it a table filled at the finer interval is answered raw, with as
  many rows as it has (`src/downsample.c`, 42), until they have left the range.
* **UpgradeProofs** (`StampAlwaysTruthful`, `OpenedAlwaysLatest`, `BackupAlwaysFirst`,
  `ExitAlwaysHonest`). Any schema version and any number of kills. The four hold together:
  `Found` says what a run knows of the file at each step, `Copied` what its copies are by
  then, `MadeInOrder` what a file the daemon is making can be, and `Behind` that the step a
  child left behind is at is not ahead of the schema. A run never goes on from a file half
  made; a stamp the daemon puts late is that of the latest schema, at which a run changes
  nothing; and a child left behind that commits under a run moves the file past what the
  run found, so that the run's own next step fails, and cannot commit once the run has
  committed one.
* **ServeLoopProofs**, of a delivery (`AlwaysInTime`, `AlwaysReleased`, `AlwaysOneLine`). Any
  deadline, timeouts and number of addresses. `IInv` has four parts: `Typed`; `Timely`, that
  a call under way began in time and therefore is over before the deadline plus its
  timeout; `Holds`, what is held at each place; `Lines`, that nothing was printed on the way
  except by a failed TLS exchange, after which no reply is read, and by that one unless it
  failed past the deadline.
* **ServeLoopProofs**, of the loop (`LoopInTime`, `LoopReleased`, `NoDrift`). `Apart` says that a
  delivery is under way only at the place in the loop that makes it, which carries `IInv`
  over to the loop. `NoDrift` rests on `Scheduled`: `next` is (`cycles` + 1) intervals after the
  start and is past when a cycle begins. That an accepted file has a natural number for an
  interval (`IntervalsSound`) comes from the configuration, below.
* **ServeLoopProofs**, of the configuration (`AcceptedIsSound`, `AcceptedIsWhole`). Any
  file the parser can hand over (`IsDocument`) and any limits. `Loading(c, d, K)` is what
  holds of the `config_t` between two sections: the numbers are within their limits,
  every range is usable at the interval there is, every alert has an action, the keys of
  `K` have been copied, and whatever was too long has set `too_long`, which no later
  section takes back. One lemma for each section (`ServerLoads` to `ClampLoads`) shows
  that it keeps this, and `DocumentLoads` takes a document through them in order. The
  order matters in two places: `Interval` comes while the ranges are still the defaults,
  which suit any interval, and `Clamp` last, when `too_long` is complete.
  `AcceptedIsWhole` is about the strings, the alerts and the ranges that are usable; that
  a range which is not is left out is what the code does, and `NoneDropped` (section 7) says
  where the documents say otherwise. `LoadedKept` is main.c's retention: a range is
  within the days it begins (`MinutesBegun`, `HoursBegun`, `DaysBegun`), and `Max` of
  them is one of them.
* **ServeLoopProofs**, of the sample a cycle takes (`NothingStale`, `SharesAlwaysWhole`,
  `NoByteTold`). Any
  interfaces and counters. `FreshInv` says which parts of the `metrics_t` are this cycle's
  from which step on. `ReadInv` says that the CPU counters are ahead of the last reading,
  modulo what they wrap at, by no more than there were ticks; with fewer ticks than they can
  count (`MaxEvents < Modulus`, 2^64 in the code) the sum of the differences does not wrap.
  `NoByteTwice` alone is not inductive, for a reading may be under way: `Accounted` says that
  the bytes told, those in the `metrics_t` still to be stored (`Pending`) and those by which
  the interfaces are ahead of the last reading (`GrowthIn`) are together no more than those
  moved. That a transfer raises the sum over the interfaces by one and a reset never does
  (`TotalGrows`, `TotalFalls`) is shown by counting: the sum is the number of pairs of an
  interface and a unit (`SumIsCount`).
* **MigrateExecProofs** (`AlwaysExact`, `AlwaysAllOrNothing`, `AlwaysNothingLeft`). Any sizes of
  pipes, buffers and output, and any script that is wrapped in a transaction or a single
  statement. `PInv` relates the two processes: which descriptors each still has
  (`Lives`), that a stream no longer polled has ended and was read to its end (`Flow`), what
  a sink keeps, and what a returned status says of the child (`Told`). `ScriptInv` says what
  the first statements of a script have done to the transaction.

The induction theorems of the library take an operator as a parameter, which no prover
here can instantiate. Where a proof needs an induction over data, it takes the least
counterexample instead: the counterexamples are a set, and a set of naturals or of subsets
of a finite set that is not empty has a least member (`LeastNumber`, `LeastSubset`, from the
library's theorems on well-founded relations). So are proved what `UsableOf` keeps of a list
(`UsableOfType`), that `Max` is what it says (`MaxIs`), and what the community modules' fold
makes of a sum (`SumIsCount`).

Only model-checked: everything under fairness, for liveness is beyond the prover
(`InsertRecovers`, `WalCheckpointed`, `ApiAnswered`, `LeaverFreesSlot`,
`StopCompletes`, `StopsAfterTerm`, `Returns`). `OneRowPerBucket`, `FreshNeverCoarse` and
`StoreSpec` have no run with a clock that is set back, for there they do not hold. Proved
without a run of their own: the type invariants of the store and of the server, and
`SleepsUnlocked` (theorem `UnlockedAlone`).

## 7. Where the code and what is said of it differ

Two runs expect a violation.

* `WriterConnection_lost`. A `DELETE` of `db_prune` that meets `SQLITE_BUSY` is left
  unfinished (`src/db.c`, 390). While it is active the next cycle's `INSERT` does not commit,
  though `db_insert` returns 0, and `db_consolidate`, whose `COMMIT` is refused, rolls it back.
* `WriterConnection_stuck`. `db_alert_on_cooldown` leaves its `SELECT` at its row
  (`src/db.c`, 428), which holds the snapshot. Once another process commits, no write can
  start from it: `db_insert` fails in every later cycle, and the cycle ends before the
  check that would reset it. `EvaluatedUnlessLeft` is about the behaviours in which no other
  write is left unfinished, so that nothing but the check can hold the snapshot.

More of what the repository says does not hold of the models. The modules state it as
below; no run checks these formulas, and TLC finds each violated on the instance named.

| Formula | Instance |
|---|---|
| `EvaluatedUnlessChecked` (WriterConnection) | that of `WriterConnection_stuck` |
| `CooldownHonoured` (Alerts) | that of `Alerts_cooldown`, with `Procs = {p1, p2}` |
| `CapKept` (RangeQuery) | that of `RangeQuery_bound`, with no former interval, `FirstRange` the one range, and: interval 1, range 56, `MaxPoints` 10, `Start` 60, `MaxNow` 62; or interval 7, range 70, `MaxPoints` 5, `Start` 80, `MaxNow` 94; or interval 4 after a former 1, range 40, `MaxPoints` 10, `Start` 44, `MaxNow` 52 |
| `EachReported` (Delivery) | that of `ServeLoop_stop`, with `Spec` and `Docs <- Running` |
| `NoneDropped` (ServeLoop) | that of `ServeLoop_stop`, with `Spec` and `Docs <- Numbers` |
| `RolledBack` (Upgrade) | that of `Upgrade_safety`, with `MaxCrashes = 0` |

* `EvaluatedUnlessChecked`. "Alerts are evaluated after every collect cycle" (README), without
  any cooldown check: a `DELETE` of `db_prune` left at `SQLITE_BUSY` (390) keeps the
  read transaction open in which `db_current` then reads, and its snapshot goes stale.
* `CooldownHonoured`. The cooldown is checked before the deliveries and recorded after them
  (`src/alerts.c`, 594 and 611), and `minimoni collect` evaluates alerts as the daemon does
  (`src/main.c`, 148 to 155). Two processes on one file both pass the check and both deliver,
  where the README says that "the alert will not fire again until the cooldown period has
  elapsed".
* `CapKept`. ADR-0005 says that "a range within the ladder yields at most the `points` cap
  (1,440)". It may yield more in three ways. The nearest bucket may be the finer of two
  (`src/downsample.c`, 51): 60 h at the default interval and 1,440 points are answered in
  1,800. An interval that divides no bucket, such as 7 s, is taken for the bucket (57): over
  12,000 points for a day. And a range is answered raw when it would make few enough rows
  at the interval there is now (42), though the table may hold those of a finer one: up to
  86,400 for a day after 1 s was raised to 60.
* `EachReported`. A TLS exchange that fails past the deadline prints nothing, since
  `src/alerts.c`, 508, prints only in time and 526 returns; the comment at 399 says "Any
  failure returns 0 and is reported in a single line", and the repository's README that
  a delivery over 10 s is "given up and reported". A failure in time is reported, and a
  deadline met by plain HTTP too: `SingleLine` holds.
* `NoneDropped`. A range past the limit of its unit is skipped with a warning and the
  file loads (`src/config.c`, 645), where the README says "A value past its limit is never cut
  or dropped: the config fails to load". The README's own paragraph on `ranges` speaks of
  values that are invalid or skipped, so one of its two places is wrong.
* `RolledBack`. `do_migrate` takes every `rc` other than 0 for a step that was rolled back
  (`src/migrate/main.c`, 269). `migrate_exec` also returns -3 for a child that was killed after
  its `COMMIT`, and -1 when `waitpid` fails: the step stays, and the exit status is 2, "when a
  migration step fails and is rolled back" (README), with the message "transaction was
  rolled back". `ExitHonest`, which holds, says it of the runs in which the child's status
  was there to be read.

The properties that pass carry conditions where the documents state none. Outside of
them the models behave as follows.

* `CooldownHonoured` needs `Retention` no less than every cooldown, since `db_prune` trims
  `alert_log` by the metrics' retention, and one evaluating process, since the check and the
  record are apart by the delivery. `NotSilenced` needs different names, since `alert_log`
  knows an alert by its name. Giving the constants of `Alerts_cooldown` other values shows each.
* `WalCheckpointed` needs that no cooldown check is made: after one, the snapshot it holds
  keeps every automatic checkpoint of the connection from running.
* `OneRowPerBucket` needs a clock that is not set back, which ADR-0005 accepts.
* `CpuShares` needs counters that do not fall; `iowait` may (proc(5)), and the user share
  can then exceed the whole.
* `TwiceOrFewest` and `AnswerBounded` bound an answer by twice the points asked for or by the
  fewest points any size makes. For an interval that divides no bucket the second is the
  rows of the whole range. `AnswerBounded` is proved where no former interval was half the
  present one or less, which the instance of `RangeQuery_bound` keeps to.
* `PassComplete`: a pass takes an old row through every tier, where a comment in
  `src/migrate/consolidate.c` says that the cascade advances at most one tier per pass.
* `ConfigWhole` is about strings, alerts and ranges. A range that is malformed, past its
  unit's limit or shorter than the interval is left out (the last with the README's
  word for it), an interval over 3600 is clamped (`src/config.c`, 452; the README says so), and
  a `max_dashboards` over 256 is replaced by the default. Charts and cards past their limit
  are left out without a word (575 and 594), where the README says "A value past its limit
  is never cut or dropped".
* `src/config.h` says that `config_open` "Always returns 0 when explicit_path is NULL"; a
  `./config.toml` that does not load makes it return -1.
* When the second step of a migration chain fails, the message names a backup by that
  step's version (`src/migrate/main.c`, 279), and the only backup was named by the version
  the run started from.
* A daemon killed between creating the file and stamping it leaves a file without
  `application_id`, which `db_open` and `minimoni-migrate` then refuse; and a compaction that
  fails is not made up for by a second run of `minimoni-migrate`.
* A daemon killed between the two stamps leaves `application_id`, `user_version` 0 and the
  latest schema, of which `StampTruthful` says nothing. `db_open` refuses it from then on;
  `migrate_preflight` takes it for a v0.1 database, which `verify_schema` refuses and, with
  `--force`, the first script fails on.
* `Inspect`, an operator who opens a backup, may come at any time but between the removal
  of the old copy's side files and the rename; side files left in that window would lie
  beside the new copy (`src/migrate/snapshot.c`, 103 to 118).
* Of the children a killed `minimoni-migrate` leaves behind, those of its steps on the
  database are modelled. One in `VACUUM INTO` goes on filling a temporary file, which the
  next run removes or which makes its own `VACUUM INTO` fail; one of a dry run works on a
  copy of its own.

## 8. Not modelled

* `trust.c`: one file through BearSSL's decoders into allocated memory. Delivery keeps
  that there are anchors or not, and that they are freed.
* The gauges of `metrics.c` (load, memory, disk, temperature), `units.c`, `json.c`, `db info`:
  stateless conversions and reports. `json.c` is text put together byte by byte in a
  bounded buffer by one thread.
* The warnings of `config.c`, among them the search for the key an unknown one was meant
  to be.
* `minimoni collect` as a process of its own: it is a writer of Consolidation and an
  evaluator of Alerts, and its start is that of ServeLoop without the server.
* The dashboard's JavaScript.
* What an answer or an alert says; logging; civetweb, SQLite, BearSSL and tomlc17, which
  are third-party and appear only as far as the code's use of them requires.
* Storage faults that SQLite itself does not report, and a power loss, against which its
  journal is trusted.
