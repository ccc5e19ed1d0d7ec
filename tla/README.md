# A TLA+ verification of card-pulse

The repository holds two small running systems and some tooling:

* the `card_pulse` package (`src/src/card_pulse`): a health API and a
  Collection Worker, run as containers by `src/compose.yaml`;
* the database PoC (`src/scripts/db_poc`): a harness that runs the planned
  write path, with crashes, contention, backup and migrations, against
  PostgreSQL and MariaDB;
* repository tooling: the ruleset tool, the check runner, and validators for
  the roadmap, tool parity, links and ADRs.

The models are translated from the source. Paths below are relative to the
repository, `dbpoc/` stands for `scripts/db_poc/dbpoc/`.

## 1. Inventory

### Row builders and identifiers (`dbpoc/workload.py`, `dbpoc/ingest.py`, `dbpoc/generate.py`)
*State*: none of their own; `next_sequence` reads `ingest_run`.
*Operations*: `next_sequence`, `build_batch`, `write_batch`,
`materialize_artifact`, `_reparse_batch`, the generator's `gen_*`.
*Hard*: identifiers are packed (`seq * 60 + i`, attempts `2 *` that, within a
stride per writer), and a run continues after whatever the last run committed.
*Correct when*: rows of different batches, writers and runs never collide, and
a reparse rebuilds exactly the keys of the first pass.

### Ingestion writers (`dbpoc/ingest.py`, `bench.py`, `migrate.py`, `integrity.py`, `crash.py`)
*State*: the database rows, the artifact bodies on disk, for each process its
position, its open transaction and its pooled connection.
*Operations*: `daily_ingest`, `_writer`, `_insert_loop`, `reparse`,
`_concurrent_worker`; kill of a client, kill and restart of the server.
*Interaction*: through the server's unique indexes, foreign keys and waits.
*Hard*: two transactions with the same key; MariaDB's bulk statement that is
undone as a whole and retried row by row; a commit that is durable although its
client saw an error; a body torn by a kill.
*Correct when*: one observation per key, bodies before metadata, batches whole
or absent, transactions end.

### Collection Worker (`entrypoints/worker`, `adapters/*/health.py`, `runtime.py`, `settings.py`, `compose.yaml`)
*State*: the heartbeat file and its temporary file; the stop event; the
container's health status.
*Operations*: one cycle (probe the database, probe the storage, write the
heartbeat, wait), SIGTERM, the separate health-check process.
*Hard*: the check reads while the worker writes or after it was killed in the
middle; staleness limits against connection timeouts; a query without a limit.
*Correct when*: readers see whole heartbeats; a live worker is not taken for
dead and a hung one is found; a stop fits the grace period; outages are
reported.

### Review contention and deadlock checks (`dbpoc/integrity.py`)
*State*: `review_item` rows and their locks, the barrier and the queue between
parent and sessions.
*Operations*: `_review_decider`, `_deadlock_worker`, and the parent's judgement.
*Hard*: compare-and-set on `lock_version` under two products' rules; row counts
noted before a commit that may fail; circular waits; a session that dies.
*Correct when*: an item is decided once, the reported winner is the real one,
an undisturbed check passes, every check ends.

### Backup and restore (`dbpoc/backup.py`)
*State*: the directory of a product's backup set (two encrypted files, manifest,
artifact hashes, and dumps in plain text while they are made or restored), the
source database, the artifact bodies, the second instance.
*Operations*: `backup`, `restore`, `_verify_artifacts`.
*Hard*: the old set is removed first; basis time, dump, checksums, artifact
hashes and each row count are of different moments, and nothing stops the
writers; the loads' return codes are not looked at; numbers are compared.
*Correct when*: a restore that passes has the rows it claims, and a sound set
is accepted.

### Health API (`entrypoints/api`, `runtime.py`, `compose.yaml`)
*State*: where the main thread is, whether the server's thread accepts, the stop
event, one thread per request, the container's health status.
*Operations*: `serve`, `do_GET` with its three kinds of route, the health check,
SIGTERM and SIGKILL.
*Hard*: a frozen database holds request threads for ever; the main thread looks
at the dependencies after the server's thread was started and before the `try`;
the check has a limit of its own.
*Correct when*: slow dependencies do not make the container unhealthy, and a
stop is met before the kill.

### Migrations, roles and grants (`dbpoc/migrate.py`, `bootstrap.py`, `roles.py`, `alembic/`)
*State*: the database's objects and recorded revision, roles, grants, the probe
row of the role check, the command that runs.
*Operations*: `reset`, `create_roles`, `apply_grants`, `seed_dimensions`, the
steps `initial`, `compat`, `failing` and `downgrade`, `repair_partial`,
`check_roles`.
*Interaction*: a reader and a writer run beside the compatible migration; grants
are for the tables of the moment; the role check works on what the others left.
*Hard*: PostgreSQL runs an alembic command in one transaction, MariaDB commits
every statement; a command can fail or be killed between any two statements; an
attempt takes any error for a denial.
*Correct when*: the revision tells the schema; the repair leaves nothing of 0003;
grants are exact; a role check that passes means it.

### Benchmark and harness processes (`run_all.py`, `bench.py`, `ingest.py`, `crash.py`, `migrate.py`, `integrity.py`, `monitor.py`)
*State*: the step `run_all` has come to, the step's process, its children (processes
or threads), their queue and event, the server, the open rows of the crash check's
holder.
*Operations*: the 21 steps of the sequence, `daily_ingest`, `bench.run`,
`check_killed_client`, `check_server_crash`, `compat_migration`, and the checks of
`integrity.py` and `monitor.py` as far as they start children.
*Hard*: `queue.get()` with no limit, children that raise before they report or are
never started, a `stop.set()` that an exception passes by, events whose wait is not
looked at, processes that wait for their children and threads.
*Correct when*: a crash check that passes interrupted something; the sequence
comes to its summary.

### Timed checks (`dbpoc/monitor.py`, `integrity.check_lock_timeout`)
*State*: a holder's transaction, a waiter's wait, clocks, the check's sleep.
*Operations*: `detect_lock_wait`, `detect_long_transaction`,
`check_lock_timeout`.
*Hard*: a check looks for a wait of more than 5 s in the 6th second, and the
products count differently.
*Correct when*: prompt processes give a passing check, and an error that passes
is the lock's.

### Components not modelled
| Component | What makes it hard | Properties it should have |
|---|---|---|
| Corrections, reports (`dbpoc/queries.py`, `schema.py`, `report.py`) | order of ids against order of commits | the effective state is that of the last correction |
| Ruleset tool (`scripts/ruleset.py`) | check, apply and export agree | apply makes check succeed |
| Roadmap validator | depth-first search for cycles | finds a cycle exactly when there is one |
| Tool parity, links, ADRs | text parsing; write-then-check | a written file passes its check |
| Check runner, CI, domain and source packages | a fixed list of commands; empty packages | none: not modelled |

## 2. Modules

| Module | Models | Code |
|---|---|---|
| `Batches` | rows reduced to primary key, references and unique keys; the statements of a stored, a reparsed and a seed artifact | `workload.py`, `ingest._reparse_batch`, `generate.py` |
| `Ingestion` | the writers, the server's constraints and waits, commits, kills and restarts | `ingest.py`, `bench._writer`, `migrate._insert_loop`, `integrity._concurrent_worker`, `insert_observations` |
| `ObservationStore` | the abstract promise: keys confirmed once, observations traceable, bodies before artifacts, nothing removed | refined by `Ingestion` |
| `Worker` | worker, heartbeat file, health check, container runtime, with time in ticks | `entrypoints/worker`, `health.py`, `compose.yaml` |
| `ReviewLocks` | two sessions, row locks, barrier, queue, judgement | `integrity.py` 244-344 |
| `Backup` | the backup set on disk, its files one by one, `backup` and `restore` beside writers and faults | `backup.py` |
| `Schema` | the objects each migration creates and drops, and when a database refuses a statement | `alembic/versions` |
| `Migrations` | the operator's commands on a database, statement by statement: bootstrap, migrations and repair, grants, role check | `migrate.py`, `env.py`, `bootstrap.py`, `roles.py` |
| `ApiServer` | the health API's threads, its requests, its container, with time in ticks | `entrypoints/api`, `runtime.py`, `compose.yaml` |
| `Harness` | the sequence of steps, and the processes, threads, queues and events of the six that start some | `run_all.py`, `bench.py`, `ingest.py`, `crash.py`, `migrate.py` 84-195, children of `integrity.py` and `monitor.py` |
| `TimedChecks` | three checks that depend on how long things take | `monitor.py`, `integrity.py` 347-393 |
| `IngestionProofs`, `WorkerProofs`, `ReviewLocksProofs`, `BackupProofs`, `MigrationsProofs`, `ApiServerProofs`, `HarnessProofs`, `TimedChecksProofs` | theorems | |
| `MCIngestion`, `MCWorker`, `MCReviewLocks`, `MCBackup`, `MCMigrations`, `MCApiServer`, `MCHarness`, `MCTimedChecks` | small instances | |

`Ingestion` extends `Batches` and composes the five kinds of writers through a
`Kind` per process; `ObservationStore` is instantiated in `Ingestion` with a
refinement mapping. `Migrations` extends `Schema`. `Harness` looks at the same
writers as `Ingestion` from outside: there a process that dies loses rows, here
it loses a report. A definition whose comment begins "A slip" is a plausible
mistake in the definition after it. No specification uses it; the project's
mutants put it in that definition's place to show that a property would notice.

### How state and actions correspond to the code

**Ingestion.** `pc` is where a process is: `loop` between batches, `body`
inside `materialize_artifact` (the file truncated, not yet filled), `txn`
inside `with eng.begin()`. `todo` are the statements left, `pending` the rows
the open transaction has inserted, `bulk` what the running bulk statement has
inserted (MariaDB undoes these as a whole), `rowwise` the branch of
`insert_observations` that retries under savepoints. `Start` reads
`next_sequence`; `BeginBody`/`FinishBody` are the two halves of `write_text`;
`Execute` is one `executemany` of `write_batch`; `AppendObservation`,
`DoNothing`, `BulkDuplicate` and `SkipDuplicate` are what can happen to the next
observation; `Refuse` is a constraint error nobody expects; `WaitTimeout` is
MariaDB's lock-wait timeout (PostgreSQL has none). `KillServer` makes any
subset of the commits under way durable. `stale` marks connections the pool
still holds to a server that has gone: the next use fails, the one after it
connects anew.

`SeqOf` keeps a detail of the loop writer: its batch number is the number of
rows committed so far, so its ids advance by `BatchRows`.

**Worker.** `wpc` follows `run()`: `connect`, `query`, `storage`, the three
steps of `write_heartbeat` (`write`, `fill`, `replace`), `wait`. `Tick` is
enabled only when nobody has a step to take, so steps of code take no time and
waits do. `Check` is one run of the health check by the container runtime, with
its start period and retries. A restart keeps the file system, a new container
does not: `StartContainer` allows both. The compose file names no restart
policy, so `StartContainer` has no fairness.

**ReviewLocks.** `BeginContention` and `BeginDeadlock` choose the items as the
queries do (lowest pending id; two lowest ids). `owner` is the row lock,
`wrote` the transactions that have decided their target but not committed,
`broken` the state of `multiprocessing.Barrier`. The update that waited for a
lock is evaluated again when it gets it: PostgreSQL updates nothing
(`UpdateNothing`), MariaDB raises error 1020 (`ChangedSinceRead`). `Judge` and
`NoOutcome` are the parent; `NoOutcome` needs every session gone, because the
60 seconds of `queue.get` are longer than the barrier's 30 and the lock wait's
10 together. `main` runs checks one after another; `--only` and reruns make
every order possible, hence the nondeterministic choice.

**Backup.** Rows come and stay in whole batches, so a table is a set of batches
and `RowsOf` says which batches have rows in it. `dir` gives each file's state:
none, whole, or damaged (cut short by a kill, or rotten). `bpc` follows
`backup()` file by file; `RemoveFile` is `rmtree`, in any order. `dumped`,
`sums`, `hashes`, `counted` and `basis` are what the set's dump and manifest
hold. `Count` is one statement of `entity_fingerprint` on PostgreSQL, where each
has its own snapshot, and all of them on MariaDB, where the transaction has one.
`Picked` keeps the arithmetic of the sampling loop. `LoadsInPart` is a load
that lost any rows of any tables and goes on; `LoadFails` is one that raises
(`createdb` without its owner, `gzip`, a table that is missing). `CannotVerify`
is `_verify_artifacts` hashing a body that is not there. `late` remembers a
commit between the snapshot and the last count, for one property only.

**Migrations.** A column that comes with its table is part of the table; only
what the code adds or drops separately is an object of its own. A command is a
`job`: its `plan` is the list of statements left, worked off by `Statement`,
`AdminStatement` or `Attempt`, one at a time; `Killed` can come between any two,
and any statement of a migration can fail (`RunFails`). `Seen` is the
transaction's view on PostgreSQL (`job.view`, committed by `RunEnds`) and the
committed schema on MariaDB. `Continuation` is what `main` does after alembic has
ended, whatever its code. `ServesForeignKey` is MariaDB's rule about the last
index of a foreign key. `rows` is as much of the data as a statement can tell: no
table filled, seeded, cards seen once, a card seen twice (0003 fails by it).
`grants` on `"*"` are those on the whole database. `Allowed` is what `_attempt`
sees, `Entitled` what the grants say. `before` remembers what a command found.

**ApiServer.** `mpc` is where the main thread of `serve` is: `bind`, the first report
(`connect`, `query`), `wait` for the stop event, `closing`, or `raised`. `loop` is the
server's thread. A request's `phase` follows `do_GET`: queued in the socket, handled,
probing, headers sent, answered, or lost with the process. `db = "odd"` makes the
driver raise something that is not its own error, while it connects or while it waits
for the answer: neither is a health report, so the main thread ends (`MainRaises`) and
a request is dropped (`Raises`). `CheckFails` may also come while the process is in
`bind`, when nobody listens. `Tick` needs that nobody has a step to take.

**Harness.** `pc` is where the parent process of the running step is, `code` what it
will return. A child goes `begin`, `loop`, `flushing`, `ended`; a report is in `queue`
before its child can end (`multiprocessing.Queue` writes from a thread which the exit
waits for). `CanLeave` is the exit of a parent, which joins its children. The two
threads of `compat_migration` are no daemons either, so they are children with a loop
and no report (`Loops`). `integrity.py` and `monitor.py` start the children of one
check after the other (`HelpersStart`), and every wait of theirs for one has a limit:
a helper is one phase long and ends by itself, and what it does meanwhile is the
subject of `Ingestion`, `ReviewLocks` and `TimedChecks`. Starting a process or a
thread may fail (`BenchStartsSome`, `CompatStartsOne`), and so may starting a program
(`GoesOn`, `CompatFails`). `excuse` notes that the holder of a crash check was late or
the server was not killed, for one property only. `TimeLimit` is `run_all`'s ten
hours, taken only when nothing else can happen (`Stuck`): everything else in these
steps has a limit that is far shorter.

**TimedChecks.** Times are ticks since the check began. A process needs up to
`Start` ticks to its first statement, a wake-up with a connection up to `Step`.
`offset` is where the server's clock stood between two full seconds, as MariaDB's
tables have whole seconds only (`OlderThan`). `Limits` is the lock's time limit,
which InnoDB looks at once a second. `delay` and `since - started` remember what
was lost, for the property.

## 3. Runs

All with TLC, 2 workers; the time is seconds.

| Run | Instance | Distinct states | Time | Shows |
|---|---|---|---|---|
| `ingestion_writers` | daily, bench and loop writers, PostgreSQL, 2 rows a batch, 3 batches, 4 starts, 1 fault | 284 215 | 34 | `ArtifactBodiesStored`, `OnlyReparseRefused`, refinement of `ObservationStore` |
| `ingestion_reparse` | a reparse and two probes with one key, both products, 4 starts, 2 faults | 38 838 | 28 | `OneObservationPerKey`, `BatchesWhole`, `ProbesKeepOne`, `ReparseAddsNothing`, and the liveness property `TransactionsEnd` |
| `reparse_range` | a reparse, twice, no faults | violated | 1 | finding 1 |
| `worker_timing` | tick of 5/3 s: floor 9, connection 3, check every 9, start period 12, grace 6, 3 retries, interval 1 | 1 255 932 | 16 | the heartbeat, staleness, health and stop properties |
| `worker_reports` | both dependencies fail and come back | 294 924 | 19 | `OutagesReported` (liveness) |
| `worker_stuck` | same | violated | 3 | finding 2 |
| `review_locks` | three items, three checks in any order, both products, 2 faults | 49 746 | 6 | `DecidedOnce`, `WinnerIsTold`, `UndisturbedChecksPass`, `ChecksEnd` (liveness) |
| `backup_restore` | three batches (one there at first, one stored and one reparsed later), both products, samples of 1, 2 backups, 2 restores, 1 fault | 952 094 | 71 | `AcceptedRestoreAgrees`, `BasisCovered`, `SoundBackupAccepted`, `PlainTextGone` |
| `migrations` | both products, every order of all commands without limit, two grants given by hand | 1 152 954 | 62 | `RevisionTellsSchema`, `FailingStepCleansUp`, `OldQueriesSurvive`, `GrantsExact`, `RoleCheckHonest` |
| `api_server` | tick of 5 s: connection 1, check every 3 with limit 1, start period 4, grace 2; two clients and the check | 837 072 | 18 | `NeverUnhealthy`, `StopInTime` |
| `harness` | three readers, two writers, two batches a day, the two threads, two children of a check | 46 440 | 5 | `PassInterrupts`, `OnlyLostReportsHang` |
| `timed_checks` | ticks of 1/2 s: 5.5 s to a process's first statement, 3 s for a wake-up (the slowest machine of `MachineAssumption`), both products, three checks | 1 008 072 | 8 | `TimedVerdicts` |

### Properties
* `ArtifactBodiesStored`: a committed artifact row has its whole body, also
  when a killed writer left a torn file and the next run takes its number.
* `BatchesWhole`: a batch's rows are committed together, an observation left
  out as a duplicate has its key confirmed by another row, and every committed
  row's references are committed. The run's batches are those of the reparse and
  the probes, which can meet each other's keys; that it holds of the ordinary
  batches too is the theorem `BatchesAreWhole`.
* `OnlyReparseRefused`: writers that record an ingest run never meet a unique
  or foreign key error.
* `ProbesKeepOne`, `OneObservationPerKey`: `check_idempotent_concurrent`.
* `ReparseAddsNothing` (action property): no step ever confirms an observation
  from a reparse's range.
* `TransactionsEnd`: waiting for another transaction's key is never waiting in
  a circle, and the retry of a bulk statement ends.
* `ReadersSeeWholeHeartbeats`, `NeverStaleUnlessHeld`, `HealthyUnlessHeld`,
  `HangNoticed`, `StopEndsTheCycle`, `OutagesReported`: the worker.
* `DecidedOnce`, `WinnerIsTold`, `UndisturbedChecksPass`, `ChecksEnd`: the
  review checks.
* `AcceptedRestoreAgrees`: a restore that passes holds the counted rows table
  by table, although only numbers and a sample are compared.
* `BasisCovered`: it holds everything committed at the manifest's basis time,
  which `monitor.backup_age` measures from.
* `SoundBackupAccepted`: with no fault, only a commit between dump and
  fingerprint makes a restore fail. The manifest notes "Worker stopped for the
  backup window"; the property says what the window is.
* `PlainTextGone`: no decrypted file stays beside a set, but for a restore that
  raised or was killed.

* `RevisionTellsSchema`: on PostgreSQL the recorded revision says which objects
  exist, wherever a command failed or was killed; the repair that follows a 0003
  which succeeded is the one exception.
* `FailingStepCleansUp`: the failing step, run to its end, leaves nothing of 0003
  and takes nothing else away, also after killed attempts on MariaDB.
* `OldQueriesSurvive`: a reader that was answered before the compatible migration
  is answered all along (`0002`'s docstring).
* `GrantsExact`: on PostgreSQL a complete `apply_grants` leaves exactly its grants,
  whatever was granted by hand or left by a killed run.
* `RoleCheckHonest`: a role check that passes found every privilege right (but for
  the one it cannot see, observation 1); one that fails found a wrong one, or the
  remains of a killed check.
* `TypeOK` of `ApiServer` says beside the types that no request but one for the
  dependencies comes to the database (`do_GET`); that of `TimedChecks`, that no
  statement waits for a lock without the limit that its check has set.
* `NeverUnhealthy`, `StopInTime`: a frozen database neither makes the API's
  container unhealthy (`healthcheck.py`) nor holds its stop up, unless it was
  frozen while the main thread asked it, or the main thread had raised.
* `PassInterrupts`: a crash check that passes has interrupted an insert that was
  not committed, unless the holder was late or the server was spared.
* `OnlyLostReportsHang`: a step is kept until `run_all`'s ten hours are over only
  when a child of the benchmark raised or was never started, when the day's reader
  was never told to stop or is late with a report nobody takes, or when the
  compatible migration failed before its threads were told (observation 6).
  `integrity`, `crash`, `monitor` and the steps without children never are.
* `TimedVerdicts`: a check whose processes neither raise nor lose the second that
  the code leaves them passes, and a lock-timeout check that passes saw the lock's
  error. MariaDB leaves the waiter no such second: any delay may count.

### Bounds and why they are enough
* *Ingestion*: a collision needs two batches of one writer, one batch each of
  two writers, or a batch of an earlier run; three batches and four starts
  over three writers contain all of these. Two rows in a batch give every
  statement a first and a later row (`ReviewEvery = 2` gives one row with a
  review item and one without). One fault at any step is every crash point;
  `ingestion_reparse` allows a second fault during the recovery from the first.
  A stride of 100 only has to exceed the counters in use. The two products
  differ only in observation conflicts and lock timeouts, which need two
  transactions with one key: `ingestion_reparse` has them on both products,
  `ingestion_writers` has none and uses one product.
* *Worker*: the real ratios of floor (15 s), connection timeout (5 s), check
  interval (15 s), start period (20 s), grace (10 s, Docker's default) and
  retries. An interval of one tick is the case in which the floor of 15 s
  decides; the theorem covers every interval. The liveness runs shorten the
  waits, since they only ask what comes eventually.
* *ReviewLocks*: three checks let a decided item and a disturbed check precede
  another one; two faults kill both sessions or one session in two checks.
* *Backup*: two backups let a set be made over the remains of another, two
  restores let one follow a killed one; a commit before, between and after the
  snapshots needs two batches beside the first. One fault at any step is every
  crash point and every damaged file; the theorems have no such bound.

* *Migrations*: nothing is bounded: the commands come in any order for ever, and
  the state space is finite. Two grants by hand are one for a role that the role
  check cannot see and one for a role it can.
* *ApiServer*: the ratios of the code's limits in ticks of 5 s (the check's own
  limit of 3 s is rounded up to a tick). Two clients
  can hold a thread each while the check asks. The theorems have no such bound.
* *Harness*: with five children of the benchmark, some report while others have
  raised or were never started; a day of two batches can fail before its first and
  before its last; two helpers let one check's child outlive it into the next check.
  The theorems are about any numbers.
* *TimedChecks*: half a second tells a wait of 5.5 s from one of 6 s, where the
  products differ. The run has the slowest machine of `MachineAssumption` at this
  resolution, 5.5 s to a first statement and 3 s for a wake-up, and the assumption
  is tight: with half a second more of either, `TimedVerdicts` is violated. The
  theorem is about every resolution and every machine that is not slower.

### Fairness
* `Ingestion`: weak fairness of `Transact(p)` alone. Inside a transaction a
  client waits for nothing but the server, and the server answers a statement
  that is not blocked. Nothing is assumed of starts, faults, restarts of the
  server, or the lock timeout: when the server is down, the transaction ends
  with the lost connection.
* `Worker`: a process that can run does (`Cycle`, `GraceEnds`, `Check`), and
  time passes. No container is assumed to be started, no dependency to recover.
* `ReviewLocks`: the sessions run, the server's deadlock detection runs
  (`Victim`), the barrier's limit ends. The server's lock timeout is not relied
  on, and PostgreSQL has none.
* `Backup`, `Migrations`, `ApiServer`, `Harness`, `TimedChecks`: none. In
  `ApiServer` and `TimedChecks` time cannot pass a limit without the step that
  belongs to it, so what must happen in time is a safety property.

Deadlock checking is off in the runs of `Ingestion`, `Worker`, `ReviewLocks`,
`Backup` and `Migrations`, because a system whose bounded runs are over, or whose
repair was refused, really stops. It is on in `api_server`, `harness` and
`timed_checks`; `Ended` is the step of a run that is over.

## 4. Proofs

The modules with theorems, what each theorem states, and of which property of the
runs. `Spec` is always the component's own specification, and the constants are
any that its assumptions admit.

| Module | Theorem | Statement |
|---|---|---|
| `IngestionProofs` | `WritersTyped` | `Spec => []TypeOK` |
| | `ObservationKeysUnique` | `Spec => []OneObservationPerKey` |
| | `CommittedRowsStay` | `Spec => [][committed \subseteq committed']_vars` |
| | `BodiesStored` | `Spec => []ArtifactBodiesStored` |
| | `NoOrphans` | every committed row's references are committed |
| | `WritersImplementStore` | `Spec => ImplementsStore` |
| | `PromisesKept` | the writers keep `KeysConfirmedOnce` and `ObservationsTraceable` of the store |
| | `NoWriterRefused` | `Spec => []OnlyReparseRefused` |
| | `BatchesAreWhole` | `Spec => []BatchesWhole` |
| | `OneProbeKept` | `Spec => []ProbesKeepOne` |
| | `ReparsesAddNothing` | `Spec => ReparseAddsNothing` |
| `WorkerProofs` | `WorkerTyped` | `Spec => []TypeOK` |
| | `HeartbeatNeverStale` | `Spec => []NeverStaleUnlessHeld` |
| | `HeartbeatWhole` | `Spec => []ReadersSeeWholeHeartbeats` |
| | `OutagesKeepHealth` | `Spec => []HealthyUnlessHeld` |
| | `StopIsInTime` | `Spec => StopEndsTheCycle` |
| | `HangsAreNoticed` | `Spec => []HangNoticed` |
| `ReviewLocksProofs` | `ReviewTyped` | `Spec => []TypeOK` |
| | `ItemsDecidedOnce` | `Spec => []DecidedOnce` |
| | `DecisionsStay` | no step takes a committed decision back |
| | `TheWinnerIsTold` | `Spec => []WinnerIsTold` |
| | `UndisturbedPass` | `Spec => []UndisturbedChecksPass` |
| `BackupProofs` | `BackupTyped` | `Spec => []TypeOK` |
| | `PassedRestoreIsExact` | `Spec => []AcceptedRestoreAgrees` |
| | `PassedRestoreCoversBasis` | `Spec => []BasisCovered` |
| | `NoPlainTextLeft` | `Spec => [](PlainTextGone /\ PlainTextPlaces)` |
| | `SoundBackupPasses` | `Spec => []SoundBackupAccepted` |
| `MigrationsProofs` | `MigrationsTyped` | `Spec => []TypeOK` |
| | `RevisionIsTrue` | `Spec => []RevisionTellsSchema` |
| | `RepairLeavesNothing` | `Spec => []FailingStepCleansUp` |
| | `ReaderAnswered` | `Spec => []OldQueriesSurvive` |
| | `GrantsAsNamed` | `Spec => []GrantsExact` |
| | `RoleCheckTellsTruth` | `Spec => []RoleCheckHonest` |
| `ApiServerProofs` | `TypeCorrect` | `Spec => []TypeOK` |
| | `StopsInTime` | `Spec => StopInTime` |
| | `ContainerStaysHealthy` | `Spec => []NeverUnhealthy` |
| `HarnessProofs` | `HarnessTyped` | `Spec => []TypeOK` |
| | `PassedCheckInterrupted` | `Spec => []PassInterrupts` |
| | `OnlyLostReports` | `Spec => OnlyLostReportsHang` |
| `TimedChecksProofs` | `TimedTyped` | `Spec => []TypeOK` |
| | `VerdictsInTime` | `Spec => []TimedVerdicts` |

**`IngestionProofs`.** Assumes the types of the constants (`BatchesAssumption`,
with at least one row in a batch, and `IngestionAssumption`) and
`IdRangesAssumption`: writers that have ranges of their own, wide enough for the
batches of a run and not reaching into the seed's, which is how the callers choose
`writer_id` and `STRIDE`. `LoadAssumption` says that a batch has no more rows than an
artifact has numbers (60; `bench.py` does not check its option for that), and that
a probe finds the artifact it borrows. `OneObservationPerKey` speaks of committed rows and is
not inductive: two transactions could each hold the key and commit in turn.
`IndexesHold` strengthens it to all rows that are committed *or pending*: no two
clash in id or key. An insert keeps it because `Waits` covers the other
transactions' rows and `Clashes` the visible ones; a commit, rollback or crash only
moves or drops rows. The initial seed satisfies it by the arithmetic of the packed
numbers (`Apart`, `SeedCounters`, `SeedDistinct`).

`BodiesStored` needs the whole of `IInv`: a process writes the body of its next
artifact (`Ahead`) in its own range, behind every run committed there, so a body
that is torn now was never referred to, and each artifact row that is pending or
still to be inserted is one whose body is there (`BodiesKept`). References are kept
by every insert (`ParentsCommitted`), because the server refuses a row whose
parents are not visible, and what a transaction sees beside its own rows is
committed. `WritersImplementStore` maps each step to `Store!Confirm`,
`Store!StoreBody`, `Store!RewriteBody` or a stutter under the refinement mapping of
`Ingestion`. `PromisesKept` is about the writers themselves: what they have committed
has one observation a key, and each observation's artifact is committed and its body
on disk. It follows from `IInv`, not from the guards of the abstract store.

The last four theorems follow a batch row by row, with `BatchInv`. `Progress`: the
rows a transaction has left, those it has inserted, and the observations that others
have confirmed make up its batch, and what is left keeps the order of the tables.
So the parents of its next rows are among those it has inserted (`BatchParents`,
`ParentsAreThere`), and at its end the batch is whole (`OwnWhole`, `WholeRows`).
`Origins`: each committed row is the seed's or of a batch of some writer, and that
batch's run is committed too. `Unused`: a batch under way has a higher number than
every run committed in its range. Together they say that a row still to come clashes
with no committed row (`BatchIsNew`), because batches of different numbers and
writers of different ids have different ids in every table (`HomesApart`,
`OthersForeign`); that is why nobody but a reparse is refused. A connection that the
server has dropped is left out of `Progress` and `Unused` (`Active`): its commit may
be durable, and its writer does not know. `ReparseTurns`: a reparse finds no run in
its range, so it starts at its beginning every time (finding 1), and each
observation that it derives has a key that the seed confirmed (`ReparseConfirmed`).
`Turns` reduces the steps of the specification to what these parts look at.

**`WorkerProofs`.** `TimingAssumption` states what the code's constants are:
three missed cycles, and a floor of at least three connection timeouts.
`ScheduleAssumption` adds that a connection attempt is shorter than the check
interval and the grace period. `CycleFits` derives that interval plus connection
timeout stay within the limit. `AgeBounded` bounds the heartbeat's age at each
point of the cycle by what the timer has left: `age + timer <= Interval` while
asleep, and so on until a query has been held, which `wasHeld` remembers.
`HeartbeatWhole` needs that a file about to be renamed is filled. `InTime` relates
the same timer to the next check (`HealthKnown`: the first heartbeat is there before
a check counts, so `HealthyUnlessHeld`) and to what is left of the grace period
(`StopEndsTheCycle`). `HangCounted` says how many checks have failed by the time a
query has been held so long, which makes `HangNoticed` inductive.

**`ReviewLocksProofs`.** `LocksHold`: a transaction that has decided its target
is before its commit, holds the row's lock, and finds the row undecided. So a
second session cannot decide until the first has ended, and then its condition
on version and state is false. `DecisionsStay` follows from the same invariant.
`Named` adds what each session will report about its row, for `WinnerIsTold`.
`UndisturbedChecksPass` needs the joint positions of the two sessions: `Course`
(barrier and target), `ContentionRuns` (who has won, and what the other one finds)
and `DeadlockRuns` (one session in each item, a circle, one victim), as long as no
fault and no time limit came between.

**`BackupProofs`.** The properties speak of a verdict and are not inductive.
`IInv` follows the set from its basis time: the basis is in the dump
(`DumpAfterBasis`), the dump is in every count that is done
(`CountedAfterDump`), and a restored table is in the dump
(`RestoredFromDump`). A restored table is then a subset of a finite counted
one, and equal numbers make them equal. `Turns` keeps a verdict from outliving
its set. The argument rests on the source only growing, and on `main` running
one of `backup` and `restore` at a time. `JInv` is a second invariant over the
first, for the other direction: as long as no fault is counted, each file that a
step reads is there and whole from the dump to the load (`SoundBackupAccepted`), and
plain text lies only where `PlainTextOnlyInside` says. `PlainTextPlaces` spells out
what remains, and `NoPlainTextLeft` proves that there is nothing else. *Without a
manifest*: a backup under way until it has removed its second plain file, one that
failed or was killed before its manifest, or the rest of a set that the next backup
has begun to remove. *With a manifest*: a restore under way, or the last one
raised, whether it decrypted, loaded or verified at the time, or was killed. A backup
that fails before its manifest does leave a plain dump, and nothing but the next
backup removes it. (MariaDB's dump that is decrypted and not yet unzipped counts as
part of the dump.)

**`MigrationsProofs`.** The properties speak of commands that have ended; the
invariant says of a command under way what its remaining statements will do.
`Told`: on PostgreSQL the committed schema is one that its revision tells, and the
statements left lead from the transaction's view to such a schema (`EndsGood`), so
that it does not matter where the command is killed. `Repaired`: what is left of
0003 is exactly what the repair still drops. `Granted`: the grants given and those
still to give are together the ones `apply_grants` names. `Ordered` and
`GrantsPlaced` are about tables that grants and artifacts need. `Checking`: as long
as the role check has found nothing wrong, each attempt so far ended as it should,
apart from the one its own row masks; once it has, there is a wrong privilege or
the remains of a killed check to blame. `Verdict` keeps that after its end. The
lemmas `PathsUp` and `PathsDown` say what alembic's path between any two revisions
creates and drops.

**`ApiServerProofs`.** `ApiServerAssumption` has what the argument needs of the
limits: a connection attempt is shorter than the grace period, the interpreter's start
is not longer than the start period, and one failed check is not enough (two retries
or more). `StopFits`: while the main thread can still come to see the stop event, the
grace period has more left than its connection attempt. `Askers`, a part of `TypeOK`,
has that only requests for the dependencies are with the database. `Healthy`: a check
under way is answered before time passes, because its request has a thread of its own
and needs no dependency; so a check fails only while the process does not listen yet,
and at most one of these counts, at the very end of the start period.

**`HarnessProofs`.** `IInv` for `PassInterrupts`: the event is set only by a holder
that sleeps with its rows in an open transaction, and they stay open until the kill.
`HInv` for `OnlyLostReportsHang` counts: in the benchmark, the reports that were taken
are those of the children that have reported and are not in the queue. When the parent
waits on an empty queue and no child can act, all children have reported or one has
raised; in the first case the parent has counted them all and does not wait. A
benchmark that leaves has taken a report of every child, or one was never started
(`BenchLeaves`); a crash check has killed its holder, or leaves it asleep until it
wakes (`CrashRuns`); the checks of `integrity.py` and `monitor.py` have started
nothing but helpers, which end (`ChecksRun`, lemma `ChecksHang`). In the compatible
migration the event is set from `join` on, so threads that loop on without it belong
to a step that failed before (`CompatRuns`, lemma `CompatHang`). The crew is finite by
`HarnessAssumption`. The types need the counts too: that a parent never takes more
reports than it has children is part of `TypeOK`.

**`TimedChecksProofs`.** `MachineAssumption` is the slowest machine for which the
claims hold: less than 6 s to a process's first statement, at most 3 s for a wake-up.
The invariant has one clock for each actor: `HolderKeepsTime` (the lock is held for
exactly as long as the holder says), `CheckKeepsTime` (the sleep begins when the
holder was ready, but for `delay`), `WaiterKeepsTime` (it asks in time and waits no
longer than its limit; `Limited` is the limit itself, which `TypeOK` names). A lemma
about MariaDB's full seconds (`Aged`) then says when `OlderThan` must be true.

**Left to TLC.** Liveness and everything under fairness: `TransactionsEnd`,
`OutagesReported` and `ChecksEnd`. Every invariant and every action property that a
passing run checks is also proved.

## 5. Findings

1. *A second reparse does not continue its range* (`reparse_range`).
   `next_sequence` reads `ingest_run`, which `reparse` never writes, so a second
   reparse builds the first one's ids and is refused by the primary key of
   `processing_run`. Its docstring says it continues a writer's range "instead
   of colliding with an earlier run" (`dbpoc/workload.py:40`).
2. *A frozen database hides a storage outage* (`worker_stuck`). The connection
   attempt has a limit, `SELECT 1` has none. `application/health.py:43-44` says
   one unreachable dependency "never hides the state of the others".

### Observations
What the models showed that contradicts no sentence of the repository, so that it
is stated in the properties and not as a finding:

1. *Role check.* Once the worker's attempt has inserted its probe row, the backup
   role's attempt to insert the same row fails on its key, whatever its grants
   are; the check takes it for a denial (`roles.py:75`). `main` ends with code 0
   whatever the check found.
2. *Grants.* On MariaDB nothing revokes, so grants given by hand stay. On
   PostgreSQL `price_alert_rule` has no grants until `apply_grants` runs again.
3. *Migrations.* MariaDB refuses to drop `ix_observation_shop_observed`, by then
   the only index of a foreign key, so the downgrade of 0002 stops half-way. 0003
   on a database whose cards were seen once succeeds and is stamped; the repair
   then takes its objects away and leaves the revision at 0003.
4. *Health API.* An error of the first report that is not the driver's ends the
   main thread and leaves a process that does not react to SIGTERM
   (`server.py:110`). Responses under way at a stop are cut (`server.py:48`).
5. *Crash checks.* A holder that was late, or a server kill that failed, still
   gives a passing check, and the result names 25 rows that were rolled back.
6. *Harness.* Each of these holds the sequence up until the limit of ten hours,
   which ends it without a summary: a child of the benchmark that raises before its
   report, or that cannot be started while others run whose reports nobody takes
   (`bench.py:212`); a batch of the day that fails before the reader is told to
   stop, and a reader that is late with a report nobody takes any more; and a
   compatible migration that fails after it has started a thread and before
   `stop.set()` (`migrate.py:177`; the call is in no `finally`, and the threads are
   no daemons). A server that was left down ends it without a summary too, as the
   summary asks it for its settings.
7. *Timed checks.* On MariaDB, a waiter that needs part of a second to its first
   statement can be missed, as both ends are whole seconds. `check_lock_timeout`
   passes on any error.

## 6. What the models leave out

* Values of rows (prices, names, hashes, times). A content hash is a function
  of the artifact's id, so its unique key adds nothing. The table's base of an
  identifier is omitted: keys are compared within one table.
* The seed's history observations and review items, `reparse_batches` (nothing
  calls it), and batches of more than 60 rows (a hazard on the list).
* Two processes with one writer id; no caller starts them. Deadlocks between
  bulk inserts of observations: no two writers share more than one key.
* Storage of the daily runs of the two products in one directory, and tampering
  with files.
* Of the backup: the counts of constraints, the migration revision, the
  passphrase file, what the globals hold, changes of rows that stay (a review
  decision changes no count), and backup and restore at the same time.
* Steps of the system clock, the time limit of the health check itself, signals
  before the handlers are installed, invalid settings, and what a killed storage
  probe leaves behind.
* Of migrations and grants: the offline step, which changes no database; the
  downgrade of 0001, which no step runs; grants on sequences, the schema and the
  database; the network exposure that `roles.py` reports.
* Of the health API: what is answered, connections kept open for another request
  or never used, and handler threads that outlive the loop's end within `Close`.
* Of the harness: what is measured, the report files, and a second user of the server.
  A statement or a program that was started is taken to end: an alembic that waits on
  MariaDB for a table lock longer than ten hours, or a dump whose error output nobody
  reads, would hold a step up as well. That the children of a check end rests on the
  limits that `ReviewLocks` (`ChecksEnd`) and `TimedChecks` model. `run_all` itself is
  taken to be able to start its steps. Of monitoring: the probes that are one query
  and a comparison.
* `write_heartbeat` raising (`service.py:55`): the worker ends, and `compose.yaml`
  names no restart policy; the model's restarts cover what may follow.
* A server notices a killed client at once. The retry between two addresses of
  one host name is not modelled: the service name resolves to one.

## 7. Plan

Done: the modules of section 2, with the proofs above. Next, the most important
first:

1. An abstract "usable set" that `Backup` refines.
2. `Corrections`: the effective correction under concurrent commits.
3. `Tooling`: pure algorithms against reference definitions: cycles of the
   roadmap, ruleset check, apply and export, settings parsing.

Runs and properties are limited on purpose: one run for each question, and a
property only where a bug could break it.
