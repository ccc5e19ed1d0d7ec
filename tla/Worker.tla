------------------------------- MODULE Worker -------------------------------
(***************************************************************************)
(* The Collection Worker (entrypoints/worker/service.py), its heartbeat    *)
(* file, the container's health check (entrypoints/worker/healthcheck.py)  *)
(* and the container runtime that starts it, stops it and runs the check   *)
(* as compose.yaml says.                                                   *)
(*                                                                         *)
(* Time passes in ticks, and only while nobody has a step to take: the     *)
(* worker sleeps between cycles, waits for a connection that is not        *)
(* answered, or waits for the answer to its query.  Counters of time past  *)
(* stop at the first value at which nothing depends on them any more.      *)
(***************************************************************************)
EXTENDS Integers

CONSTANTS
  Interval,        \* CARD_PULSE_WORKER_INTERVAL_SECONDS
  MissedCycles,    \* MISSED_CYCLES_BEFORE_STALE
  MinMaxAge,       \* MINIMUM_HEARTBEAT_MAX_AGE_SECONDS
  ConnectTimeout,  \* DEFAULT_CONNECT_TIMEOUT_SECONDS
  CheckEvery,      \* compose: healthcheck interval
  Retries,         \* compose: failures in a row that make it unhealthy
  StartPeriod,     \* compose: start_period
  Grace,           \* time between SIGTERM and SIGKILL
  DbStates,        \* what may become of the database
  StorageStates    \* and whether the artifact root can be written

ASSUME WorkerAssumption ==
  /\ Interval \in Nat \ {0}
  /\ MissedCycles \in Nat
  /\ MinMaxAge \in Nat
  /\ ConnectTimeout \in Nat
  /\ CheckEvery \in Nat \ {0}
  /\ Retries \in Nat \ {0}
  /\ StartPeriod \in Nat
  /\ Grace \in Nat
  /\ DbStates \subseteq {"up", "refusing", "silent"}
  /\ StorageStates \subseteq BOOLEAN

(* The values of settings.py and health.py: three cycles missed, a floor of *)
(* 15 seconds, and 5 seconds to connect.                                    *)
ASSUME TimingAssumption ==
  /\ MissedCycles = 3
  /\ MinMaxAge >= 3 * ConnectTimeout

(* The schedule of compose.yaml: a connection attempt (5 s) is over before  *)
(* the first health check (15 s), and before a grace period is (10 s, what  *)
(* the runtime gives when nothing is said).                                 *)
ASSUME ScheduleAssumption ==
  /\ ConnectTimeout < CheckEvery
  /\ ConnectTimeout < Grace

VARIABLES
  db,         \* the database answers, refuses, or is frozen and says nothing
  storage,    \* the artifact root can be written
  wpc,        \* where run() is
  timer,      \* ticks left of its sleep or of its connection attempt
  seen,       \* what the probes of this cycle returned so far
  file,       \* the heartbeat file
  temporary,  \* the file next to it that write_heartbeat fills first
  age,        \* ticks since the heartbeat's checked_at
  held,       \* ticks this cycle's query has waited for an answer
  stop,       \* a signal asked the process to stop
  grace,      \* ticks left until SIGKILL
  sinceStart, \* ticks since the container started
  nextCheck,  \* ticks until the next health check
  streak,     \* health checks failed in a row
  health,     \* the container's health status
  wasHeld,    \* a query has waited since the container started (history)
  written     \* this process has written a heartbeat (history)

workerVars == <<wpc, timer, seen, held>>
fileVars == <<file, temporary, age>>
stopVars == <<stop, grace>>
checkVars == <<sinceStart, nextCheck, streak, health>>
historyVars == <<wasHeld, written>>
vars == <<db, storage, wpc, timer, seen, file, temporary, age, held, stop, grace,
          sinceStart, nextCheck, streak, health, wasHeld, written>>

Missing == [content |-> "missing", db |-> FALSE, storage |-> FALSE]
Torn == [content |-> "torn", db |-> FALSE, storage |-> FALSE]
(* A slip: the status is written where the check expects the whole record. *)
StatusOnly(report) ==
  [content |-> IF report.db /\ report.storage THEN "ok" ELSE "degraded",
   db |-> report.db, storage |-> report.storage]

Heartbeat(report) ==
  [content |-> "whole", db |-> report.db, storage |-> report.storage]

NoReport == [db |-> FALSE, storage |-> FALSE]

Bigger(a, b) == IF a >= b THEN a ELSE b

(* A slip: the floor for short intervals is left out. *)
MaxAgeWithoutFloor == Interval * MissedCycles

(* heartbeat_max_age_seconds *)
MaxAge == Bigger(Interval * MissedCycles, MinMaxAge)

(* After so long a wait the health checks have all failed.                  *)
HeldLimit == Bigger(MaxAge + 1, StartPeriod) + Retries * CheckEvery

(* Counting up to a limit. *)
Up(n, limit) == IF n < limit THEN n + 1 ELSE n

Down(n) == IF n > 0 THEN n - 1 ELSE 0

Running == wpc # "down"
----------------------------------------------------------------------------
Init ==
  /\ db \in DbStates
  /\ storage \in StorageStates
  /\ wpc = "down"
  /\ timer = 0
  /\ seen = NoReport
  /\ file = Missing
  /\ temporary = Missing
  /\ age = 0
  /\ held = 0
  /\ stop = FALSE
  /\ grace = 0
  /\ sinceStart = 0
  /\ nextCheck = CheckEvery
  /\ streak = 0
  /\ health = "starting"
  /\ wasHeld = FALSE
  /\ written = FALSE

(* The database and the storage fail and come back on their own.            *)
DbChanges ==
  /\ db' \in DbStates \ {db}
  /\ UNCHANGED <<storage, workerVars, fileVars, stopVars, checkVars, historyVars>>

StorageChanges ==
  /\ storage' \in StorageStates \ {storage}
  /\ UNCHANGED <<db, workerVars, fileVars, stopVars, checkVars, historyVars>>

(* The container starts, its first cycle at once.  What an earlier process  *)
(* left in the file system is still there, unless the container is a new    *)
(* one.                                                                     *)
StartContainer ==
  /\ wpc = "down"
  /\ wpc' = "connect"
  /\ timer' = ConnectTimeout
  /\ \/ UNCHANGED fileVars
     \/ file' = Missing /\ temporary' = Missing /\ age' = 0
  /\ UNCHANGED <<db, storage, seen, held, stopVars, checkVars, historyVars>>

(* The process ends, and the container with it; no health check runs until  *)
(* it is started again.                                                     *)
End ==
  /\ wpc' = "down"
  /\ timer' = 0
  /\ seen' = NoReport
  /\ held' = 0
  /\ stop' = FALSE
  /\ grace' = 0
  /\ sinceStart' = 0
  /\ nextCheck' = CheckEvery
  /\ streak' = 0
  /\ health' = "starting"
  /\ wasHeld' = FALSE
  /\ written' = FALSE
  /\ UNCHANGED <<db, storage, fileVars>>

(* probe_database *)
Connect ==
  /\ wpc = "connect" /\ db = "up"
  /\ wpc' = "query"
  /\ timer' = 0
  /\ UNCHANGED <<db, storage, seen, held, fileVars, stopVars, checkVars, historyVars>>

ConnectFails ==
  /\ wpc = "connect"
  /\ db = "refusing" \/ (db = "silent" /\ timer = 0)
  /\ seen' = [seen EXCEPT !.db = FALSE]
  /\ wpc' = "storage"
  /\ timer' = 0
  /\ UNCHANGED <<db, storage, held, fileVars, stopVars, checkVars, historyVars>>

(* SELECT 1 has no time limit: a server that is frozen between the two, its *)
(* connection open, is waited for.                                          *)
Answered ==
  /\ wpc = "query" /\ db # "silent"
  /\ seen' = [seen EXCEPT !.db = (db = "up")]
  /\ wpc' = "storage"
  /\ UNCHANGED <<db, storage, timer, held, fileVars, stopVars, checkVars, historyVars>>

(* probe_artifact_storage *)
ProbeStorage ==
  /\ wpc = "storage"
  /\ seen' = [seen EXCEPT !.storage = storage]
  /\ wpc' = "write"
  /\ UNCHANGED <<db, storage, timer, held, fileVars, stopVars, checkVars, historyVars>>

(* A slip: the heartbeat file itself is truncated and filled. *)
BeginWriteInPlace ==
  /\ wpc = "write"
  /\ file' = Torn
  /\ wpc' = "fill"
  /\ UNCHANGED <<db, storage, timer, seen, held, temporary, age, stopVars, checkVars, historyVars>>

(* A slip: the rename is lost when the file is there already. *)
ReplaceOnce ==
  /\ wpc = "replace"
  /\ file' = IF file = Missing THEN temporary ELSE file
  /\ temporary' = Missing
  /\ age' = IF file = Missing THEN 0 ELSE age
  /\ timer' = Interval
  /\ seen' = NoReport
  /\ held' = 0
  /\ written' = TRUE
  /\ wpc' = "wait"
  /\ UNCHANGED <<db, storage, stopVars, checkVars, wasHeld>>

(* write_heartbeat: truncate the temporary file, fill it, rename it.        *)
BeginWrite ==
  /\ wpc = "write"
  /\ temporary' = Torn
  /\ wpc' = "fill"
  /\ UNCHANGED <<db, storage, timer, seen, held, file, age, stopVars, checkVars, historyVars>>

FillTemporary ==
  /\ wpc = "fill"
  /\ temporary' = Heartbeat(seen)
  /\ wpc' = "replace"
  /\ UNCHANGED <<db, storage, timer, seen, held, file, age, stopVars, checkVars, historyVars>>

Replace ==
  /\ wpc = "replace"
  /\ file' = temporary
  /\ temporary' = Missing
  /\ age' = 0
  /\ timer' = Interval
  /\ seen' = NoReport
  /\ held' = 0
  /\ written' = TRUE
  /\ wpc' = "wait"
  /\ UNCHANGED <<db, storage, stopVars, checkVars, wasHeld>>

(* An OSError of write_heartbeat is caught by nobody.                       *)
WriteFails ==
  /\ wpc \in {"write", "fill", "replace"}
  /\ End

(* A slip: each address of the database is given the whole time to answer. *)
NextCycleTwoAddresses ==
  /\ wpc = "wait" /\ timer = 0 /\ ~stop
  /\ wpc' = "connect"
  /\ timer' = 2 * ConnectTimeout
  /\ UNCHANGED <<db, storage, seen, held, fileVars, stopVars, checkVars, historyVars>>

(* stop.wait returns when the interval is over or the event is set.         *)
NextCycle ==
  /\ wpc = "wait" /\ timer = 0 /\ ~stop
  /\ wpc' = "connect"
  /\ timer' = ConnectTimeout
  /\ UNCHANGED <<db, storage, seen, held, fileVars, stopVars, checkVars, historyVars>>

Stopped ==
  /\ wpc = "wait" /\ stop
  /\ End
----------------------------------------------------------------------------
(* docker stop: SIGTERM, and SIGKILL when the grace period is over.         *)
Terminate ==
  /\ Running /\ ~stop
  /\ stop' = TRUE
  /\ grace' = Grace
  /\ UNCHANGED <<db, storage, workerVars, fileVars, checkVars, historyVars>>

GraceEnds ==
  /\ Running /\ stop /\ grace = 0
  /\ End

(* The process is killed for a reason of the host's, at any step.           *)
Killed ==
  /\ Running
  /\ End

(* A slip: the check looks for a heartbeat, not at its age. *)
Present == file.content = "whole"

(* A slip: the check fails when the heartbeat reports an outage. *)
FreshAndHealthy == file.content = "whole" /\ age <= MaxAge /\ file.db /\ file.storage

(* healthcheck.main *)
Fresh == file.content = "whole" /\ age <= MaxAge

(* A failure in the start period does not count until a check has passed.   *)
Check ==
  /\ Running /\ nextCheck = 0
  /\ nextCheck' = CheckEvery
  /\ IF Fresh
     THEN streak' = 0 /\ health' = "healthy"
     ELSE /\ streak' = IF health = "starting" /\ sinceStart < StartPeriod
                       THEN streak ELSE Up(streak, Retries)
          /\ health' = IF streak' = Retries THEN "unhealthy" ELSE health
  /\ UNCHANGED <<db, storage, workerVars, fileVars, stopVars, sinceStart, historyVars>>

(* Nobody has a step to take: the worker sleeps or waits for the database,  *)
(* and no check and no SIGKILL is due.                                      *)
Idle ==
  /\ \/ wpc = "wait" /\ timer > 0 /\ ~stop
     \/ wpc = "connect" /\ timer > 0 /\ db = "silent"
     \/ wpc = "query" /\ db = "silent"
     \/ wpc = "down"
  /\ Running => nextCheck > 0 /\ (stop => grace > 0)

Tick ==
  /\ Idle
  /\ timer' = Down(timer)
  /\ age' = Up(age, MaxAge + 1)
  /\ held' = IF wpc = "query" THEN Up(held, HeldLimit) ELSE held
  /\ wasHeld' = (wasHeld \/ wpc = "query")
  /\ grace' = Down(grace)
  /\ sinceStart' = IF Running THEN Up(sinceStart, StartPeriod) ELSE 0
  /\ nextCheck' = IF Running THEN Down(nextCheck) ELSE CheckEvery
  /\ UNCHANGED <<db, storage, wpc, seen, file, temporary, stop, streak, health, written>>
----------------------------------------------------------------------------
(* What run() does next. *)
Cycle ==
  \/ Connect \/ ConnectFails \/ Answered \/ ProbeStorage
  \/ BeginWrite \/ FillTemporary \/ Replace \/ NextCycle \/ Stopped

Next ==
  \/ DbChanges \/ StorageChanges
  \/ StartContainer \/ Cycle \/ WriteFails
  \/ Terminate \/ GraceEnds \/ Killed
  \/ Check \/ Tick

Spec == Init /\ [][Next]_vars

(* Processes that can run do, and time passes.                              *)
FairSpec ==
  /\ Spec
  /\ WF_vars(Cycle) /\ WF_vars(GraceEnds) /\ WF_vars(Check) /\ WF_vars(Tick)
----------------------------------------------------------------------------
PCs == {"down", "connect", "query", "storage", "write", "fill", "replace", "wait"}

Files ==
  [content : {"missing", "torn", "whole"}, db : BOOLEAN, storage : BOOLEAN]

(* Types and bounds of the worker, its file and its health check            *)
(* (worker/service.py, worker/healthcheck.py).                              *)
TypeOK ==
  /\ db \in DbStates
  /\ storage \in StorageStates
  /\ wpc \in PCs
  /\ timer \in Nat
  /\ seen \in [db : BOOLEAN, storage : BOOLEAN]
  /\ file \in Files /\ temporary \in Files
  /\ age \in 0 .. MaxAge + 1
  /\ held \in 0 .. HeldLimit
  /\ stop \in BOOLEAN
  /\ grace \in 0 .. Grace
  /\ sinceStart \in 0 .. StartPeriod
  /\ nextCheck \in 0 .. CheckEvery
  /\ streak \in 0 .. Retries
  /\ health \in {"starting", "healthy", "unhealthy"}
  /\ wasHeld \in BOOLEAN
  /\ written \in BOOLEAN

(* Whenever the check runs, and wherever the worker or a killed worker      *)
(* before it is in write_heartbeat, the file is absent or complete.         *)
ReadersSeeWholeHeartbeats == file.content # "torn"

(* "A single slow cycle must not restart a healthy worker": while a worker  *)
(* that has written a heartbeat is kept waiting by nothing but slow         *)
(* connection attempts, the heartbeat never counts as stale                 *)
(* (heartbeat_max_age_seconds, probe_database).                             *)
NeverStaleUnlessHeld ==
  Running /\ written /\ ~wasHeld => age <= MaxAge

(* Nor does an outage of the database that refuses or ignores connections,  *)
(* or of the storage, ever make the container unhealthy.                    *)
HealthyUnlessHeld == Running /\ ~wasHeld => health # "unhealthy"

(* A worker that hangs in its query is found unhealthy in bounded time.     *)
HangNoticed == held = HeldLimit /\ wpc = "query" /\ nextCheck > 0 => health = "unhealthy"

(* A stop ends the current cycle within the grace period: only a worker     *)
(* that has been held in a query is killed by it                            *)
(* (install_shutdown_handlers).                                             *)
StopEndsTheCycle == [][GraceEnds => wasHeld]_vars

(* The heartbeat comes to say what the database and the storage are, when   *)
(* they stay so and the worker runs on.                                     *)
Reports(d, s) == file.content = "whole" /\ file.db = d /\ file.storage = s

OutagesReported ==
  \A d, s \in BOOLEAN :
    <>[](Running /\ db # "silent" /\ (db = "up") = d /\ storage = s)
      => <>[]Reports(d, s)

(* An unreachable database never hides the state of the storage: one that   *)
(* freezes and stays frozen does not keep a failing storage unreported      *)
(* (check_dependencies).                                                    *)
StorageOutageReported ==
  <>[](Running /\ db = "silent" /\ ~storage)
    => <>[](file.content = "whole" /\ ~file.storage)
=============================================================================
