------------------------------ MODULE Harness ------------------------------
(***************************************************************************)
(* The sequence of the proof of concept (run_all.py) and its steps.  A     *)
(* step is one operating-system process, the parent.  Six start processes  *)
(* or threads of their own: bench.py, ingest.py's day, integrity.py,       *)
(* crash.py, the compat step of migrate.py and monitor.py.  The children   *)
(* report through a queue or an event; none is a daemon, so a parent that  *)
(* leaves waits for those that have not ended.  To start a process, a      *)
(* thread or a program may fail, but for the steps themselves; a statement *)
(* or a program that was started (alembic, a dump) is taken to end.        *)
(***************************************************************************)
EXTENDS Integers, Sequences, FiniteSets

CONSTANTS
  Readers,   \* children of bench that query (--readers)
  Writers,   \* children of bench that insert (--writers)
  DayReader, \* the child of daily_ingest
  Holder,    \* the child of crash.py that never commits
  OldReader, \* the thread of compat_migration that queries
  OldWriter, \* the thread of compat_migration that inserts
  Helpers,   \* the children of the checks of integrity.py and monitor.py
  Batches    \* the batches of a day

BenchCrew == Readers \cup Writers
Loops == {OldReader, OldWriter}
Children == BenchCrew \cup Loops \cup Helpers \cup {DayReader, Holder}

ASSUME HarnessAssumption ==
  /\ DayReader # Holder /\ OldReader # OldWriter
  /\ {DayReader, Holder} \cap (BenchCrew \cup Loops \cup Helpers) = {}
  /\ BenchCrew \cap Loops = {} /\ Helpers \cap (BenchCrew \cup Loops) = {}
  /\ IsFiniteSet(Readers) /\ IsFiniteSet(Writers) /\ IsFiniteSet(Helpers)
  /\ Batches \in Nat

VARIABLES
  all,         \* run_all: running, ended with exit code 0 or 1, or without a summary
  at,          \* the step it has come to
  anyFailed,   \* a step returned another code than 0
  server,      \* the database server
  pc,          \* where the parent is
  code,        \* what it will return
  child,       \* where each child is
  queue,       \* children whose report is in the queue
  got,         \* reports the parent has taken out
  left,        \* batches of the day still to write
  event,       \* stop (daily_ingest, compat_migration) or ready (crash)
  round,       \* crash: 1 kills the client, 2 the server
  open,        \* the holder's rows are in an open transaction
  interrupted, \* the kill came while they were (history)
  excuse,      \* why a check of crash.py may have interrupted nothing (history)
  verdict      \* what the last check of crash.py says

runVars == <<all, at, anyFailed>>
crashVars == <<round, open, interrupted, excuse, verdict>>
stepVars == <<pc, code, child, queue, got, left, event, crashVars>>
vars == <<runVars, server, stepVars>>

(* The steps of run_all.main, in its order.                                *)
Steps ==
  << "roles-create", "reset", "migrate-initial", "migrate-offline", "grants", "seed", "load",
     "ingest-daily", "restart", "bench-cold", "bench", "integrity", "crash", "ingest-reparse",
     "migrate-compat", "migrate-failing", "roles", "backup", "restore", "monitor",
     "migrate-downgrade" >>
Checkers == {"integrity", "monitor"}
OwnChildren == {"ingest-daily", "bench", "crash", "migrate-compat"} \cup Checkers

(* The offline migration connects to none, the restore to one of its own.  *)
Serverless == {"migrate-offline", "restore"}

Step == IF at \in 1 .. Len(Steps) THEN Steps[at] ELSE "summary"
In(step, phase) == all = "running" /\ Step = step /\ pc = phase
Over == {"none", "ended", "raised", "killed"}

(* A child that fails leaves its report out: the put is after the try.     *)
Goes(c, phase) == child' = [child EXCEPT ![c] = phase]
----------------------------------------------------------------------------
Init ==
  /\ all = "running" /\ at = 1 /\ anyFailed = FALSE
  /\ server = "up"
  /\ pc = "idle" /\ code = "ok"
  /\ child = [c \in Children |-> "none"] /\ queue = {} /\ got = 0 /\ left = Batches
  /\ event = FALSE /\ round = 1 /\ open = FALSE
  /\ interrupted = FALSE /\ excuse = {} /\ verdict = "none"

(* maybe: named in --skip; the restart goes with bench-cold.               *)
Skip ==
  /\ all = "running" /\ pc = "idle" /\ at <= Len(Steps) /\ Step # "bench-cold"
  /\ at' = IF Step = "restart" THEN at + 2 ELSE at + 1
  /\ UNCHANGED <<all, anyFailed, server, stepVars>>

(* restart: the stop may fail, the start has to succeed (check=True).      *)
Restart ==
  /\ all = "running" /\ pc = "idle" /\ Step = "restart"
  /\ \/ server' = "up" /\ at' = at + 1 /\ all' = all
     \/ server' \in {"up", "down"} /\ all' = "aborted" /\ at' = at
  /\ UNCHANGED <<anyFailed, stepVars>>

(* run_step starts the step's process.                                     *)
RunStep ==
  /\ all = "running" /\ pc = "idle" /\ at <= Len(Steps) /\ Step # "restart"
  /\ pc' = "start" /\ code' = "ok"
  /\ child' = [c \in Children |-> "none"] /\ queue' = {} /\ got' = 0 /\ left' = Batches
  /\ event' = FALSE /\ round' = 1 /\ open' = FALSE
  /\ interrupted' = FALSE /\ excuse' = {} /\ verdict' = "none"
  /\ UNCHANGED <<runVars, server>>

(* What a step returns; without the server it fails.                       *)
Leaves ==
  /\ pc' = "leaving"
  /\ code' \in {"failed"} \cup IF server = "up" \/ Step \in Serverless THEN {"ok"} ELSE {}
  /\ UNCHANGED <<runVars, server, child, queue, got, left, event, crashVars>>

(* The steps that start no child: at most programs, one after the other.   *)
OtherStep == all = "running" /\ pc = "start" /\ Step \notin OwnChildren /\ Leaves

(* The parent leaves when every child it started has ended.                *)
CanLeave == pc = "leaving" /\ \A c \in Children : child[c] \in Over

StepOver ==
  /\ all = "running" /\ CanLeave
  /\ pc' = "idle" /\ at' = at + 1
  /\ anyFailed' = (anyFailed \/ code = "failed")
  /\ UNCHANGED <<all, server, code, child, queue, got, left, event, crashVars>>

(* The summary asks the server for its settings.                           *)
Finish ==
  /\ all = "running" /\ pc = "idle" /\ at > Len(Steps)
  /\ all' = CASE server = "down" -> "aborted"
              [] anyFailed -> "failed"
              [] OTHER -> "ok"
  /\ UNCHANGED <<at, anyFailed, server, stepVars>>
----------------------------------------------------------------------------
Fails ==
  /\ pc' = "leaving" /\ code' = "failed"
  /\ UNCHANGED <<runVars, server, child, queue, got, left, event, crashVars>>

(* Reports reach the parent through the queue.                             *)
Takes(c) == c \in queue /\ queue' = queue \ {c} /\ got' = got + 1

(* daily_ingest: next_sequence, then the reader starts.                    *)
DayBegins ==
  /\ In("ingest-daily", "start") /\ server = "up"
  /\ pc' = "write" /\ Goes(DayReader, "begin")
  /\ UNCHANGED <<runVars, server, code, queue, got, left, event, crashVars>>

(* A slip: one batch too many. *)
DayWritesOneMore ==
  /\ In("ingest-daily", "write")
  /\ left' = left - 1
  /\ UNCHANGED <<runVars, server, pc, code, child, queue, got, event, crashVars>>

DayWrites ==
  /\ In("ingest-daily", "write") /\ left > 0
  /\ left' = left - 1
  /\ UNCHANGED <<runVars, server, pc, code, child, queue, got, event, crashVars>>

(* A slip: the reader is not told. *)
TellsNobody ==
  /\ In("ingest-daily", "write") /\ left = 0
  /\ pc' = "collect"
  /\ UNCHANGED <<runVars, server, code, child, queue, got, left, event, crashVars>>

DayTells ==
  /\ In("ingest-daily", "write") /\ left = 0
  /\ event' = TRUE /\ pc' = "collect"
  /\ UNCHANGED <<runVars, server, code, child, queue, got, left, crashVars>>

(* queue.get(timeout=60), and a join that has a limit as well.             *)
DayCollects ==
  /\ In("ingest-daily", "collect") /\ Takes(DayReader)
  /\ pc' = "leaving"
  /\ UNCHANGED <<runVars, server, code, child, left, event, crashVars>>

(* A batch that fails, or no report in time: the exception leaves          *)
(* daily_ingest, in the first case before stop.set().                      *)
DayFails ==
  /\ \/ In("ingest-daily", "start")
     \/ In("ingest-daily", "write") /\ left > 0
     \/ In("ingest-daily", "collect") /\ queue = {}
  /\ Fails

(* bench.run: the measurements and counters before the children can fail.  *)
BenchBegins ==
  /\ In("bench", "start") /\ server = "up"
  /\ pc' = "sample"
  /\ child' = [c \in Children |-> IF c \in BenchCrew THEN "begin" ELSE child[c]]
  /\ UNCHANGED <<runVars, server, code, queue, got, left, event, crashVars>>

(* The sampling loop ends at its deadline; its errors are ignored.         *)
BenchSamples ==
  /\ In("bench", "sample")
  /\ pc' = "collect"
  /\ UNCHANGED <<runVars, server, code, child, queue, got, left, event, crashVars>>

(* One queue.get() for each process, without a limit.                      *)
BenchCollects(c) ==
  /\ In("bench", "collect") /\ got < Cardinality(BenchCrew) /\ Takes(c)
  /\ UNCHANGED <<runVars, server, pc, code, child, left, event, crashVars>>

BenchReports ==
  /\ In("bench", "collect") /\ got = Cardinality(BenchCrew)
  /\ pc' = "leaving"
  /\ UNCHANGED <<runVars, server, code, child, queue, got, left, event, crashVars>>

(* The readers are started first; a start that fails leaves the rest out.  *)
BenchStartsSome(crew) ==
  /\ In("bench", "start") /\ server = "up"
  /\ crew # BenchCrew /\ (crew \cap Writers # {} => Readers \subseteq crew)
  /\ pc' = "leaving" /\ code' = "failed"
  /\ child' = [c \in Children |-> IF c \in crew THEN "begin" ELSE child[c]]
  /\ UNCHANGED <<runVars, server, queue, got, left, event, crashVars>>

BenchFails ==
  /\ \/ In("bench", "start")
     \/ In("bench", "collect") /\ got = Cardinality(BenchCrew)
  /\ Fails
----------------------------------------------------------------------------
(* crash.py: the holder of a round starts; the second round first commits  *)
(* rows of its own, which needs the server.                                *)
StartHolder ==
  /\ In("crash", "start") /\ (round = 2 => server = "up")
  /\ pc' = "await" /\ Goes(Holder, "begin")
  /\ event' = FALSE /\ open' = FALSE /\ interrupted' = FALSE /\ excuse' = {} /\ verdict' = "none"
  /\ UNCHANGED <<runVars, server, code, queue, got, left, round>>

(* ready.wait(timeout=60): what it returns is not looked at.               *)
Awaits ==
  /\ In("crash", "await")
  /\ pc' = IF round = 1 THEN "kill" ELSE "kill-server"
  /\ excuse' = IF event THEN excuse ELSE excuse \cup {"late"}
  /\ UNCHANGED <<runVars, server, code, child, queue, got, left, event, round, open, interrupted,
                 verdict>>

(* subprocess.run returns, or raises out of the check: then the holder is  *)
(* not killed, and the parent waits until it has slept.                    *)
GoesOn(phase) ==
  \/ pc' = phase /\ code' = code
  \/ pc' = "leaving" /\ code' = "failed"

(* instances.sh: the kill ends the server and every transaction, or fails, *)
(* which nobody looks at either.                                           *)
KillServer ==
  /\ In("crash", "kill-server")
  /\ \/ server' = "down" /\ interrupted' = open /\ open' = FALSE /\ excuse' = excuse
     \/ server' = server /\ excuse' = excuse \cup {"spared"} /\ UNCHANGED <<open, interrupted>>
  /\ GoesOn("kill")
  /\ UNCHANGED <<runVars, child, queue, got, left, event, round, verdict>>

(* holder.kill(); the server ends the transaction of a lost connection.    *)
KillHolder ==
  /\ In("crash", "kill")
  /\ child' = IF child[Holder] = "raised" THEN child ELSE [child EXCEPT ![Holder] = "killed"]
  /\ interrupted' = IF round = 1 THEN open ELSE interrupted
  /\ open' = FALSE
  /\ pc' = IF round = 1 THEN "count" ELSE "start-server"
  /\ UNCHANGED <<runVars, server, code, queue, got, left, event, round, excuse, verdict>>

(* The start may fail, which only the next connection shows.               *)
StartServer ==
  /\ In("crash", "start-server")
  /\ server' \in {"up", server} /\ GoesOn("count")
  /\ UNCHANGED <<runVars, child, queue, got, left, event, crashVars>>

(* _marker_rows: a server that breaks its promise fails the check.         *)
Counts ==
  /\ In("crash", "count") /\ server = "up"
  /\ verdict' \in {"pass", "fail"}
  /\ IF round = 1 THEN pc' = "start" /\ round' = 2 ELSE pc' = "leaving" /\ round' = round
  /\ UNCHANGED <<runVars, server, code, child, queue, got, left, event, open, interrupted, excuse>>

CrashFails ==
  /\ \/ In("crash", "start")
     \/ In("crash", "count") /\ server = "down"
  /\ Fails
----------------------------------------------------------------------------
(* compat_migration: both threads start, then alembic.                     *)
CompatBegins ==
  /\ In("migrate-compat", "start")
  /\ pc' = "migrate"
  /\ child' = [c \in Children |-> IF c \in Loops THEN "begin" ELSE child[c]]
  /\ UNCHANGED <<runVars, server, code, queue, got, left, event, crashVars>>

(* The second thread cannot be started.                                    *)
CompatStartsOne ==
  /\ In("migrate-compat", "start")
  /\ pc' = "leaving" /\ code' = "failed" /\ Goes(OldReader, "begin")
  /\ UNCHANGED <<runVars, server, queue, got, left, event, crashVars>>

(* A slip: the threads are not told. *)
CompatTellsNobody ==
  /\ In("migrate-compat", "migrate")
  /\ pc' = "join"
  /\ UNCHANGED <<runVars, server, code, child, queue, got, left, event, crashVars>>

(* alembic has ended, with any code: stop.set().                           *)
CompatTells ==
  /\ In("migrate-compat", "migrate")
  /\ event' = TRUE /\ pc' = "join"
  /\ UNCHANGED <<runVars, server, code, child, queue, got, left, crashVars>>

(* The joins have a limit; then the new query and the result.              *)
CompatLeaves == In("migrate-compat", "join") /\ Leaves

(* No thread could be started, or run_alembic raises before stop.set().    *)
CompatFails ==
  /\ In("migrate-compat", "start") \/ In("migrate-compat", "migrate")
  /\ Fails
----------------------------------------------------------------------------
Checking == all = "running" /\ Step \in Checkers /\ pc \in {"start", "check"}

(* A check of integrity.py or monitor.py starts its children.  Every wait  *)
(* of the parent for them (queue.get, ready.wait, join) has a limit, so it *)
(* may start the next check's while some still run.                        *)
HelpersStart(crew) ==
  /\ Checking /\ \A c \in crew : child[c] \in Over
  /\ pc' = "check"
  /\ child' = [c \in Children |-> IF c \in crew THEN "begin" ELSE child[c]]
  /\ UNCHANGED <<runVars, server, code, queue, got, left, event, crashVars>>

(* detect_long_transaction terminates its holder.                          *)
TerminatesHelper(c) ==
  /\ Checking /\ Step = "monitor" /\ child[c] = "begin"
  /\ Goes(c, "killed")
  /\ UNCHANGED <<runVars, server, pc, code, queue, got, left, event, crashVars>>

ChecksLeave == Checking /\ Leaves
----------------------------------------------------------------------------
(* The children.  Each connects and prepares outside of what it catches.   *)
ChildOf(c) ==
  /\ all = "running" /\ child[c] \notin Over
  /\ UNCHANGED <<runVars, server, pc, code, got, left, round, interrupted, excuse, verdict>>

ChildRaises(c) ==
  /\ ChildOf(c) /\ (child[c] = "begin" \/ (child[c] = "loop" /\ c \notin Loops))
  /\ Goes(c, "raised") /\ UNCHANGED <<queue, event, open>>

ChildLoops(c) ==
  /\ ChildOf(c) /\ c \notin Helpers \cup {Holder} /\ child[c] = "begin"
  /\ Goes(c, "loop") /\ UNCHANGED <<queue, event, open>>

(* The loop ends at the deadline, or when stop is set; then out.put.       *)
ChildReports(c) ==
  /\ ChildOf(c) /\ child[c] = "loop" /\ c \notin Loops /\ (c = DayReader => event)
  /\ Goes(c, "flushing") /\ queue' = queue \cup {c} /\ UNCHANGED <<event, open>>

(* A process ends when its report has left it: one that fits into the pipe *)
(* needs nobody to take it out.                                            *)
ChildEnds(c) ==
  /\ ChildOf(c) /\ child[c] = "flushing"
  /\ Goes(c, "ended") /\ UNCHANGED <<queue, event, open>>

(* _query_loop, _insert_loop: stop is set, or an error, which is recorded. *)
LoopEnds(c) ==
  /\ ChildOf(c) /\ c \in Loops /\ child[c] = "loop"
  /\ Goes(c, "ended") /\ UNCHANGED <<queue, event, open>>

(* The sleeps and barriers of a helper have a limit, and its report is     *)
(* short (an error is cut at 200 characters): it fits into the pipe.       *)
HelperEnds(c) ==
  /\ ChildOf(c) /\ c \in Helpers /\ child[c] = "begin"
  /\ Goes(c, "ended") /\ UNCHANGED <<queue, event, open>>

(* _uncommitted_holder                                                     *)
HolderInserts ==
  /\ ChildOf(Holder) /\ child[Holder] = "begin" /\ server = "up"
  /\ Goes(Holder, "inserted") /\ open' = TRUE /\ UNCHANGED <<queue, event>>

(* A slip: ready is set before the rows are inserted. *)
ReadyFirst ==
  /\ ChildOf(Holder) /\ child[Holder] \in {"begin", "inserted"} /\ ~event
  /\ event' = TRUE /\ UNCHANGED <<queue, open, child>>

HolderReady ==
  /\ ChildOf(Holder) /\ child[Holder] = "inserted"
  /\ Goes(Holder, "asleep") /\ event' = TRUE /\ UNCHANGED <<queue, open>>

(* Its 120 s are longer than the way to the kill.                          *)
HolderWakes ==
  /\ ChildOf(Holder) /\ child[Holder] = "asleep" /\ pc = "leaving"
  /\ Goes(Holder, "ended") /\ open' = FALSE /\ UNCHANGED <<queue, event>>

Child(c) ==
  \/ ChildRaises(c) \/ ChildLoops(c) \/ ChildReports(c) \/ ChildEnds(c)
  \/ LoopEnds(c) \/ HelperEnds(c)
  \/ c = Holder /\ (HolderInserts \/ HolderReady \/ HolderWakes)
----------------------------------------------------------------------------
(* Nothing but loops that were not told to stop goes on: the time limit of *)
(* run_step (10 h) is far longer than anything else that has one.          *)
Waits(c) ==
  \/ child[c] \in Over
  \/ child[c] = "loop" /\ c \in Loops \cup {DayReader} /\ ~event
  \/ child[c] = "flushing" /\ c \in queue

Stuck ==
  /\ \/ In("bench", "collect") /\ queue = {} /\ got < Cardinality(BenchCrew)
     \/ pc = "leaving" /\ ~CanLeave
  /\ \A c \in Children : Waits(c)

(* subprocess.run kills the step and raises: no summary is written.        *)
TimeLimit ==
  /\ all = "running" /\ Stuck
  /\ all' = "aborted"
  /\ UNCHANGED <<at, anyFailed, server, stepVars>>

Parent ==
  \/ DayBegins \/ DayWrites \/ DayTells \/ DayCollects \/ DayFails
  \/ BenchBegins \/ BenchSamples \/ (\E c \in BenchCrew : BenchCollects(c)) \/ BenchReports
  \/ (\E crew \in SUBSET BenchCrew : BenchStartsSome(crew)) \/ BenchFails
  \/ StartHolder \/ Awaits \/ KillServer \/ KillHolder \/ StartServer \/ Counts \/ CrashFails
  \/ CompatBegins \/ CompatStartsOne \/ CompatTells \/ CompatLeaves \/ CompatFails
  \/ (\E crew \in SUBSET Helpers : HelpersStart(crew))
  \/ (\E c \in Helpers : TerminatesHelper(c)) \/ ChecksLeave
  \/ OtherStep

RunAll == Skip \/ Restart \/ RunStep \/ StepOver \/ Finish \/ TimeLimit

Ended == all # "running" /\ UNCHANGED vars

Next == RunAll \/ Parent \/ (\E c \in Children : Child(c)) \/ Ended

Spec == Init /\ [][Next]_vars
----------------------------------------------------------------------------
(* Types of run_all, of the step that runs and of its children.            *)
TypeOK ==
  /\ all \in {"running", "ok", "failed", "aborted"}
  /\ at \in 1 .. Len(Steps) + 1 /\ anyFailed \in BOOLEAN
  /\ server \in {"up", "down"}
  /\ pc \in {"idle", "start", "write", "collect", "sample", "await", "kill-server", "kill",
             "start-server", "count", "migrate", "join", "check", "leaving"}
  /\ code \in {"ok", "failed"}
  /\ child \in [Children -> Over \cup {"begin", "loop", "flushing", "inserted", "asleep"}]
  /\ queue \subseteq Children /\ got \in 0 .. Cardinality(Children) /\ left \in 0 .. Batches
  /\ event \in BOOLEAN /\ round \in {1, 2} /\ open \in BOOLEAN /\ interrupted \in BOOLEAN
  /\ excuse \subseteq {"late", "spared"} /\ verdict \in {"none", "pass", "fail"}

(* A check of crash.py that passes has interrupted an insert of the holder *)
(* that was not committed, unless the holder was late (or raised, and never *)
(* came), or the server was not killed: in these cases the verdict says     *)
(* nothing, and the result file still names the 25 rows                     *)
(* (check_killed_client, check_server_crash).                               *)
PassInterrupts == verdict = "pass" => interrupted \/ excuse # {}

(* Only the time limit ends a benchmark with a child that raised or was    *)
(* never started, as reports do not come or are not taken; a day whose     *)
(* reader was never told to stop (a batch failed) or is late with a report *)
(* nobody takes any more; and a compatible migration that failed before    *)
(* its threads were told to stop.  No other order of the steps of the      *)
(* parents and their children holds the sequence up (run_step).            *)
OnlyLostReportsHang ==
  [][TimeLimit => \/ Step = "bench" /\ \E c \in BenchCrew : child[c] \in {"raised", "none"}
                  \/ Step = "ingest-daily" /\ (left > 0 \/ queue # {})
                  \/ Step = "migrate-compat" /\ code = "failed" /\ ~event]_vars
=============================================================================
