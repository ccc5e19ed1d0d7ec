---------------------------- MODULE TimedChecks ----------------------------
(***************************************************************************)
(* The checks whose verdict depends on how long things take: monitor.py's  *)
(* detect_lock_wait and detect_long_transaction, and integrity.py's        *)
(* check_lock_timeout.  Each starts a process that holds a transaction     *)
(* open, and looks at the server, or waits for the lock itself, while it   *)
(* does.  Time passes only while nobody has a step to take.                *)
(***************************************************************************)
EXTENDS Integers

CONSTANTS
  Tps,   \* ticks of a second
  Start, \* ticks a process needs at most from its start to its first statement
  Step   \* ticks a wake-up and a connection need at most

ASSUME TimedChecksAssumption == Tps \in Nat \ {0} /\ Start \in Nat /\ Step \in Nat

(* The machine: a process has begun before the look at it, which comes 6 s *)
(* after its start, and before the 30 s of the wait for it; a connection   *)
(* leaves check_lock_timeout room for the 2 s of the limit and the second  *)
(* after which MariaDB sees it, in the 8 s of the lock.                    *)
ASSUME MachineAssumption == Start < 6 * Tps /\ Step <= 3 * Tps

VARIABLES
  engine,  \* the product
  check,   \* the check that runs
  now,     \* ticks since it began
  offset,  \* ticks between the last full second of the server's clock and then
  holder,  \* the process that holds the transaction
  held,    \* ticks until it ends it, or starts it
  began,   \* when it started it
  waiter,  \* who waits for its lock
  due,     \* ticks until that one's next step
  started, \* when it was started
  since,   \* when it came to wait
  error,   \* what ended its transaction
  pc,      \* where the check is
  timer,   \* ticks until its next step
  delay,   \* ticks it has lost against its own schedule (history)
  verdict

holderVars == <<holder, held, began>>
waiterVars == <<waiter, due, started, since, error>>
checkVars == <<pc, timer, delay, verdict>>
vars == <<engine, check, now, offset, holderVars, waiterVars, checkVars>>

Seconds(n) == n * Tps
ReadyTimeout == Seconds(30)

(* LOCK_HOLD_SECONDS, LONG_TRANSACTION_SECONDS, and the 8.0 of the check.  *)
Hold == Seconds(IF check = "long_transaction" THEN 65 ELSE 8)

Nap == Seconds(IF check = "long_transaction" THEN 62 ELSE 6)
Threshold == IF check = "long_transaction" THEN 60 ELSE 5

(* lock_timeout, and innodb_lock_wait_timeout, which the server looks at   *)
(* once a second.                                                          *)
Limits ==
  LET limit == Seconds(IF check = "lock_timeout" THEN 2 ELSE 20)
  IN IF engine = "postgres" THEN {limit} ELSE limit .. limit + Seconds(1)

(* The age of what began at t, as the server's tables give it: MariaDB's   *)
(* DATETIME columns and NOW() have no fractions of a second.               *)
Second(t) == (offset + t) \div Tps

OlderThan(t, seconds) ==
  IF engine = "postgres" THEN now - t > Seconds(seconds)
                         ELSE Second(now) - Second(t) > seconds
----------------------------------------------------------------------------
(* Every check starts its holder and waits for it.                         *)
Init ==
  /\ engine \in {"postgres", "mariadb"}
  /\ check \in {"lock_wait", "long_transaction", "lock_timeout"}
  /\ now = 0 /\ offset \in 0 .. Tps - 1
  /\ holder = "starting" /\ held \in 0 .. Start /\ began = 0
  /\ waiter = "none" /\ due = 0 /\ started = 0 /\ since = 0 /\ error = "none"
  /\ pc = "await" /\ timer = ReadyTimeout /\ delay = 0 /\ verdict = "none"

After(ticks, late) == timer' = ticks + late /\ delay' = delay + late

(* _hold_transaction, _lock_holder: the statement, ready.set(), the sleep. *)
HolderBegins ==
  /\ holder = "starting" /\ held = 0
  /\ holder' = "holding" /\ held' = Hold /\ began' = now
  /\ IF pc = "await"
     THEN pc' = "woken" /\ \E late \in 0 .. Step : After(0, late)
     ELSE UNCHANGED <<pc, timer, delay>>
  /\ UNCHANGED <<engine, check, now, offset, waiterVars, verdict>>

(* It fails before it is ready.                                            *)
HolderRaises ==
  /\ holder = "starting" /\ held = 0
  /\ holder' = "raised"
  /\ UNCHANGED <<engine, check, now, offset, held, began, waiterVars, checkVars>>

(* It commits; who waits for the lock gets it, and commits too.            *)
HolderEnds ==
  /\ holder = "holding" /\ held = 0
  /\ holder' = "ended"
  /\ waiter' = IF waiter = "waiting" THEN "ended" ELSE waiter
  /\ due' = 0
  /\ UNCHANGED <<engine, check, now, offset, held, began, started, since, error, checkVars>>

(* ready.wait(timeout=30) comes back without it.                           *)
NotReady ==
  /\ pc = "await" /\ timer = 0
  /\ pc' = "woken"
  /\ UNCHANGED <<engine, check, now, offset, holderVars, waiterVars, timer, delay, verdict>>
----------------------------------------------------------------------------
(* detect_lock_wait starts another process; check_lock_timeout waits for   *)
(* the lock itself.                                                        *)
StartWaiter ==
  /\ pc = "woken" /\ timer = 0 /\ check # "long_transaction"
  /\ waiter' = "starting" /\ started' = now
  /\ due' \in 0 .. IF check = "lock_wait" THEN Start ELSE Step
  /\ IF check = "lock_wait"
     THEN pc' = "nap" /\ \E late \in 0 .. Step : After(Nap, late)
     ELSE pc' = "blocked" /\ UNCHANGED <<timer, delay>>
  /\ UNCHANGED <<engine, check, now, offset, holderVars, since, error, verdict>>

NapAlone ==
  /\ pc = "woken" /\ timer = 0 /\ check = "long_transaction"
  /\ pc' = "nap" /\ \E late \in 0 .. Step : After(Nap, late)
  /\ UNCHANGED <<engine, check, now, offset, holderVars, waiterVars, verdict>>

(* A slip: the time limit of the product is left as it is. *)
WaiterAsksWithoutLimit ==
  /\ waiter = "starting" /\ due = 0
  /\ IF holder = "holding"
     THEN waiter' = "waiting" /\ since' = now /\ due' = Seconds(50)
     ELSE waiter' = "ended" /\ UNCHANGED <<since, due>>
  /\ UNCHANGED <<engine, check, now, offset, holderVars, started, error, checkVars>>

(* Its UPDATE waits for the row, or is committed at once.                  *)
WaiterAsks ==
  /\ waiter = "starting" /\ due = 0
  /\ IF holder = "holding"
     THEN waiter' = "waiting" /\ since' = now /\ due' \in Limits
     ELSE waiter' = "ended" /\ UNCHANGED <<since, due>>
  /\ UNCHANGED <<engine, check, now, offset, holderVars, started, error, checkVars>>

WaiterFails(why) ==
  /\ waiter' = "ended" /\ error' = why
  /\ UNCHANGED <<engine, check, now, offset, holderVars, due, started, since, checkVars>>

WaiterRaises == waiter = "starting" /\ due = 0 /\ WaiterFails("connection")
WaiterTimesOut == waiter = "waiting" /\ due = 0 /\ WaiterFails("timeout")
----------------------------------------------------------------------------
Concludes(passed) ==
  /\ pc' = "done" /\ verdict' = IF passed THEN "pass" ELSE "fail"
  /\ UNCHANGED <<engine, check, now, offset, waiterVars, timer, delay>>

LookForWait ==
  /\ check = "lock_wait" /\ pc = "nap" /\ timer = 0
  /\ Concludes(waiter = "waiting" /\ OlderThan(since, Threshold))
  /\ UNCHANGED holderVars

(* The holder is terminated once it has been looked for.                   *)
LookForTransaction ==
  /\ check = "long_transaction" /\ pc = "nap" /\ timer = 0
  /\ Concludes(holder = "holding" /\ OlderThan(began, Threshold))
  /\ holder' = IF holder = "raised" THEN holder ELSE "ended"
  /\ UNCHANGED <<held, began>>

(* check_lock_timeout: any error in less than 7 seconds.                   *)
LookAtError ==
  /\ check = "lock_timeout" /\ pc = "blocked" /\ waiter = "ended"
  /\ Concludes(error # "none" /\ now - started < Seconds(7))
  /\ UNCHANGED holderVars

Acts ==
  \/ HolderBegins \/ HolderRaises \/ HolderEnds \/ NotReady
  \/ StartWaiter \/ NapAlone \/ WaiterAsks \/ WaiterRaises \/ WaiterTimesOut
  \/ LookForWait \/ LookForTransaction \/ LookAtError
----------------------------------------------------------------------------
HolderIdle == holder \in {"ended", "raised"} \/ held > 0
WaiterIdle == waiter \in {"none", "ended"} \/ due > 0
CheckIdle == pc = "done" \/ timer > 0 \/ (pc = "blocked" /\ waiter # "ended")
Over == pc = "done" /\ holder \in {"ended", "raised"} /\ waiter \in {"none", "ended"}

Down(n) == IF n > 0 THEN n - 1 ELSE 0

Tick ==
  /\ HolderIdle /\ WaiterIdle /\ CheckIdle /\ ~Over
  /\ now' = now + 1
  /\ held' = Down(held) /\ due' = Down(due) /\ timer' = Down(timer)
  /\ UNCHANGED <<engine, check, offset, holder, began, waiter, started, since, error, pc, delay,
                 verdict>>

Ended == Over /\ UNCHANGED vars

Next == Acts \/ Tick \/ Ended

Spec == Init /\ [][Next]_vars
----------------------------------------------------------------------------
(* Types of the processes and of their clocks.  No statement waits for a   *)
(* lock without the limit its check has set, which MariaDB may see a       *)
(* second late (_wait_for_lock, check_lock_timeout).                       *)
TypeOK ==
  /\ engine \in {"postgres", "mariadb"}
  /\ check \in {"lock_wait", "long_transaction", "lock_timeout"}
  /\ now \in Nat /\ offset \in 0 .. Tps - 1
  /\ holder \in {"starting", "holding", "ended", "raised"}
  /\ held \in Nat /\ began \in 0 .. now
  /\ waiter \in {"none", "starting", "waiting", "ended"}
  /\ due \in Nat /\ started \in 0 .. now /\ since \in 0 .. now
  /\ error \in {"none", "timeout", "connection"}
  /\ pc \in {"await", "woken", "nap", "blocked", "done"}
  /\ timer \in Nat /\ delay \in Nat /\ verdict \in {"none", "pass", "fail"}
  /\ waiter = "waiting" => due <= Seconds(IF check = "lock_timeout" THEN 3 ELSE 21)

(* The reasons a check may fail for: a process raised; the check lost more *)
(* time than the lock outlasts its sleep; the process that waits needed    *)
(* the whole of the second by which the sleep exceeds the threshold (any   *)
(* part of it on MariaDB, which counts full seconds).                      *)
TooLate ==
  \/ delay >= Hold - Nap
  \/ check = "lock_wait" /\ since - started >= IF engine = "postgres" THEN Seconds(1) ELSE 1

ProcessRaised == holder = "raised" \/ error = "connection"

PromptChecksPass == verdict = "fail" => ProcessRaised \/ TooLate

(* check_lock_timeout passes on any error; it means what its name says if  *)
(* no process raised.                                                      *)
ErrorIsTimeout == verdict = "pass" /\ check = "lock_timeout" /\ ~ProcessRaised => error = "timeout"

(* What the server shows in time is seen, and an error in time is the one  *)
(* of the lock: the sleeps, limits and thresholds of monitor.py and        *)
(* integrity.py fit together.                                              *)
TimedVerdicts == PromptChecksPass /\ ErrorIsTimeout
=============================================================================
