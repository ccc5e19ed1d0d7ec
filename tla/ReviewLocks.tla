---------------------------- MODULE ReviewLocks ----------------------------
(***************************************************************************)
(* The two checks of dbpoc/integrity.py in which two sessions compete for  *)
(* the rows of review_item:                                                *)
(*   contention  both decide the same pending item, each on condition that *)
(*               the item is still what it read (check_review_contention)  *)
(*   deadlock    each locks an item and then wants the other's             *)
(*               (check_deadlock)                                          *)
(* A barrier brings the sessions to the same point, a queue brings their   *)
(* outcomes back.  The server locks a row for the transaction that updates *)
(* it.  A session's process may be killed at any step, and its connection  *)
(* may be lost at any statement; the server then rolls the transaction     *)
(* back, unless the commit was durable already.                            *)
(***************************************************************************)
EXTENDS Integers, FiniteSets, FiniteSetsExt

CONSTANTS
  Engines,    \* the products compared
  Items,      \* ids of the review items
  A, B,       \* the two sessions
  NoOne,      \* the owner of a row that is not locked, and who decided it
  MaxRuns,    \* checks run (bound)
  MaxFaults   \* sessions killed and connections lost (bound)

Sessions == {A, B}

ASSUME ReviewAssumption ==
  /\ Engines \subseteq {"postgres", "mariadb"}
  /\ Items \subseteq Nat \ {0} /\ IsFiniteSet(Items)
  /\ A # B /\ NoOne \notin Sessions
  /\ MaxRuns \in Nat
  /\ MaxFaults \in Nat

VARIABLES
  engine,     \* the product under test
  items,      \* the committed rows of review_item
  owner,      \* the session whose transaction has the row locked
  check,      \* the check that is running
  pc,         \* where each session is
  first,      \* the item it locks before the barrier (deadlock)
  target,     \* the item it wants after the barrier
  seen,       \* the lock_version it read
  wrote,      \* sessions whose transaction has decided their target
  arrived,    \* sessions that reached the barrier
  broken,     \* a wait at the barrier timed out
  outcome,    \* what a session has to report
  queue,      \* sessions whose outcome was put into the queue
  disturbed,  \* a fault or a timeout hit this run (history)
  verdict,    \* what the last check came to
  runs,       \* checks run so far
  faults      \* faults so far

rowVars == <<items, owner>>
planVars == <<check, first, target, runs>>
sessionVars == <<pc, seen, wrote, outcome>>
barrierVars == <<arrived, broken>>
judgeVars == <<verdict, disturbed>>
vars == <<engine, items, owner, check, pc, first, target, seen, wrote, arrived,
          broken, outcome, queue, disturbed, verdict, runs, faults>>

Checks == {"contention", "deadlock"}
NoOutcomeYet == [rowcount |-> 0, error |-> FALSE]

PCs == {"open", "barrier", "update", "commit", "report", "gone"}

Pending == {i \in Items : items[i].state = "pending"}

Free(s, i) == owner[i] \in {NoOne, s}

Released(s) == [i \in Items |-> IF owner[i] = s THEN NoOne ELSE owner[i]]

(* s waits for a row that t has locked. *)
Blocked(s, t) == s # t /\ pc[s] = "update" /\ owner[target[s]] = t
----------------------------------------------------------------------------
Init ==
  /\ engine \in Engines
  /\ items = [i \in Items |-> [state |-> "pending", by |-> NoOne, version |-> 0]]
  /\ owner = [i \in Items |-> NoOne]
  /\ check = "none"
  /\ pc = [s \in Sessions |-> "gone"]
  /\ first = [s \in Sessions |-> 0]
  /\ target = [s \in Sessions |-> 0]
  /\ seen = [s \in Sessions |-> 0]
  /\ wrote = {}
  /\ arrived = {}
  /\ broken = FALSE
  /\ outcome = [s \in Sessions |-> NoOutcomeYet]
  /\ queue = {}
  /\ disturbed = FALSE
  /\ verdict = "none"
  /\ runs = 0
  /\ faults = 0

(* A new barrier, a new queue and two new processes. *)
StartSessions ==
  /\ check = "none" /\ runs < MaxRuns
  /\ runs' = runs + 1
  /\ pc' = [s \in Sessions |-> "open"]
  /\ seen' = [s \in Sessions |-> 0]
  /\ wrote' = {}
  /\ outcome' = [s \in Sessions |-> NoOutcomeYet]
  /\ arrived' = {} /\ broken' = FALSE
  /\ queue' = {}
  /\ disturbed' = FALSE
  /\ UNCHANGED <<engine, rowVars, verdict, faults>>

(* Both sessions are given the pending item with the lowest id. *)
BeginContention ==
  /\ StartSessions
  /\ Pending # {}
  /\ check' = "contention"
  /\ target' = [s \in Sessions |-> Min(Pending)]
  /\ UNCHANGED first

(* The two items with the lowest ids, in opposite orders. *)
BeginDeadlock ==
  /\ StartSessions
  /\ Cardinality(Items) >= 2
  /\ check' = "deadlock"
  /\ LET low == Min(Items)
         next == Min(Items \ {low})
     IN  /\ first' = [s \in Sessions |-> IF s = A THEN low ELSE next]
         /\ target' = [s \in Sessions |-> IF s = A THEN next ELSE low]
----------------------------------------------------------------------------
(* An exception leaves eng.begin(), which rolls the transaction back, and   *)
(* its signature is added to the outcome.                                   *)
Raise(s) ==
  /\ owner' = Released(s)
  /\ wrote' = wrote \ {s}
  /\ outcome' = [outcome EXCEPT ![s].error = TRUE]
  /\ pc' = [pc EXCEPT ![s] = "report"]
  /\ UNCHANGED <<engine, planVars, seen, queue, verdict>>

(* _review_decider: SELECT lock_version, then the barrier. *)
ReadVersion(s) ==
  /\ check = "contention" /\ pc[s] = "open"
  /\ seen' = [seen EXCEPT ![s] = items[target[s]].version]
  /\ arrived' = arrived \cup {s}
  /\ pc' = [pc EXCEPT ![s] = "barrier"]
  /\ UNCHANGED <<engine, rowVars, planVars, wrote, outcome, broken, queue,
                 judgeVars, faults>>

(* _deadlock_worker: the first UPDATE, then the barrier. *)
LockFirst(s) ==
  /\ check = "deadlock" /\ pc[s] = "open"
  /\ Free(s, first[s])
  /\ owner' = [owner EXCEPT ![first[s]] = s]
  /\ arrived' = arrived \cup {s}
  /\ pc' = [pc EXCEPT ![s] = "barrier"]
  /\ UNCHANGED <<engine, items, planVars, seen, wrote, outcome, broken, queue,
                 judgeVars, faults>>

(* A slip: a session does not wait for the other one. *)
PassAlone(s) ==
  /\ pc[s] = "barrier"
  /\ pc' = [pc EXCEPT ![s] = "update"]
  /\ UNCHANGED <<engine, rowVars, planVars, seen, wrote, outcome, barrierVars,
                 queue, judgeVars, faults>>

PassBarrier(s) ==
  /\ pc[s] = "barrier" /\ ~broken /\ arrived = Sessions
  /\ pc' = [pc EXCEPT ![s] = "update"]
  /\ UNCHANGED <<engine, rowVars, planVars, seen, wrote, outcome, barrierVars,
                 queue, judgeVars, faults>>

(* The other session does not come in 30 seconds: the barrier is broken for *)
(* this one, and for whoever arrives later.                                 *)
BarrierTimeout(s) ==
  /\ pc[s] = "barrier" /\ (broken \/ arrived # Sessions)
  /\ broken' = TRUE
  /\ disturbed' = TRUE
  /\ Raise(s)
  /\ UNCHANGED <<items, arrived, faults>>

(* A slip: the update no longer depends on what was read. *)
DecideAnyway(s) ==
  /\ check = "contention" /\ pc[s] = "update" /\ Free(s, target[s])
  /\ owner' = [owner EXCEPT ![target[s]] = s]
  /\ wrote' = wrote \cup {s}
  /\ outcome' = [outcome EXCEPT ![s].rowcount = 1]
  /\ pc' = [pc EXCEPT ![s] = "commit"]
  /\ UNCHANGED <<engine, items, planVars, seen, barrierVars, queue, judgeVars,
                 faults>>

(* The UPDATE finds the item as it was read, and locks it. *)
Decide(s) ==
  /\ check = "contention" /\ pc[s] = "update" /\ Free(s, target[s])
  /\ items[target[s]].state = "pending" /\ items[target[s]].version = seen[s]
  /\ owner' = [owner EXCEPT ![target[s]] = s]
  /\ wrote' = wrote \cup {s}
  /\ outcome' = [outcome EXCEPT ![s].rowcount = 1]
  /\ pc' = [pc EXCEPT ![s] = "commit"]
  /\ UNCHANGED <<engine, items, planVars, seen, barrierVars, queue, judgeVars,
                 faults>>

Superseded(s) ==
  /\ check = "contention" /\ pc[s] = "update" /\ Free(s, target[s])
  /\ ~(items[target[s]].state = "pending" /\ items[target[s]].version = seen[s])

(* PostgreSQL looks at the row again and updates nothing. *)
UpdateNothing(s) ==
  /\ Superseded(s)
  /\ engine = "postgres"
  /\ pc' = [pc EXCEPT ![s] = "commit"]
  /\ UNCHANGED <<engine, rowVars, planVars, seen, wrote, outcome, barrierVars,
                 queue, judgeVars, faults>>

(* MariaDB: the record has changed since the transaction's snapshot (1020). *)
ChangedSinceRead(s) ==
  /\ Superseded(s)
  /\ engine = "mariadb"
  /\ Raise(s)
  /\ UNCHANGED <<items, barrierVars, disturbed, faults>>

(* _deadlock_worker: the second UPDATE. *)
LockSecond(s) ==
  /\ check = "deadlock" /\ pc[s] = "update" /\ Free(s, target[s])
  /\ owner' = [owner EXCEPT ![target[s]] = s]
  /\ pc' = [pc EXCEPT ![s] = "commit"]
  /\ UNCHANGED <<engine, items, planVars, seen, wrote, outcome, barrierVars,
                 queue, judgeVars, faults>>

(* A slip: one product leaves the sessions waiting for each other. *)
VictimOnOneEngine(s) ==
  /\ engine = "mariadb"
  /\ \E t \in Sessions : Blocked(s, t) /\ Blocked(t, s)
  /\ Raise(s)
  /\ UNCHANGED <<items, barrierVars, disturbed, faults>>

(* A session that waits in a circle is chosen as the victim. *)
Victim(s) ==
  /\ \E t \in Sessions : Blocked(s, t) /\ Blocked(t, s)
  /\ Raise(s)
  /\ UNCHANGED <<items, barrierVars, disturbed, faults>>

(* innodb_lock_wait_timeout; PostgreSQL waits on.                           *)
WaitTimeout(s) ==
  /\ \E t \in Sessions : Blocked(s, t)
  /\ engine = "mariadb"
  /\ disturbed' = TRUE
  /\ Raise(s)
  /\ UNCHANGED <<items, barrierVars, faults>>

(* A slip: the decision is stored as the state. *)
DecisionAsState(s) ==
  IF s \in wrote
  THEN [items EXCEPT ![target[s]] =
          [state |-> "confirmed", by |-> s, version |-> @.version + 1]]
  ELSE items

(* The rows as the transaction of s leaves them. *)
Decided(s) ==
  IF s \in wrote
  THEN [items EXCEPT ![target[s]] =
          [state |-> "decided", by |-> s, version |-> @.version + 1]]
  ELSE items

Commit(s) ==
  /\ pc[s] = "commit"
  /\ items' = Decided(s)
  /\ owner' = Released(s)
  /\ wrote' = wrote \ {s}
  /\ pc' = [pc EXCEPT ![s] = "report"]
  /\ UNCHANGED <<engine, planVars, seen, outcome, barrierVars, queue, judgeVars,
                 faults>>

(* A statement fails for want of a connection.  The row count of an earlier *)
(* statement is in the outcome already.                                     *)
LoseConnection(s) ==
  /\ pc[s] \in {"open", "update", "commit"} /\ faults < MaxFaults
  /\ faults' = faults + 1
  /\ disturbed' = TRUE
  /\ items' \in {items, Decided(s)}
  /\ Raise(s)
  /\ UNCHANGED barrierVars

(* out.put, the last thing a session does. *)
Report(s) ==
  /\ pc[s] = "report"
  /\ queue' = queue \cup {s}
  /\ pc' = [pc EXCEPT ![s] = "gone"]
  /\ UNCHANGED <<engine, rowVars, planVars, seen, wrote, outcome, barrierVars,
                 judgeVars, faults>>

(* The process of a session is killed. *)
Kill(s) ==
  /\ pc[s] # "gone" /\ faults < MaxFaults
  /\ faults' = faults + 1
  /\ disturbed' = TRUE
  /\ owner' = Released(s)
  /\ wrote' = wrote \ {s}
  /\ pc' = [pc EXCEPT ![s] = "gone"]
  /\ UNCHANGED <<engine, items, planVars, seen, outcome, barrierVars, queue, verdict>>
----------------------------------------------------------------------------
(* A slip: it is enough that somebody reports a row count of 1. *)
AnyWinner ==
  LET row == items[target[A]]
  IN  /\ \E s \in queue : outcome[s].rowcount = 1
      /\ row.state = "decided" /\ row.version = 1

(* What the check makes of the outcomes in the queue. *)
SingleWinner ==
  LET row == items[target[A]]
  IN  /\ Cardinality({s \in queue : outcome[s].rowcount = 1}) = 1
      /\ row.state = "decided" /\ row.version = 1

OneOfEach ==
  /\ \E s \in queue : outcome[s].error
  /\ \E s \in queue : ~outcome[s].error

Judge ==
  /\ check # "none" /\ queue = Sessions
  /\ verdict' = IF (check = "contention" /\ SingleWinner)
                   \/ (check = "deadlock" /\ OneOfEach)
                THEN "pass" ELSE "fail"
  /\ check' = "none"
  /\ UNCHANGED <<engine, rowVars, sessionVars, first, target, barrierVars, queue,
                 disturbed, runs, faults>>

(* queue.get runs into its 60 seconds, which every wait of a session that   *)
(* lives ends before: main records a harness error.                         *)
NoOutcome ==
  /\ check # "none"
  /\ queue # Sessions /\ \A s \in Sessions : pc[s] = "gone"
  /\ verdict' = "harness error"
  /\ check' = "none"
  /\ UNCHANGED <<engine, rowVars, sessionVars, first, target, barrierVars, queue,
                 disturbed, runs, faults>>

Session(s) ==
  \/ ReadVersion(s) \/ LockFirst(s) \/ PassBarrier(s) \/ BarrierTimeout(s)
  \/ Decide(s) \/ UpdateNothing(s) \/ ChangedSinceRead(s)
  \/ LockSecond(s) \/ Victim(s) \/ Commit(s) \/ Report(s)

Check == Judge \/ NoOutcome

Next ==
  \/ BeginContention \/ BeginDeadlock \/ Check
  \/ \E s \in Sessions : Session(s) \/ WaitTimeout(s) \/ LoseConnection(s) \/ Kill(s)

Spec == Init /\ [][Next]_vars

(* Processes run, the server looks for deadlocks, and every wait of the     *)
(* harness has a time limit; nothing relies on the server's own lock        *)
(* timeout.                                                                 *)
FairSpec == Spec /\ \A s \in Sessions : WF_vars(Session(s)) /\ WF_vars(Check)
----------------------------------------------------------------------------
(* Types and bounds of the review rows and of the harness around them       *)
(* (schema.review_item, integrity.py).                                      *)
TypeOK ==
  /\ engine \in Engines
  /\ items \in [Items -> [state : {"pending", "decided"}, by : Sessions \cup {NoOne},
                          version : Nat]]
  /\ owner \in [Items -> Sessions \cup {NoOne}]
  /\ check \in Checks \cup {"none"}
  /\ pc \in [Sessions -> PCs]
  /\ first \in [Sessions -> Items \cup {0}]
  /\ target \in [Sessions -> Items \cup {0}]
  /\ seen \in [Sessions -> Nat]
  /\ wrote \subseteq Sessions
  /\ arrived \subseteq Sessions
  /\ broken \in BOOLEAN
  /\ outcome \in [Sessions -> [rowcount : {0, 1}, error : BOOLEAN]]
  /\ queue \subseteq Sessions
  /\ disturbed \in BOOLEAN
  /\ verdict \in {"none", "pass", "fail", "harness error"}
  /\ runs \in 0 .. MaxRuns
  /\ faults \in 0 .. MaxFaults

(* However the sessions interleave and whichever of them dies, an item is   *)
(* decided at most once, and by somebody if it is decided                   *)
(* (_review_decider's condition on state and lock_version).                 *)
DecidedOnce ==
  \A i \in Items :
    /\ items[i].version <= 1
    /\ items[i].state = "decided" <=> items[i].version = 1

(* A contention check that passes has named the winner: the session that    *)
(* reports a row count of 1 is the one the row names, although a session    *)
(* notes its row count before its commit may fail                           *)
(* (_review_decider, check_review_contention).                              *)
WinnerIsTold ==
  check = "contention" /\ queue = Sessions /\ SingleWinner
    => \A s \in Sessions : outcome[s].rowcount = 1 <=> items[target[s]].by = s

(* A check nothing disturbed passes: one session decides, or one of the two *)
(* is the victim and the other one commits                                  *)
(* (check_review_contention, check_deadlock).                               *)
UndisturbedChecksPass ==
  check = "none" /\ runs > 0 /\ ~disturbed => verdict = "pass"

(* Every check ends: two sessions in each other's way never keep it waiting *)
(* (check_deadlock, the time limits of the barrier and the queue).          *)
ChecksEnd == check # "none" ~> check = "none"
=============================================================================
