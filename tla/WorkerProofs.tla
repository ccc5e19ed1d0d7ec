---------------------------- MODULE WorkerProofs ----------------------------
(***************************************************************************)
(* What holds of the worker, its heartbeat and its health check for every  *)
(* interval, check schedule and grace period, as long as three missed      *)
(* cycles and a floor of three connection timeouts make a heartbeat stale, *)
(* and a connection attempt is over before the first check and within the  *)
(* grace period.                                                           *)
(*                                                                         *)
(* AgeBounded relates the age of the heartbeat to the timer of the cycle,  *)
(* InTime the timer to the next check and to the grace period, and         *)
(* HangCounted the failed checks to the time a query has been waited for.  *)
(***************************************************************************)
EXTENDS Worker, TLAPS

(* A cycle that no query holds up, sleep included, is over before the      *)
(* heartbeat is stale, also when the connection attempt takes all its time *)
(* (heartbeat_max_age_seconds).                                            *)
LEMMA CycleFits == Interval + ConnectTimeout <= MaxAge
<1> USE WorkerAssumption, TimingAssumption
<1>1. MaxAge >= Interval * 3 /\ MaxAge >= MinMaxAge /\ MaxAge \in Nat
  BY DEF MaxAge, Bigger
<1>2. CASE Interval <= 2 * ConnectTimeout
  BY <1>1, <1>2
<1>3. CASE Interval > 2 * ConnectTimeout
  BY <1>1, <1>3
<1> QED  BY <1>2, <1>3

(* How old the heartbeat of the running process may be at each point of    *)
(* the cycle, until a query has been held.                                 *)
AgeSoFar ==
  /\ wpc = "wait" => age + timer <= Interval
  /\ wpc = "connect" => age + timer <= Interval + ConnectTimeout
  /\ wpc \in {"query", "storage", "write", "fill", "replace"} =>
       age <= Interval + ConnectTimeout

(* The inductive invariant of the heartbeat's age.                         *)
AgeBounded ==
  /\ wpc \in PCs
  /\ age \in Nat /\ timer \in Nat
  /\ wpc = "down" => ~written
  /\ written /\ ~wasHeld => AgeSoFar

(* The first process has no heartbeat yet.                                 *)
LEMMA InitAge == Init => AgeBounded
  BY WorkerAssumption DEF Init, AgeBounded, AgeSoFar, PCs

(* A sum of two numbers does not grow when one step is taken from the      *)
(* second to the first.                                                    *)
LEMMA Shift ==
  ASSUME NEW a \in Nat, NEW t \in Nat, NEW b \in Nat, b <= a + 1,
         NEW u \in Nat, t > 0 => u = t - 1, NEW limit \in Nat
  PROVE  /\ t > 0 => b + u <= a + t
         /\ t > 0 /\ a + t <= limit => b + u <= limit
  OBVIOUS

(* While time passes, what the timer loses the heartbeat's age gains.      *)
LEMMA TickAge == AgeBounded /\ Tick => AgeBounded'
<1> SUFFICES ASSUME AgeBounded, Tick PROVE AgeBounded'
  OBVIOUS
<1>1. /\ wpc \in {"wait", "connect", "query", "down"}
      /\ wpc \in {"wait", "connect"} => timer > 0
      /\ wpc' = wpc /\ written' = written
      /\ wasHeld' = (wasHeld \/ wpc = "query")
  BY DEF Tick, Idle
<1>2. age \in Nat /\ timer \in Nat
  BY DEF AgeBounded
<1>3. age' \in Nat /\ age' <= age + 1
  <2>1. MaxAge + 1 \in Nat
    BY WorkerAssumption DEF MaxAge, Bigger
  <2> QED  BY <1>2, <2>1 DEF Tick, Up
<1>4. timer' \in Nat /\ (timer > 0 => timer' = timer - 1)
  BY <1>2 DEF Tick, Down
<1>5. \A limit \in Nat : timer > 0 /\ age + timer <= limit => age' + timer' <= limit
  BY <1>2, <1>3, <1>4, Shift
<1>6. AgeSoFar => AgeSoFar' \/ wpc = "query"
  <2>1. Interval \in Nat /\ Interval + ConnectTimeout \in Nat
    BY WorkerAssumption
  <2>2. CASE wpc = "wait"
    BY <1>1, <1>5, <2>1, <2>2 DEF AgeSoFar
  <2>3. CASE wpc = "connect"
    BY <1>1, <1>5, <2>1, <2>3 DEF AgeSoFar
  <2>4. CASE wpc = "down"
    BY <1>1, <2>4 DEF AgeSoFar
  <2> QED  BY <1>1, <2>2, <2>3, <2>4
<1>7. written' /\ ~wasHeld' => written /\ ~wasHeld /\ wpc # "query"
  BY <1>1
<1>8. wpc' \in PCs /\ (wpc' = "down" => ~written')
  BY <1>1 DEF AgeBounded
<1> QED  BY <1>3, <1>4, <1>6, <1>7, <1>8 DEF AgeBounded

(* AgeBounded is inductive.                                                *)
LEMMA NextAge == AgeBounded /\ [Next]_vars => AgeBounded'
<1> SUFFICES ASSUME AgeBounded, [Next]_vars PROVE AgeBounded'
  OBVIOUS
<1> USE WorkerAssumption DEF AgeBounded, AgeSoFar, PCs, workerVars, fileVars, stopVars,
        checkVars, historyVars
<1>1. CASE DbChanges \/ StorageChanges
  BY <1>1 DEF DbChanges, StorageChanges
<1>2. CASE StartContainer
  BY <1>2 DEF StartContainer
<1>3. CASE Connect \/ ConnectFails \/ Answered \/ ProbeStorage
  BY <1>3 DEF Connect, ConnectFails, Answered, ProbeStorage
<1>4. CASE BeginWrite \/ FillTemporary
  BY <1>4 DEF BeginWrite, FillTemporary
<1>5. CASE Replace
  BY <1>5 DEF Replace
<1>6. CASE NextCycle
  BY <1>6 DEF NextCycle
<1>7. CASE Stopped \/ WriteFails \/ GraceEnds \/ Killed
  BY <1>7 DEF Stopped, WriteFails, GraceEnds, Killed, End
<1>8. CASE Terminate \/ Check
  BY <1>8 DEF Terminate, Check
<1>9. CASE Tick
  BY <1>9, TickAge
<1>10. CASE UNCHANGED vars
  BY <1>10 DEF vars
<1> QED
  BY <1>1, <1>2, <1>3, <1>4, <1>5, <1>6, <1>7, <1>8, <1>9, <1>10 DEF Next, Cycle

(* What AgeBounded says of the age is less than what makes a heartbeat     *)
(* stale.                                                                  *)
LEMMA AgeIsLess == AgeBounded => NeverStaleUnlessHeld
<1> SUFFICES ASSUME AgeBounded, Running, written, ~wasHeld PROVE age <= MaxAge
  BY DEF NeverStaleUnlessHeld
<1>1. age <= Interval + ConnectTimeout
  BY WorkerAssumption DEF AgeBounded, AgeSoFar, PCs, Running
<1>2. MaxAge \in Nat
  BY WorkerAssumption DEF MaxAge, Bigger
<1> QED  BY <1>1, <1>2, CycleFits, WorkerAssumption DEF AgeBounded

(* A worker that has written a heartbeat and is kept waiting by nothing    *)
(* but unanswered connection attempts is never taken for a dead one.       *)
THEOREM HeartbeatNeverStale == Spec => []NeverStaleUnlessHeld
  BY AgeIsLess, InitAge, NextAge, PTL DEF Spec

(* The file is only ever replaced by a temporary that is filled.           *)
WholeWhenReplaced ==
  /\ file.content # "torn"
  /\ wpc = "replace" => temporary.content = "whole"

(* There is no file yet.                                                   *)
LEMMA WholeInit == Init => WholeWhenReplaced
  BY DEF Init, WholeWhenReplaced, Missing

(* Only a temporary that is filled gets the name of the heartbeat.         *)
LEMMA WholeNext == WholeWhenReplaced /\ [Next]_vars => WholeWhenReplaced'
  BY DEF WholeWhenReplaced, Missing, Torn, Heartbeat,
         Next, Cycle, vars, workerVars, fileVars, stopVars, checkVars, historyVars,
         DbChanges, StorageChanges, StartContainer, Connect, ConnectFails, Answered,
         ProbeStorage, BeginWrite, FillTemporary, Replace, WriteFails, NextCycle,
         Stopped, Terminate, GraceEnds, Killed, End, Check, Tick

(* A health check finds no heartbeat or a whole one, also after a worker   *)
(* was killed at any step of write_heartbeat and started again.            *)
THEOREM HeartbeatWhole == Spec => []ReadersSeeWholeHeartbeats
<1>1. WholeWhenReplaced => ReadersSeeWholeHeartbeats
  BY DEF WholeWhenReplaced, ReadersSeeWholeHeartbeats
<1> QED  BY <1>1, WholeInit, WholeNext, PTL DEF Spec
----------------------------------------------------------------------------
(* The limits at which the counters of time stop are numbers.              *)
LEMMA Limits == MaxAge \in Nat /\ HeldLimit \in Nat
<1>1. MaxAge \in Nat
  BY WorkerAssumption DEF MaxAge, Bigger
<1>2. Retries * CheckEvery \in Nat
  BY WorkerAssumption
<1> QED  BY <1>1, <1>2, WorkerAssumption DEF HeldLimit, Bigger

(* A counter that counts up to a limit stays within it.                    *)
LEMMA UpTyped ==
  ASSUME NEW limit \in Nat, NEW n \in 0 .. limit
  PROVE  Up(n, limit) \in 0 .. limit
  BY DEF Up

(* So does one that counts down.                                           *)
LEMMA DownTyped ==
  ASSUME NEW limit \in Nat, NEW n \in 0 .. limit
  PROVE  Down(n) \in 0 .. limit
  BY DEF Down

(* The container has not been started.                                     *)
LEMMA TypedInit == Init => TypeOK
<1> SUFFICES ASSUME Init PROVE TypeOK
  OBVIOUS
<1>1. /\ age \in 0 .. MaxAge + 1 /\ held \in 0 .. HeldLimit /\ grace \in 0 .. Grace
      /\ sinceStart \in 0 .. StartPeriod /\ nextCheck \in 0 .. CheckEvery
      /\ streak \in 0 .. Retries /\ timer \in Nat
  BY Limits, WorkerAssumption DEF Init
<1> QED  BY <1>1 DEF Init, TypeOK, PCs, Files, NoReport, Missing

(* The end of the process sets the counters back.                          *)
LEMMA EndTyped ==
  ASSUME TypeOK, End
  PROVE  TypeOK'
<1>1. /\ held' \in 0 .. HeldLimit /\ grace' \in 0 .. Grace
      /\ sinceStart' \in 0 .. StartPeriod /\ nextCheck' \in 0 .. CheckEvery
      /\ streak' \in 0 .. Retries /\ timer' \in Nat
  BY Limits, WorkerAssumption DEF End
<1> QED  BY <1>1 DEF End, TypeOK, PCs, NoReport, fileVars

(* A health check counts up to Retries.                                    *)
LEMMA CheckTyped ==
  ASSUME TypeOK, Check
  PROVE  TypeOK'
<1>1. nextCheck' \in 0 .. CheckEvery
  BY WorkerAssumption DEF Check
<1>2. streak' \in 0 .. Retries
  <2>1. 0 \in 0 .. Retries /\ Up(streak, Retries) \in 0 .. Retries /\ streak \in 0 .. Retries
    BY WorkerAssumption, UpTyped DEF TypeOK
  <2> QED  BY <2>1 DEF Check
<1>3. health' \in {"starting", "healthy", "unhealthy"}
  BY DEF Check, TypeOK
<1> QED
  BY <1>1, <1>2, <1>3 DEF Check, TypeOK, workerVars, fileVars, stopVars, historyVars

(* Time passes up to the limits of the counters.                           *)
LEMMA TickTyped ==
  ASSUME TypeOK, Tick
  PROVE  TypeOK'
<1>1. timer' \in Nat
  BY DEF Tick, TypeOK, Down
<1>2. age' \in 0 .. MaxAge + 1
  <2>1. MaxAge + 1 \in Nat /\ age \in 0 .. MaxAge + 1 /\ age' = Up(age, MaxAge + 1)
    BY Limits DEF Tick, TypeOK
  <2> QED  BY <2>1, UpTyped
<1>3. held' \in 0 .. HeldLimit
  <2>1. held' = Up(held, HeldLimit) \/ held' = held
    BY DEF Tick
  <2>2. held \in 0 .. HeldLimit
    BY DEF TypeOK
  <2> QED  BY <2>1, <2>2, Limits, UpTyped
<1>4. grace' \in 0 .. Grace
  BY WorkerAssumption, DownTyped DEF Tick, TypeOK
<1>5. sinceStart' \in 0 .. StartPeriod
  <2>1. sinceStart' = Up(sinceStart, StartPeriod) \/ sinceStart' = 0
    BY DEF Tick
  <2>2. sinceStart \in 0 .. StartPeriod
    BY DEF TypeOK
  <2> QED  BY <2>1, <2>2, WorkerAssumption, UpTyped
<1>6. nextCheck' \in 0 .. CheckEvery
  <2>1. nextCheck' = Down(nextCheck) \/ nextCheck' = CheckEvery
    BY DEF Tick
  <2>2. nextCheck \in 0 .. CheckEvery
    BY DEF TypeOK
  <2> QED  BY <2>1, <2>2, WorkerAssumption, DownTyped
<1>7. wasHeld' \in BOOLEAN
  BY DEF Tick, TypeOK
<1> QED  BY <1>1, <1>2, <1>3, <1>4, <1>5, <1>6, <1>7 DEF Tick, TypeOK

(* The types are inductive, one action at a time.                          *)
LEMMA TypedNext == TypeOK /\ [Next]_vars => TypeOK'
<1> SUFFICES ASSUME TypeOK, [Next]_vars PROVE TypeOK'
  OBVIOUS
<1> USE DEF workerVars, fileVars, stopVars, checkVars, historyVars
<1>1. CASE DbChanges \/ StorageChanges
  BY <1>1 DEF DbChanges, StorageChanges, TypeOK
<1>2. CASE StartContainer
  <2>1. timer' \in Nat /\ age' \in 0 .. MaxAge + 1
    BY <1>2, Limits, WorkerAssumption DEF StartContainer, TypeOK
  <2>2. Missing \in Files
    BY DEF Missing, Files
  <2>3. file' \in Files /\ temporary' \in Files
    BY <1>2, <2>2 DEF StartContainer, TypeOK
  <2> QED  BY <1>2, <2>1, <2>3 DEF StartContainer, TypeOK, PCs
<1>3. CASE Connect \/ ConnectFails
  <2>1. seen' \in [db : BOOLEAN, storage : BOOLEAN]
    BY <1>3 DEF Connect, ConnectFails, TypeOK
  <2>2. timer' \in Nat /\ wpc' \in PCs
    BY <1>3 DEF Connect, ConnectFails, PCs
  <2> QED  BY <1>3, <2>1, <2>2 DEF Connect, ConnectFails, TypeOK
<1>4. CASE Answered
  BY <1>4 DEF Answered, TypeOK, PCs
<1>5. CASE ProbeStorage
  <2>1. storage \in BOOLEAN
    BY WorkerAssumption DEF TypeOK
  <2> QED  BY <1>5, <2>1 DEF ProbeStorage, TypeOK, PCs
<1>6. CASE BeginWrite
  BY <1>6 DEF BeginWrite, TypeOK, PCs, Files, Torn
<1>7. CASE FillTemporary
  BY <1>7 DEF FillTemporary, TypeOK, PCs, Files, Heartbeat
<1>8. CASE Replace
  <2>1. timer' \in Nat /\ age' \in 0 .. MaxAge + 1 /\ held' \in 0 .. HeldLimit
    BY <1>8, Limits, WorkerAssumption DEF Replace, TypeOK
  <2> QED  BY <1>8, <2>1 DEF Replace, TypeOK, PCs, Files, Missing, NoReport
<1>9. CASE NextCycle
  BY <1>9, WorkerAssumption DEF NextCycle, TypeOK, PCs
<1>10. CASE Stopped \/ WriteFails \/ GraceEnds \/ Killed
  BY <1>10, EndTyped DEF Stopped, WriteFails, GraceEnds, Killed
<1>11. CASE Terminate
  <2>1. grace' \in 0 .. Grace
    BY <1>11, WorkerAssumption DEF Terminate
  <2> QED  BY <1>11, <2>1 DEF Terminate, TypeOK
<1>12. CASE Check
  BY <1>12, CheckTyped
<1>13. CASE Tick
  BY <1>13, TickTyped
<1>14. CASE UNCHANGED vars
  BY <1>14 DEF vars, TypeOK
<1> QED
  BY <1>1, <1>2, <1>3, <1>4, <1>5, <1>6, <1>7, <1>8, <1>9, <1>10, <1>11, <1>12, <1>13, <1>14
  DEF Next, Cycle

(* Types and bounds of the worker, its file and its health check           *)
(* (worker/service.py, worker/healthcheck.py).                             *)
THEOREM WorkerTyped == Spec => []TypeOK
  BY TypedInit, TypedNext, PTL DEF Spec
----------------------------------------------------------------------------
(* Until a query is held, the connection attempt is what takes time: it is *)
(* over before the first health check, and before a grace period.          *)
InTime ==
  /\ wpc = "down" => ~stop /\ nextCheck = CheckEvery
  /\ wpc = "wait" => written
  /\ Running /\ ~wasHeld =>
       /\ ~written => timer < nextCheck
       /\ wpc \in {"query", "storage", "write", "fill", "replace"} => timer = 0
       /\ wpc = "connect" => timer <= ConnectTimeout
       /\ stop => grace > 0 /\ (wpc = "connect" => timer < grace)

(* So whoever checks finds a heartbeat of the process that runs.           *)
HealthKnown ==
  /\ written => file.content = "whole"
  /\ wpc = "down" => health = "starting"
  /\ Running /\ ~wasHeld => health # "unhealthy"

(* The inductive invariant of a worker that no query has held.             *)
Watched == TypeOK /\ AgeBounded /\ WholeWhenReplaced /\ InTime /\ HealthKnown

(* What the connection attempt loses of its time, the next check and the   *)
(* grace period lose too.                                                  *)
LEMMA InTimeTick ==
  ASSUME TypeOK, InTime, Tick
  PROVE  InTime'
<1>a. (wpc' = "down" => ~stop' /\ nextCheck' = CheckEvery) /\ (wpc' = "wait" => written')
  BY DEF InTime, Tick, Running
<1> SUFFICES ASSUME Running', ~wasHeld' PROVE InTime'
  BY <1>a DEF InTime
<1>1. /\ wpc' = wpc /\ written' = written /\ stop' = stop /\ Running /\ ~wasHeld
      /\ wpc # "query" /\ wpc # "down"
  BY DEF Tick, Running
<1>2. /\ timer > 0 /\ wpc \in {"wait", "connect"}
      /\ wpc = "wait" => ~stop
      /\ nextCheck > 0 /\ (stop => grace > 0)
  BY <1>1 DEF Tick, Idle
<1>3. /\ timer \in Nat /\ nextCheck \in Nat /\ grace \in Nat /\ ConnectTimeout \in Nat
  BY WorkerAssumption DEF TypeOK
<1>4. timer' = timer - 1 /\ nextCheck' = nextCheck - 1 /\ (stop => grace' = grace - 1)
  BY <1>1, <1>2 DEF Tick, Down
<1>5. /\ ~written => timer < nextCheck
      /\ wpc = "connect" => timer <= ConnectTimeout
      /\ stop => wpc = "connect" /\ timer < grace
  BY <1>1, <1>2 DEF InTime
<1>6. /\ ~written => timer' < nextCheck'
      /\ wpc = "connect" => timer' <= ConnectTimeout
      /\ stop => timer' < grace' /\ grace' > 0
  BY <1>2, <1>3, <1>4, <1>5
<1> QED  BY <1>a, <1>1, <1>2, <1>6 DEF InTime

(* InTime is inductive: a cycle starts the connection attempt anew only    *)
(* when a heartbeat is there and nothing asked to stop.                    *)
LEMMA InTimeNext == TypeOK /\ AgeBounded /\ InTime /\ [Next]_vars => InTime'
<1> SUFFICES ASSUME TypeOK, AgeBounded, InTime, [Next]_vars PROVE InTime'
  OBVIOUS
<1> USE WorkerAssumption, ScheduleAssumption
    DEF InTime, Running, workerVars, fileVars, stopVars, checkVars, historyVars
<1>0. /\ timer \in Nat /\ nextCheck \in Nat /\ grace \in Nat /\ nextCheck <= CheckEvery
      /\ wpc = "down" => ~written
  BY DEF TypeOK, AgeBounded
<1>1. CASE DbChanges \/ StorageChanges
  BY <1>1 DEF DbChanges, StorageChanges
<1>2. CASE StartContainer
  BY <1>0, <1>2 DEF StartContainer
<1>3. CASE Connect \/ ConnectFails \/ Answered \/ ProbeStorage
  BY <1>0, <1>3 DEF Connect, ConnectFails, Answered, ProbeStorage
<1>4. CASE BeginWrite \/ FillTemporary
  BY <1>4 DEF BeginWrite, FillTemporary
<1>5. CASE Replace
  BY <1>5 DEF Replace
<1>6. CASE NextCycle
  BY <1>6 DEF NextCycle
<1>7. CASE Stopped \/ WriteFails \/ GraceEnds \/ Killed
  BY <1>7 DEF Stopped, WriteFails, GraceEnds, Killed, End
<1>8. CASE Terminate
  BY <1>0, <1>8 DEF Terminate
<1>9. CASE Check
  BY <1>0, <1>9 DEF Check
<1>10. CASE Tick
  BY <1>10, InTimeTick
<1>11. CASE UNCHANGED vars
  BY <1>11 DEF vars
<1> QED
  BY <1>1, <1>2, <1>3, <1>4, <1>5, <1>6, <1>7, <1>8, <1>9, <1>10, <1>11 DEF Next, Cycle

(* A check that runs while no query has been held finds a heartbeat, a     *)
(* fresh one.                                                              *)
LEMMA KnownNext == Watched /\ [Next]_vars => HealthKnown'
<1> SUFFICES ASSUME Watched, [Next]_vars PROVE HealthKnown'
  OBVIOUS
<1> USE DEF HealthKnown, WholeWhenReplaced, Running, workerVars, fileVars, stopVars, checkVars,
        historyVars
<1>0. /\ TypeOK /\ AgeBounded /\ WholeWhenReplaced /\ InTime /\ HealthKnown
      /\ wpc = "down" => ~written
  BY DEF Watched, AgeBounded
<1>1. CASE Check
  <2>1. Running /\ nextCheck = 0 /\ UNCHANGED <<wpc, wasHeld, written, file>>
    BY <1>1 DEF Check
  <2>2. CASE wasHeld
    BY <1>0, <2>1, <2>2
  <2>3. CASE ~wasHeld
    <3>1. written
      <4>1. timer \in Nat
        BY <1>0 DEF TypeOK
      <4>2. ~(timer < nextCheck)
        BY <2>1, <4>1
      <4> QED  BY <1>0, <2>1, <2>3, <4>2 DEF InTime
    <3>2. Fresh
      BY <1>0, <2>1, <2>3, <3>1, AgeIsLess DEF NeverStaleUnlessHeld, Fresh
    <3>3. health' = "healthy"
      BY <1>1, <3>2 DEF Check
    <3> QED  BY <1>0, <2>1, <3>3
  <2> QED  BY <2>2, <2>3
<1>2. CASE DbChanges \/ StorageChanges \/ Terminate \/ Tick
  <2>1. UNCHANGED <<wpc, written, file, health>>
    BY <1>2 DEF DbChanges, StorageChanges, Terminate, Tick
  <2>2. wasHeld => wasHeld'
    BY <1>2 DEF DbChanges, StorageChanges, Terminate, Tick
  <2> QED  BY <1>0, <2>1, <2>2
<1>3. CASE StartContainer
  <2>1. /\ ~written' /\ health' = health /\ wpc = "down"
    BY <1>0, <1>3 DEF StartContainer
  <2> QED  BY <1>0, <2>1 DEF InTime
<1>4. CASE Connect \/ ConnectFails \/ Answered \/ ProbeStorage \/ BeginWrite \/ FillTemporary
           \/ NextCycle
  <2>1. UNCHANGED <<wasHeld, written, file, health>> /\ Running /\ Running'
    BY <1>4 DEF Connect, ConnectFails, Answered, ProbeStorage, BeginWrite, FillTemporary,
                NextCycle, Running
  <2> QED  BY <1>0, <2>1
<1>5. CASE Replace
  <2>1. UNCHANGED <<wasHeld, health>> /\ Running /\ wpc' # "down" /\ file'.content = "whole"
    BY <1>0, <1>5 DEF Replace
  <2> QED  BY <1>0, <2>1
<1>6. CASE Stopped \/ WriteFails \/ GraceEnds \/ Killed
  BY <1>6 DEF Stopped, WriteFails, GraceEnds, Killed, End, Running
<1>7. CASE UNCHANGED vars
  BY <1>0, <1>7 DEF vars, Running
<1> QED  BY <1>1, <1>2, <1>3, <1>4, <1>5, <1>6, <1>7 DEF Next, Cycle

(* Watched holds in every state.                                           *)
LEMMA WatchedAlways == Spec => []Watched
<1>1. Init => Watched
  <2> SUFFICES ASSUME Init PROVE Watched
    OBVIOUS
  <2>1. InTime /\ HealthKnown
    BY DEF Init, InTime, HealthKnown, Running
  <2> QED  BY <2>1, TypedInit, InitAge, WholeInit DEF Watched
<1>2. Watched /\ [Next]_vars => Watched'
  BY TypedNext, NextAge, WholeNext, InTimeNext, KnownNext DEF Watched
<1> QED  BY <1>1, <1>2, PTL DEF Spec

(* An outage of the database that refuses or ignores connections, or of    *)
(* the storage, never makes the container unhealthy, at any interval: the  *)
(* first heartbeat is there before the first check, and no later one finds *)
(* it stale (healthcheck.main, compose.yaml).                              *)
THEOREM OutagesKeepHealth == Spec => []HealthyUnlessHeld
<1>1. Watched => HealthyUnlessHeld
  BY DEF Watched, HealthKnown, HealthyUnlessHeld
<1> QED  BY <1>1, WatchedAlways, PTL

(* A stop never has to kill a worker that is not held in a query: a        *)
(* connection attempt and the rest of the cycle fit into the grace period  *)
(* (install_shutdown_handlers).                                            *)
THEOREM StopIsInTime == Spec => StopEndsTheCycle
<1>1. Watched /\ [Next]_vars => [GraceEnds => wasHeld]_vars
  <2> SUFFICES ASSUME Watched, GraceEnds PROVE wasHeld
    OBVIOUS
  <2>1. Running /\ stop /\ grace = 0 /\ InTime
    BY DEF Watched, GraceEnds
  <2>2. wasHeld \in BOOLEAN
    BY DEF Watched, TypeOK
  <2> QED  BY <2>1, <2>2 DEF InTime
<1> QED  BY <1>1, WatchedAlways, PTL DEF Spec, StopEndsTheCycle
----------------------------------------------------------------------------
(* A query held so long has outlived its heartbeat and the start period.   *)
HeldAfter == Bigger(MaxAge + 1, StartPeriod)

(* From then on every check fails and counts, one every CheckEvery ticks.  *)
HangCounted ==
  /\ wpc \in {"down", "connect", "wait"} => held = 0
  /\ streak = Retries => health = "unhealthy"
  /\ wpc = "query" =>
       /\ age >= held \/ age = MaxAge + 1
       /\ sinceStart >= held \/ sinceStart = StartPeriod
       /\ \/ held <= HeldAfter
          \/ health = "unhealthy"
          \/ held - HeldAfter <= streak * CheckEvery + (CheckEvery - nextCheck)

(* The ranges of the counters of time, for arithmetic.                     *)
LEMMA Counters ==
  ASSUME TypeOK
  PROVE  /\ age \in Nat /\ age <= MaxAge + 1 /\ MaxAge \in Nat
         /\ held \in Nat /\ held <= HeldLimit /\ HeldLimit \in Nat
         /\ sinceStart \in Nat /\ sinceStart <= StartPeriod /\ StartPeriod \in Nat
         /\ nextCheck \in Nat /\ nextCheck <= CheckEvery /\ CheckEvery \in Nat
         /\ streak \in Nat /\ streak <= Retries /\ Retries \in Nat \ {0}
         /\ HeldAfter \in Nat /\ HeldAfter >= MaxAge + 1 /\ HeldAfter >= StartPeriod
  BY Limits, WorkerAssumption DEF TypeOK, HeldAfter, Bigger

(* One factor more is one summand more.                                    *)
LEMMA OneMore ==
  ASSUME NEW n \in Nat, NEW c \in Nat
  PROVE  n * c \in Nat /\ (n + 1) * c = n * c + c
  OBVIOUS

(* A tick in the query ages the heartbeat and brings the next check        *)
(* nearer.                                                                 *)
LEMMA HangTick ==
  ASSUME TypeOK, HangCounted, Tick
  PROVE  HangCounted'
<1>1. UNCHANGED <<wpc, streak, health>>
  BY DEF Tick
<1>2. CASE wpc # "query"
  BY <1>1, <1>2 DEF HangCounted, Tick
<1>3. CASE wpc = "query"
  <2>1. /\ nextCheck > 0 /\ nextCheck' = Down(nextCheck) /\ age' = Up(age, MaxAge + 1)
        /\ held' = Up(held, HeldLimit) /\ sinceStart' = Up(sinceStart, StartPeriod)
    BY <1>3 DEF Tick, Idle, Running
  <2>2. age' >= held' \/ age' = MaxAge + 1
    BY <1>3, <2>1, Counters DEF HangCounted, Up
  <2>3. sinceStart' >= held' \/ sinceStart' = StartPeriod
    BY <1>3, <2>1, Counters DEF HangCounted, Up
  <2>4. SUFFICES ASSUME held' > HeldAfter, health # "unhealthy"
                 PROVE  held' - HeldAfter <= streak * CheckEvery + (CheckEvery - nextCheck')
    <3>1. held' \in Nat
      BY <2>1, Counters DEF Up
    <3>2. held' <= HeldAfter \/ held' > HeldAfter
      BY <3>1, Counters
    <3>3. HangCounted' \/ (held' > HeldAfter /\ health # "unhealthy")
      BY <1>1, <1>3, <2>2, <2>3, <3>2 DEF HangCounted, HeldAfter
    <3> QED  BY <1>1, <1>3, <2>2, <2>3, <3>3 DEF HangCounted, HeldAfter
  <2> DEFINE done == streak * CheckEvery
  <2>5. done \in Nat
    BY Counters, OneMore
  <2>6. nextCheck' = nextCheck - 1 /\ held' \in Nat /\ held' <= held + 1
    BY <2>1, Counters DEF Down, Up
  <2>7. held <= HeldAfter \/ held - HeldAfter <= done + (CheckEvery - nextCheck)
    BY <1>3, <2>4 DEF HangCounted
  <2> HIDE DEF done
  <2>8. held' - HeldAfter <= done + (CheckEvery - nextCheck')
    BY <2>1, <2>4, <2>5, <2>6, <2>7, Counters
  <2> QED  BY <2>8 DEF done
<1> QED  BY <1>2, <1>3

(* A check that comes so late fails, counts, and begins the next           *)
(* CheckEvery ticks.                                                       *)
LEMMA HangCheck ==
  ASSUME TypeOK, HangCounted, Check
  PROVE  HangCounted'
<1>1. /\ UNCHANGED <<wpc, held, age, sinceStart, file>>
      /\ nextCheck = 0 /\ nextCheck' = CheckEvery
  BY DEF Check, workerVars, fileVars
<1>2. streak' = Retries => health' = "unhealthy"
  <2>1. CASE Fresh
    BY <2>1, WorkerAssumption DEF Check
  <2>2. CASE ~Fresh
    BY <2>2 DEF Check
  <2> QED  BY <2>1, <2>2
<1>3. CASE wpc # "query" \/ held <= HeldAfter
  BY <1>1, <1>2, <1>3 DEF HangCounted, HeldAfter
<1>4. CASE wpc = "query" /\ ~(held <= HeldAfter)
  <2>1. age = MaxAge + 1 /\ sinceStart = StartPeriod
    BY <1>4, Counters DEF HangCounted
  <2>2. ~Fresh /\ ~(sinceStart < StartPeriod)
    BY <2>1, Counters DEF Fresh
  <2>3. streak' = Up(streak, Retries) /\ health' = IF streak' = Retries THEN "unhealthy" ELSE health
    BY <2>2 DEF Check
  <2>4. CASE health = "unhealthy"
    BY <1>1, <1>2, <1>4, <2>1, <2>3, <2>4 DEF HangCounted
  <2>5. CASE health # "unhealthy"
    <3>1. streak < Retries /\ streak' = streak + 1
      BY <2>3, <2>5, Counters DEF HangCounted, Up
    <3> DEFINE done == streak * CheckEvery
    <3>2. done \in Nat /\ streak' * CheckEvery = done + CheckEvery
      BY <3>1, Counters, OneMore
    <3>3. held - HeldAfter <= done + (CheckEvery - nextCheck)
      BY <1>4, <2>5 DEF HangCounted
    <3> HIDE DEF done
    <3>4. held' - HeldAfter <= streak' * CheckEvery + (CheckEvery - nextCheck')
      <4>1. held' - HeldAfter <= done + CheckEvery
        BY <1>1, <3>2, <3>3, Counters
      <4>2. CheckEvery - nextCheck' = 0
        BY <1>1, Counters
      <4>3. streak' * CheckEvery + 0 = done + CheckEvery
        BY <3>2, Counters
      <4> QED  BY <4>1, <4>2, <4>3
    <3> QED  BY <1>1, <1>2, <1>4, <2>1, <3>4 DEF HangCounted, HeldAfter
  <2> QED  BY <2>4, <2>5
<1> QED  BY <1>3, <1>4

(* HangCounted is inductive.                                               *)
LEMMA HangNext == TypeOK /\ HangCounted /\ [Next]_vars => HangCounted'
<1> SUFFICES ASSUME TypeOK, HangCounted, [Next]_vars PROVE HangCounted'
  OBVIOUS
<1> USE DEF workerVars, fileVars, stopVars, checkVars, historyVars
<1>1. CASE DbChanges \/ StorageChanges \/ Terminate \/ UNCHANGED vars
  <2>1. UNCHANGED <<wpc, held, streak, health, age, sinceStart, nextCheck>>
    BY <1>1 DEF DbChanges, StorageChanges, Terminate, vars
  <2> QED  BY <2>1 DEF HangCounted, HeldAfter
<1>2. CASE Connect
  <2>1. held = 0 /\ 0 <= HeldAfter /\ age >= 0 /\ sinceStart >= 0
    BY <1>2, Counters DEF Connect, HangCounted
  <2>2. UNCHANGED <<held, streak, health, age, sinceStart, nextCheck>> /\ wpc' = "query"
    BY <1>2 DEF Connect
  <2> QED  BY <2>1, <2>2 DEF HangCounted, HeldAfter
<1>3. CASE StartContainer \/ NextCycle
  <2>1. held = 0 /\ wpc' = "connect" /\ UNCHANGED <<held, streak, health>>
    BY <1>3 DEF StartContainer, NextCycle, HangCounted
  <2> QED  BY <2>1 DEF HangCounted
<1>4. CASE ConnectFails \/ Answered \/ ProbeStorage \/ BeginWrite \/ FillTemporary
  <2>1. wpc' \in {"storage", "write", "fill", "replace"} /\ UNCHANGED <<streak, health>>
    BY <1>4 DEF ConnectFails, Answered, ProbeStorage, BeginWrite, FillTemporary
  <2> QED  BY <2>1 DEF HangCounted
<1>5. CASE Replace
  BY <1>5 DEF Replace, HangCounted
<1>6. CASE Stopped \/ WriteFails \/ GraceEnds \/ Killed
  BY <1>6, WorkerAssumption DEF Stopped, WriteFails, GraceEnds, Killed, End, HangCounted
<1>7. CASE Check
  BY <1>7, HangCheck
<1>8. CASE Tick
  BY <1>8, HangTick
<1> QED  BY <1>1, <1>2, <1>3, <1>4, <1>5, <1>6, <1>7, <1>8 DEF Next, Cycle

(* A worker that hangs in its query is found unhealthy after a time that   *)
(* the configuration gives: when the heartbeat has grown stale and the     *)
(* start period is over, the next Retries checks all fail                  *)
(* (healthcheck.main, compose.yaml).                                       *)
THEOREM HangsAreNoticed == Spec => []HangNoticed
<1>1. Init => HangCounted
  BY WorkerAssumption DEF Init, HangCounted
<1>2. TypeOK /\ HangCounted => HangNoticed
  <2> SUFFICES ASSUME TypeOK, HangCounted, held = HeldLimit, wpc = "query", nextCheck > 0,
                      health # "unhealthy"
               PROVE  FALSE
    BY DEF HangNoticed
  <2> DEFINE done == streak * CheckEvery
             all == Retries * CheckEvery
  <2>1. HeldLimit = HeldAfter + all
    BY DEF HeldLimit, HeldAfter
  <2>2. done \in Nat /\ all \in Nat /\ done + CheckEvery <= all
    <3>1. streak + 1 <= Retries
      BY Counters DEF HangCounted
    <3>2. PICK more \in Nat : Retries = (streak + 1) + more
      <4>1. Retries - (streak + 1) \in Nat
        BY <3>1, Counters
      <4> QED  BY <4>1, Counters
    <3>3. (streak + 1) * CheckEvery = done + CheckEvery /\ done \in Nat
      BY Counters, OneMore
    <3>4. all = (streak + 1) * CheckEvery + more * CheckEvery
      BY <3>2, Counters
    <3>5. more * CheckEvery \in Nat
      BY <3>2, Counters, OneMore
    <3> HIDE DEF done, all
    <3> QED  BY <3>3, <3>4, <3>5, Counters
  <2>3. held <= HeldAfter \/ held - HeldAfter <= done + (CheckEvery - nextCheck)
    BY DEF HangCounted
  <2>4. CheckEvery > 0
    BY WorkerAssumption
  <2> HIDE DEF done, all
  <2> QED  BY <2>1, <2>2, <2>3, <2>4, Counters
<1> QED  BY <1>1, <1>2, HangNext, TypedInit, TypedNext, PTL DEF Spec
=============================================================================
