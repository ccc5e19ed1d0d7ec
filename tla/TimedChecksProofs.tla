-------------------------- MODULE TimedChecksProofs --------------------------
(***************************************************************************)
(* The verdicts of the checks that depend on time, on every machine that   *)
(* is fast enough and in ticks of any length.                              *)
(***************************************************************************)
EXTENDS TimedChecks, TLAPS

(* TypeOK in two parts: the types themselves, ...                          *)
Typed ==
  /\ engine \in {"postgres", "mariadb"}
  /\ check \in {"lock_wait", "long_transaction", "lock_timeout"}
  /\ now \in Nat /\ offset \in 0 .. Tps - 1
  /\ holder \in {"starting", "holding", "ended", "raised"}
  /\ held \in Nat /\ began \in 0 .. now
  /\ waiter \in {"none", "starting", "waiting", "ended"}
  /\ due \in Nat /\ started \in 0 .. now /\ since \in 0 .. now
  /\ error \in {"none", "timeout", "connection"}
  /\ pc \in {"await", "woken", "nap", "blocked", "done"}
  /\ timer \in Nat /\ delay \in Nat /\ verdict \in {"none", "pass", "fail"}

(* ... and the limit of a statement that waits.                            *)
Limited == waiter = "waiting" => due <= Seconds(IF check = "lock_timeout" THEN 3 ELSE 21)

(* TypeOK is both.                                                         *)
LEMMA Parts == TypeOK <=> Typed /\ Limited
  BY Zenon DEF TypeOK, Typed, Limited

(* A holder begins before the check gives up to wait for it.               *)
Beginning == holder = "starting" => pc = "await" /\ now + held <= Start

(* It holds for exactly as long as it says.                                *)
Holding == holder = "holding" => now + held = began + Hold

(* It has ended by itself only when that is over.                          *)
LetGo == holder = "ended" => pc = "done" \/ now >= began + Hold

(* What the holder's clock says.                                           *)
HolderKeepsTime == Beginning /\ Holding /\ LetGo

(* The wait for the holder ends 30 s after the start of the check.         *)
Awaiting ==
  pc = "await" =>
    /\ holder \in {"starting", "raised"} /\ waiter = "none" /\ delay = 0
    /\ now + timer = ReadyTimeout

(* The check goes on when the holder is ready, but for what it has lost.   *)
Woken == pc = "woken" => waiter = "none" /\ (holder # "raised" => now + timer = began + delay)

(* The sleep begins then, and the check may lose more time after it.       *)
Napping ==
  pc = "nap" =>
    /\ check # "lock_timeout"
    /\ holder # "raised" => now + timer = began + delay + Nap

(* It begins no earlier than the process that is to wait.                  *)
NapAfterStart ==
  pc = "nap" /\ check = "lock_wait" => waiter # "none" /\ now + timer >= started + Nap

(* check_lock_timeout waits for the lock itself, without a timer.          *)
Blocked ==
  pc = "blocked" =>
    /\ check = "lock_timeout" /\ waiter # "none" /\ timer = 0
    /\ holder # "raised" => started = began + delay

(* A verdict comes last, and after the answer to the one who waited.       *)
Judged ==
  /\ pc # "done" => verdict = "none"
  /\ pc = "done" /\ check = "lock_timeout" => waiter = "ended"

(* What the check's clock says: its schedule and what it has lost against  *)
(* it.                                                                     *)
CheckKeepsTime == Awaiting /\ Woken /\ Napping /\ NapAfterStart /\ Blocked /\ Judged

(* Who waits was started after the holder had begun, and asks once.        *)
Waits ==
  /\ waiter # "none" => check # "long_transaction" /\ (holder # "raised" => began <= started)
  /\ waiter \in {"none", "starting"} => since = 0
  /\ waiter # "ended" => error = "none"

(* It asks in time.                                                        *)
Asking ==
  waiter = "starting" =>
    /\ check = "lock_wait" => now + due <= started + Start
    /\ check # "lock_wait" => now + due <= started + Step

(* It waits while somebody holds the lock, and no longer than its limit.   *)
Waiting ==
  waiter = "waiting" =>
    /\ holder = "holding" /\ started <= since
    /\ IF check = "lock_wait" THEN now + due >= since + Seconds(20)
                              ELSE now + due <= started + Step + Seconds(3)

(* It got the lock when the holder was over, or its limit was over.        *)
Answered ==
  waiter = "ended" =>
    /\ error = "none" => holder \in {"ended", "raised"}
    /\ error = "timeout" /\ check = "lock_wait" => now >= started + Seconds(20)
    /\ pc = "blocked" => now <= started + Step + Seconds(3)

(* What the clock of the one who waits says.                               *)
WaiterKeepsTime == Waits /\ Asking /\ Waiting /\ Answered

(* The processes and the check keep to their times.                        *)
Reckons == Typed /\ HolderKeepsTime /\ CheckKeepsTime /\ WaiterKeepsTime /\ TimedVerdicts

(* What is assumed of the ticks and of the machine.                        *)
LEMMA Machine ==
  Tps \in Nat /\ Tps >= 1 /\ Start \in Nat /\ Step \in Nat /\ Start < 6 * Tps /\ Step <= 3 * Tps
  BY TimedChecksAssumption, MachineAssumption

(* Adding the same to both sides.                                          *)
LEMMA Later == \A a, b, c \in Nat : b <= c => a + b <= a + c
  OBVIOUS

(* The sleeps and limits of the checks, in ticks.                          *)
LEMMA Times ==
  /\ Hold = IF check = "long_transaction" THEN 65 * Tps ELSE 8 * Tps
  /\ Nap = IF check = "long_transaction" THEN 62 * Tps ELSE 6 * Tps
  /\ ReadyTimeout = 30 * Tps
  /\ Hold \in Nat /\ Nap \in Nat
  /\ Seconds(1) = Tps /\ Seconds(3) = 3 * Tps /\ Seconds(7) = 7 * Tps /\ Seconds(20) = 20 * Tps
  BY Machine DEF Hold, Nap, ReadyTimeout, Seconds

(* They stay while the check is the same.                                  *)
LEMMA TimesStay ==
  ASSUME check' = check
  PROVE  /\ Hold' = Hold /\ Nap' = Nap /\ ReadyTimeout' = ReadyTimeout
         /\ Seconds(1)' = Tps /\ Seconds(3)' = 3 * Tps /\ Seconds(7)' = 7 * Tps
         /\ Seconds(20)' = 20 * Tps
  BY Machine DEF Hold, Nap, ReadyTimeout, Seconds

(* How long a lock is waited for: 2 s by check_lock_timeout, 20 s by the   *)
(* others, and a second more if MariaDB sees the limit late.               *)
LEMMA LimitTimes ==
  ASSUME NEW l \in Limits
  PROVE  /\ l \in Nat
         /\ check = "lock_timeout" => l <= 3 * Tps
         /\ check # "lock_timeout" => l >= 20 * Tps /\ l <= 21 * Tps
<1>1. CASE check = "lock_timeout"
  BY <1>1, Machine DEF Limits, Seconds
<1>2. CASE check # "lock_timeout"
  BY <1>2, Machine DEF Limits, Seconds
<1> QED  BY <1>1, <1>2

(* What is k + 1 seconds older than t has aged by more than k full seconds. *)
LEMMA FullSeconds ==
  /\ \A a \in Nat :
       a \div Tps \in Nat /\ (a \div Tps) * Tps <= a /\ a < (a \div Tps) * Tps + Tps
  /\ \A p, q \in Nat : p <= q => p * Tps <= q * Tps
  BY Machine

(* What is a second older than the threshold shows as older than it, on    *)
(* either product, and wherever in a second of the server's clock it       *)
(* began.                                                                  *)
LEMMA Aged ==
  ASSUME Typed, NEW t \in Nat, NEW k \in {5, 60}, now >= t + (k + 1) * Tps
  PROVE  OlderThan(t, k)
<1> USE Machine
<1>1. now \in Nat /\ offset \in Nat
  BY DEF Typed
<1>2. CASE engine = "postgres"
  BY <1>1, <1>2 DEF OlderThan, Seconds
<1>3. CASE engine # "postgres"
  <2> DEFINE q == (offset + t) \div Tps
             p == (offset + now) \div Tps
  <2>1. /\ q \in Nat /\ q * Tps <= offset + t
        /\ p \in Nat /\ offset + now < p * Tps + Tps
    BY <1>1, FullSeconds
  <2> HIDE DEF p, q
  <2>2. SUFFICES ASSUME p <= q + k PROVE FALSE
    BY <1>3, <2>1 DEF OlderThan, Second, p, q
  <2>3. p * Tps <= (q + k) * Tps
    BY <2>1, <2>2, FullSeconds
  <2>4. (q + k) * Tps = q * Tps + k * Tps
    BY <2>1
  <2> QED  BY <1>1, <2>1, <2>3, <2>4
<1> QED  BY <1>2, <1>3

(* They do when a check begins.                                            *)
LEMMA InitReckons == Init => Reckons
<1> SUFFICES ASSUME Init PROVE Reckons
  OBVIOUS
<1>1. Typed
  BY Machine, Times DEF Init, Typed
<1>2. HolderKeepsTime
  BY Machine DEF Init, HolderKeepsTime, Beginning, Holding, LetGo
<1>3. CheckKeepsTime
  BY Machine, Times
  DEF Init, CheckKeepsTime, Awaiting, Woken, Napping, NapAfterStart, Blocked, Judged
<1>4. WaiterKeepsTime
  BY Machine DEF Init, WaiterKeepsTime, Waits, Asking, Waiting, Answered
<1>5. TimedVerdicts
  BY DEF Init, TimedVerdicts, PromptChecksPass, ErrorIsTimeout
<1> QED  BY <1>1, <1>2, <1>3, <1>4, <1>5 DEF Reckons

(* The clocks are natural numbers.                                         *)
Sizes ==
  /\ now \in Nat /\ held \in Nat /\ due \in Nat /\ timer \in Nat /\ began \in Nat
  /\ started \in Nat /\ since \in Nat /\ delay \in Nat /\ Hold \in Nat /\ Nap \in Nat

(* They are, by their types.                                               *)
LEMMA Numbers ==
  ASSUME Typed
  PROVE  Sizes
  BY Times DEF Typed, Sizes

(* When time passes every clock goes on by a tick, and none misses its     *)
(* end.                                                                    *)
LEMMA TickReckons == ASSUME Reckons, Tick PROVE Reckons'
<1> USE Machine DEF Sizes
<1>0. Typed /\ HolderKeepsTime /\ CheckKeepsTime /\ WaiterKeepsTime /\ TimedVerdicts
  BY DEF Reckons
<1>1. /\ now' = now + 1
      /\ UNCHANGED <<engine, check, offset, holder, began, waiter, started, since, error, pc, delay,
                     verdict>>
  BY DEF Tick
<1>2. /\ held' \in Nat /\ due' \in Nat /\ timer' \in Nat
      /\ held > 0 => held' = held - 1
      /\ due > 0 => due' = due - 1
      /\ timer > 0 => timer' = timer - 1
      /\ timer = 0 => timer' = 0
  BY <1>0 DEF Tick, Down, Typed
<1>3. /\ holder \in {"ended", "raised"} \/ held > 0
      /\ waiter \in {"none", "ended"} \/ due > 0
      /\ pc = "done" \/ timer > 0 \/ (pc = "blocked" /\ waiter # "ended")
  BY DEF Tick, HolderIdle, WaiterIdle, CheckIdle
<1>4. /\ Hold' = Hold /\ Nap' = Nap /\ ReadyTimeout' = ReadyTimeout
      /\ Seconds(1)' = Tps /\ Seconds(3)' = 3 * Tps /\ Seconds(7)' = 7 * Tps
      /\ Seconds(20)' = 20 * Tps
  BY <1>1, TimesStay
<1>5. Sizes
  BY <1>0, Numbers
<1>6. Typed'
  BY <1>0, <1>1, <1>2 DEF Typed
<1>7. HolderKeepsTime'
  <2>1. Beginning'
    BY <1>0, <1>1, <1>2, <1>3, <1>5 DEF HolderKeepsTime, Beginning
  <2>2. Holding'
    BY <1>0, <1>1, <1>2, <1>3, <1>4, <1>5 DEF HolderKeepsTime, Holding
  <2>3. LetGo'
    BY <1>0, <1>1, <1>3, <1>4, <1>5 DEF HolderKeepsTime, LetGo
  <2> QED  BY <2>1, <2>2, <2>3 DEF HolderKeepsTime
<1>8. CheckKeepsTime'
  <2>1. Awaiting'
    BY <1>0, <1>1, <1>2, <1>3, <1>4, <1>5 DEF CheckKeepsTime, Awaiting
  <2>2. Woken'
    BY <1>0, <1>1, <1>2, <1>3, <1>5 DEF CheckKeepsTime, Woken
  <2>3. Napping'
    BY <1>0, <1>1, <1>2, <1>3, <1>4, <1>5 DEF CheckKeepsTime, Napping
  <2>4. NapAfterStart'
    BY <1>0, <1>1, <1>2, <1>3, <1>4, <1>5 DEF CheckKeepsTime, NapAfterStart
  <2>5. Blocked' /\ Judged'
    BY <1>0, <1>1, <1>2 DEF CheckKeepsTime, Blocked, Judged
  <2> QED  BY <2>1, <2>2, <2>3, <2>4, <2>5 DEF CheckKeepsTime
<1>9. WaiterKeepsTime'
  <2>1. Waits'
    BY <1>0, <1>1 DEF WaiterKeepsTime, Waits
  <2>2. Asking'
    BY <1>0, <1>1, <1>2, <1>3, <1>5 DEF WaiterKeepsTime, Asking
  <2>3. Waiting'
    BY <1>0, <1>1, <1>2, <1>3, <1>4, <1>5, Times DEF WaiterKeepsTime, Waiting
  <2>4. Answered'
    BY <1>0, <1>1, <1>3, <1>4, <1>5, Times DEF WaiterKeepsTime, Answered, CheckKeepsTime, Blocked
  <2> QED  BY <2>1, <2>2, <2>3, <2>4 DEF WaiterKeepsTime
<1>10. TimedVerdicts'
  BY <1>0, <1>1, <1>4, Times
  DEF TimedVerdicts, PromptChecksPass, ErrorIsTimeout, ProcessRaised, TooLate
<1> QED  BY <1>6, <1>7, <1>8, <1>9, <1>10 DEF Reckons

(* Time and the check stand still.                                         *)
ClockStands ==
  /\ UNCHANGED <<engine, check, now, offset>>
  /\ Hold' = Hold /\ Nap' = Nap /\ ReadyTimeout' = ReadyTimeout
  /\ Seconds(1)' = Tps /\ Seconds(3)' = 3 * Tps /\ Seconds(7)' = 7 * Tps
  /\ Seconds(20)' = 20 * Tps

(* Every step but the passing of time leaves the clock and the check be.   *)
LEMMA ActsKeepTime ==
  ASSUME Acts
  PROVE  ClockStands
<1>1. UNCHANGED <<engine, check, now, offset>>
  BY DEF Acts, HolderBegins, HolderRaises, HolderEnds, NotReady, StartWaiter, NapAlone, WaiterAsks,
         WaiterRaises, WaiterTimesOut, WaiterFails, LookForWait, LookForTransaction, LookAtError,
         Concludes
<1> QED  BY <1>1, TimesStay DEF ClockStands

(* The holder begins, and wakes the check.                                 *)
LEMMA HolderBeginsReckons == ASSUME Reckons, HolderBegins PROVE Reckons'
<1> USE Machine DEF ClockStands, Sizes
<1>0. Typed /\ HolderKeepsTime /\ CheckKeepsTime /\ WaiterKeepsTime /\ TimedVerdicts
  BY DEF Reckons
<1>1. ClockStands
  BY ActsKeepTime DEF Acts
<1>2. Sizes
  BY <1>0, Numbers
<1>3. /\ pc = "await" /\ pc' = "woken" /\ holder' = "holding" /\ held' = Hold /\ began' = now
      /\ delay = 0 /\ timer' \in Nat /\ delay' = timer'
      /\ waiter = "none" /\ verdict = "none"
      /\ UNCHANGED <<waiter, due, started, since, error, verdict>>
  <2>1. pc = "await" /\ waiter = "none" /\ delay = 0 /\ verdict = "none"
    BY <1>0 DEF HolderBegins, HolderKeepsTime, Beginning, CheckKeepsTime, Awaiting, Judged
  <2> QED  BY <1>2, <2>1 DEF HolderBegins, After, waiterVars
<1>4. Typed'
  BY <1>0, <1>1, <1>2, <1>3 DEF Typed
<1>5. HolderKeepsTime'
  BY <1>0, <1>1, <1>2, <1>3 DEF HolderKeepsTime, Beginning, Holding, LetGo
<1>6. CheckKeepsTime'
  BY <1>0, <1>1, <1>2, <1>3
  DEF CheckKeepsTime, Awaiting, Woken, Napping, NapAfterStart, Blocked, Judged
<1>7. WaiterKeepsTime'
  BY <1>0, <1>1, <1>2, <1>3 DEF WaiterKeepsTime, Waits, Asking, Waiting, Answered
<1>8. TimedVerdicts'
  BY <1>0, <1>1, <1>2, <1>3
  DEF TimedVerdicts, PromptChecksPass, ErrorIsTimeout, ProcessRaised, TooLate
<1> QED  BY <1>4, <1>5, <1>6, <1>7, <1>8 DEF Reckons

(* The holder raises, which is a reason to fail.                           *)
LEMMA HolderRaisesReckons == ASSUME Reckons, HolderRaises PROVE Reckons'
<1> USE Machine DEF ClockStands, Sizes
<1>0. Typed /\ HolderKeepsTime /\ CheckKeepsTime /\ WaiterKeepsTime /\ TimedVerdicts
  BY DEF Reckons
<1>1. ClockStands
  BY ActsKeepTime DEF Acts
<1>2. Sizes
  BY <1>0, Numbers
<1>3. /\ holder = "starting" /\ holder' = "raised" /\ verdict = "none"
      /\ UNCHANGED <<held, began, waiter, due, started, since, error, pc, timer, delay, verdict>>
  BY <1>0 DEF HolderRaises, waiterVars, checkVars, HolderKeepsTime, Beginning, CheckKeepsTime,
              Judged
<1>4. Typed'
  BY <1>0, <1>1, <1>2, <1>3 DEF Typed
<1>5. HolderKeepsTime'
  BY <1>0, <1>1, <1>2, <1>3 DEF HolderKeepsTime, Beginning, Holding, LetGo
<1>6. CheckKeepsTime'
  BY <1>0, <1>1, <1>2, <1>3
  DEF CheckKeepsTime, Awaiting, Woken, Napping, NapAfterStart, Blocked, Judged
<1>7. WaiterKeepsTime'
  BY <1>0, <1>1, <1>2, <1>3 DEF WaiterKeepsTime, Waits, Asking, Waiting, Answered
<1>8. TimedVerdicts'
  BY <1>0, <1>1, <1>2, <1>3
  DEF TimedVerdicts, PromptChecksPass, ErrorIsTimeout, ProcessRaised, TooLate
<1> QED  BY <1>4, <1>5, <1>6, <1>7, <1>8 DEF Reckons

(* The holder ends at its time, and who waits gets the lock.               *)
LEMMA HolderEndsReckons == ASSUME Reckons, HolderEnds PROVE Reckons'
<1> USE Machine DEF ClockStands, Sizes
<1>0. Typed /\ HolderKeepsTime /\ CheckKeepsTime /\ WaiterKeepsTime /\ TimedVerdicts
  BY DEF Reckons
<1>1. ClockStands
  BY ActsKeepTime DEF Acts
<1>2. Sizes
  BY <1>0, Numbers
<1>3. /\ holder = "holding" /\ held = 0 /\ holder' = "ended" /\ due' = 0 /\ now = began + Hold
      /\ waiter' = IF waiter = "waiting" THEN "ended" ELSE waiter
      /\ UNCHANGED <<held, began, started, since, error, pc, timer, delay, verdict>>
      /\ pc = "blocked" => check = "lock_timeout"
  BY <1>0, <1>2 DEF HolderEnds, checkVars, HolderKeepsTime, Holding, CheckKeepsTime, Blocked
<1>4. Typed'
  BY <1>0, <1>1, <1>2, <1>3 DEF Typed
<1>5. HolderKeepsTime'
  BY <1>0, <1>1, <1>2, <1>3 DEF HolderKeepsTime, Beginning, Holding, LetGo
<1>6. CheckKeepsTime'
  BY <1>0, <1>1, <1>2, <1>3
  DEF CheckKeepsTime, Awaiting, Woken, Napping, NapAfterStart, Blocked, Judged
<1>7. WaiterKeepsTime'
  <2>1. Waits'
    BY <1>0, <1>1, <1>3 DEF WaiterKeepsTime, Waits
  <2>2. Asking'
    BY <1>0, <1>1, <1>2, <1>3 DEF WaiterKeepsTime, Asking
  <2>3. Waiting'
    BY <1>3 DEF Waiting
  <2>4. Answered'
    <3>1. waiter = "waiting" /\ check # "lock_wait" => now <= started + Step + 3 * Tps
      BY <1>0, <1>2, Times DEF WaiterKeepsTime, Waiting
    <3>2. waiter = "waiting" => error = "none"
      BY <1>0 DEF WaiterKeepsTime, Waits
    <3> QED  BY <1>0, <1>1, <1>2, <1>3, <3>1, <3>2, Times DEF WaiterKeepsTime, Answered
  <2> QED  BY <2>1, <2>2, <2>3, <2>4 DEF WaiterKeepsTime
<1>8. TimedVerdicts'
  BY <1>0, <1>1, <1>2, <1>3
  DEF TimedVerdicts, PromptChecksPass, ErrorIsTimeout, ProcessRaised, TooLate
<1> QED  BY <1>4, <1>5, <1>6, <1>7, <1>8 DEF Reckons

(* The wait for the holder ends without it only if it raised.              *)
LEMMA NotReadyReckons == ASSUME Reckons, NotReady PROVE Reckons'
<1> USE Machine DEF ClockStands, Sizes
<1>0. Typed /\ HolderKeepsTime /\ CheckKeepsTime /\ WaiterKeepsTime /\ TimedVerdicts
  BY DEF Reckons
<1>1. ClockStands
  BY ActsKeepTime DEF Acts
<1>2. Sizes
  BY <1>0, Numbers
<1>3. /\ pc = "await" /\ pc' = "woken" /\ holder = "raised" /\ waiter = "none"
      /\ verdict = "none"
      /\ UNCHANGED <<holder, held, began, waiter, due, started, since, error>>
      /\ UNCHANGED <<timer, delay, verdict>>
  <2>1. now = 30 * Tps
    BY <1>0, <1>2, Times DEF NotReady, CheckKeepsTime, Awaiting
  <2>2. holder # "starting"
    BY <1>0, <1>2, <2>1 DEF HolderKeepsTime, Beginning
  <2> QED  BY <1>0, <2>2 DEF NotReady, holderVars, waiterVars, CheckKeepsTime, Awaiting, Judged
<1>4. Typed'
  BY <1>0, <1>1, <1>2, <1>3 DEF Typed
<1>5. HolderKeepsTime'
  BY <1>0, <1>1, <1>2, <1>3 DEF HolderKeepsTime, Beginning, Holding, LetGo
<1>6. CheckKeepsTime'
  BY <1>0, <1>1, <1>2, <1>3
  DEF CheckKeepsTime, Awaiting, Woken, Napping, NapAfterStart, Blocked, Judged
<1>7. WaiterKeepsTime'
  BY <1>0, <1>1, <1>2, <1>3 DEF WaiterKeepsTime, Waits, Asking, Waiting, Answered
<1>8. TimedVerdicts'
  BY <1>0, <1>1, <1>2, <1>3
  DEF TimedVerdicts, PromptChecksPass, ErrorIsTimeout, ProcessRaised, TooLate
<1> QED  BY <1>4, <1>5, <1>6, <1>7, <1>8 DEF Reckons

(* The one who waits is started while the holder holds the lock.           *)
LEMMA StartWaiterReckons == ASSUME Reckons, StartWaiter PROVE Reckons'
<1> USE Machine DEF ClockStands, Sizes
<1>0. Typed /\ HolderKeepsTime /\ CheckKeepsTime /\ WaiterKeepsTime /\ TimedVerdicts
  BY DEF Reckons
<1>1. ClockStands
  BY ActsKeepTime DEF Acts
<1>2. Sizes
  BY <1>0, Numbers
<1>3. /\ pc = "woken" /\ check # "long_transaction" /\ waiter = "none" /\ verdict = "none"
      /\ holder # "starting" /\ (holder # "raised" => now = began + delay) /\ since = 0
      /\ error = "none" /\ waiter' = "starting" /\ started' = now
      /\ UNCHANGED <<holder, held, began, since, error, verdict>>
  <2>1. holder # "starting" /\ waiter = "none" /\ verdict = "none" /\ since = 0 /\ error = "none"
    BY <1>0 DEF StartWaiter, HolderKeepsTime, Beginning, CheckKeepsTime, Woken, Judged,
                WaiterKeepsTime, Waits
  <2>2. holder # "raised" => now = began + delay
    BY <1>0, <1>2 DEF StartWaiter, CheckKeepsTime, Woken
  <2> QED  BY <2>1, <2>2 DEF StartWaiter, holderVars
<1>4. /\ due' \in Nat
      /\ check = "lock_wait" => due' <= Start
      /\ check # "lock_wait" => due' <= Step
  BY DEF StartWaiter
<1>5. \/ /\ check = "lock_wait" /\ pc' = "nap"
         /\ \E late \in Nat : timer' = Nap + late /\ delay' = delay + late
      \/ check # "lock_wait" /\ pc' = "blocked" /\ timer = 0 /\ UNCHANGED <<timer, delay>>
  BY DEF StartWaiter, After
<1>6. Typed'
  BY <1>0, <1>1, <1>2, <1>3, <1>4, <1>5 DEF Typed
<1>7. HolderKeepsTime'
  BY <1>0, <1>1, <1>2, <1>3, <1>4, <1>5 DEF HolderKeepsTime, Beginning, Holding, LetGo
<1>8. CheckKeepsTime'
  <2>1. Awaiting' /\ Woken'
    BY <1>5 DEF Awaiting, Woken
  <2>2. Napping'
    BY <1>1, <1>2, <1>3, <1>5 DEF Napping
  <2>3. NapAfterStart'
    BY <1>1, <1>2, <1>3, <1>5 DEF NapAfterStart
  <2>4. Blocked' /\ Judged'
    BY <1>0, <1>1, <1>3, <1>5 DEF Typed, Blocked, Judged
  <2> QED  BY <2>1, <2>2, <2>3, <2>4 DEF CheckKeepsTime
<1>9. WaiterKeepsTime'
  <2>1. began <= now
    BY <1>0 DEF Typed
  <2>2. Waits'
    BY <1>1, <1>3, <2>1 DEF Waits
  <2>3. Asking'
    <3>1. /\ now' = now /\ started' = now /\ check' = check /\ now \in Nat
          /\ now' \in Nat /\ started' \in Nat
      BY <1>1, <1>2, <1>3
    <3>2. /\ check = "lock_wait" => now + due' <= now + Start
          /\ check # "lock_wait" => now + due' <= now + Step
      BY <1>4, <3>1, Later
    <3> QED  BY <1>4, <3>1, <3>2 DEF Asking
  <2>4. Waiting' /\ Answered'
    BY <1>3 DEF Waiting, Answered
  <2> QED  BY <2>2, <2>3, <2>4 DEF WaiterKeepsTime
<1>10. TimedVerdicts'
  BY <1>0, <1>1, <1>2, <1>3, <1>4, <1>5
  DEF TimedVerdicts, PromptChecksPass, ErrorIsTimeout, ProcessRaised, TooLate
<1> QED  BY <1>6, <1>7, <1>8, <1>9, <1>10 DEF Reckons

(* The sleep beside a long transaction begins with it.                     *)
LEMMA NapAloneReckons == ASSUME Reckons, NapAlone PROVE Reckons'
<1> USE Machine DEF ClockStands, Sizes
<1>0. Typed /\ HolderKeepsTime /\ CheckKeepsTime /\ WaiterKeepsTime /\ TimedVerdicts
  BY DEF Reckons
<1>1. ClockStands
  BY ActsKeepTime DEF Acts
<1>2. Sizes
  BY <1>0, Numbers
<1>3. /\ pc = "woken" /\ pc' = "nap" /\ check = "long_transaction" /\ waiter = "none"
      /\ holder # "starting" /\ (holder # "raised" => now = began + delay) /\ verdict = "none"
      /\ UNCHANGED <<holder, held, began, waiter, due, started, since, error, verdict>>
  <2>1. holder # "starting" /\ waiter = "none" /\ verdict = "none"
    BY <1>0 DEF NapAlone, HolderKeepsTime, Beginning, CheckKeepsTime, Woken, Judged
  <2>2. holder # "raised" => now = began + delay
    BY <1>0, <1>2 DEF NapAlone, CheckKeepsTime, Woken
  <2> QED  BY <2>1, <2>2 DEF NapAlone, holderVars, waiterVars
<1>4. \E late \in Nat : timer' = Nap + late /\ delay' = delay + late
  BY DEF NapAlone, After
<1>5. Typed'
  BY <1>0, <1>1, <1>2, <1>3, <1>4 DEF Typed
<1>6. HolderKeepsTime'
  BY <1>0, <1>1, <1>2, <1>3, <1>4 DEF HolderKeepsTime, Beginning, Holding, LetGo
<1>7. CheckKeepsTime'
  BY <1>0, <1>1, <1>2, <1>3, <1>4
  DEF CheckKeepsTime, Awaiting, Woken, Napping, NapAfterStart, Blocked, Judged
<1>8. WaiterKeepsTime'
  BY <1>0, <1>1, <1>2, <1>3, <1>4 DEF WaiterKeepsTime, Waits, Asking, Waiting, Answered
<1>9. TimedVerdicts'
  BY <1>0, <1>1, <1>2, <1>3, <1>4
  DEF TimedVerdicts, PromptChecksPass, ErrorIsTimeout, ProcessRaised, TooLate
<1> QED  BY <1>5, <1>6, <1>7, <1>8, <1>9 DEF Reckons

(* It asks, and its limit begins.                                          *)
LEMMA WaiterAsksReckons == ASSUME Reckons, WaiterAsks PROVE Reckons'
<1> USE Machine DEF ClockStands, Sizes
<1>0. Typed /\ HolderKeepsTime /\ CheckKeepsTime /\ WaiterKeepsTime /\ TimedVerdicts
  BY DEF Reckons
<1>1. ClockStands
  BY ActsKeepTime DEF Acts
<1>2. Sizes
  BY <1>0, Numbers
<1>3. /\ waiter = "starting" /\ due = 0 /\ since = 0 /\ error = "none"
      /\ check # "long_transaction" /\ pc # "await" /\ holder # "starting"
      /\ UNCHANGED <<holder, held, began, started, error, pc, timer, delay, verdict>>
      /\ pc = "blocked" => check = "lock_timeout"
      /\ pc = "done" => check = "lock_wait"
  <2>1. check # "long_transaction" /\ since = 0 /\ error = "none"
    BY <1>0 DEF WaiterAsks, WaiterKeepsTime, Waits
  <2>2. /\ pc # "await" /\ (pc = "blocked" => check = "lock_timeout")
        /\ pc = "done" => check = "lock_wait"
    BY <1>0, <2>1 DEF WaiterAsks, CheckKeepsTime, Awaiting, Blocked, Judged, Typed
  <2>3. holder # "starting"
    BY <1>0, <2>2 DEF HolderKeepsTime, Beginning
  <2> QED  BY <2>1, <2>2, <2>3 DEF WaiterAsks, holderVars, checkVars
<1>4. /\ check = "lock_wait" => now <= started + Start
      /\ check # "lock_wait" => now <= started + Step
  BY <1>0, <1>2, <1>3 DEF WaiterKeepsTime, Asking
<1>5. \/ /\ holder = "holding" /\ waiter' = "waiting" /\ since' = now /\ due' \in Nat
         /\ check = "lock_timeout" => due' <= 3 * Tps
         /\ check # "lock_timeout" => due' >= 20 * Tps
      \/ holder # "holding" /\ waiter' = "ended" /\ UNCHANGED <<since, due>>
  BY LimitTimes DEF WaiterAsks
<1>6. Typed'
  BY <1>0, <1>1, <1>2, <1>3, <1>4, <1>5 DEF Typed
<1>7. HolderKeepsTime'
  BY <1>0, <1>1, <1>2, <1>3, <1>4, <1>5 DEF HolderKeepsTime, Beginning, Holding, LetGo
<1>8. CheckKeepsTime'
  BY <1>0, <1>1, <1>2, <1>3, <1>4, <1>5
  DEF CheckKeepsTime, Awaiting, Woken, Napping, NapAfterStart, Blocked, Judged
<1>9. WaiterKeepsTime'
  <2>1. Waits'
    BY <1>0, <1>1, <1>3, <1>5 DEF WaiterKeepsTime, Waits
  <2>2. Asking'
    BY <1>5 DEF Asking
  <2>3. Waiting'
    <3>1. started <= now
      BY <1>0 DEF Typed
    <3>2. CASE check = "lock_wait"
      BY <1>1, <1>2, <1>3, <1>5, <3>1, <3>2 DEF Waiting
    <3>3. CASE check # "lock_wait"
      <4>1. check = "lock_timeout"
        BY <1>0, <1>3, <3>3 DEF Typed
      <4> QED  BY <1>1, <1>2, <1>3, <1>4, <1>5, <3>1, <3>3, <4>1 DEF Waiting
    <3> QED  BY <3>2, <3>3
  <2>4. Answered'
    <3>1. holder # "holding" => holder \in {"ended", "raised"}
      BY <1>0, <1>3 DEF Typed
    <3> QED  BY <1>1, <1>2, <1>3, <1>4, <1>5, <3>1 DEF Answered
  <2> QED  BY <2>1, <2>2, <2>3, <2>4 DEF WaiterKeepsTime
<1>10. TimedVerdicts'
  BY <1>0, <1>1, <1>2, <1>3, <1>4, <1>5
  DEF TimedVerdicts, PromptChecksPass, ErrorIsTimeout, ProcessRaised, TooLate
<1> QED  BY <1>6, <1>7, <1>8, <1>9, <1>10 DEF Reckons

(* It raises, which is a reason to fail.                                   *)
LEMMA WaiterRaisesReckons == ASSUME Reckons, WaiterRaises PROVE Reckons'
<1> USE Machine DEF ClockStands, Sizes
<1>0. Typed /\ HolderKeepsTime /\ CheckKeepsTime /\ WaiterKeepsTime /\ TimedVerdicts
  BY DEF Reckons
<1>1. ClockStands
  BY ActsKeepTime DEF Acts
<1>2. Sizes
  BY <1>0, Numbers
<1>3. /\ waiter = "starting" /\ due = 0 /\ waiter' = "ended" /\ error' = "connection"
      /\ UNCHANGED <<holder, held, began, due, started, since, pc, timer, delay, verdict>>
      /\ pc = "blocked" => check = "lock_timeout"
      /\ pc = "done" => check = "lock_wait"
  <2>1. check # "long_transaction"
    BY <1>0 DEF WaiterRaises, WaiterKeepsTime, Waits
  <2>2. (pc = "blocked" => check = "lock_timeout") /\ (pc = "done" => check = "lock_wait")
    BY <1>0, <2>1 DEF WaiterRaises, CheckKeepsTime, Blocked, Judged, Typed
  <2> QED  BY <2>2 DEF WaiterRaises, WaiterFails, holderVars, checkVars
<1>4. Typed'
  BY <1>0, <1>1, <1>2, <1>3, Times DEF Typed
<1>5. HolderKeepsTime'
  BY <1>0, <1>1, <1>2, <1>3, Times DEF HolderKeepsTime, Beginning, Holding, LetGo
<1>6. CheckKeepsTime'
  BY <1>0, <1>1, <1>2, <1>3, Times
  DEF CheckKeepsTime, Awaiting, Woken, Napping, NapAfterStart, Blocked, Judged
<1>7. WaiterKeepsTime'
  BY <1>0, <1>1, <1>2, <1>3, Times DEF WaiterKeepsTime, Waits, Asking, Waiting, Answered
<1>8. TimedVerdicts'
  <2>1. verdict = "pass" => check # "lock_timeout"
    BY <1>0, <1>3 DEF CheckKeepsTime, Judged
  <2>2. ErrorIsTimeout'
    BY <1>1, <1>3, <2>1 DEF ErrorIsTimeout
  <2>3. TooLate => TooLate'
    BY <1>1, <1>3, Times DEF TooLate
  <2>4. error = "none"
    BY <1>0, <1>3 DEF WaiterKeepsTime, Waits
  <2>5. PromptChecksPass'
    BY <1>0, <1>3, <2>3, <2>4 DEF TimedVerdicts, PromptChecksPass, ProcessRaised
  <2> QED  BY <2>2, <2>5 DEF TimedVerdicts
<1> QED  BY <1>4, <1>5, <1>6, <1>7, <1>8 DEF Reckons

(* Its limit is over.                                                      *)
LEMMA WaiterTimesOutReckons == ASSUME Reckons, WaiterTimesOut PROVE Reckons'
<1> USE Machine DEF ClockStands, Sizes
<1>0. Typed /\ HolderKeepsTime /\ CheckKeepsTime /\ WaiterKeepsTime /\ TimedVerdicts
  BY DEF Reckons
<1>1. ClockStands
  BY ActsKeepTime DEF Acts
<1>2. Sizes
  BY <1>0, Numbers
<1>3. /\ waiter = "waiting" /\ due = 0 /\ waiter' = "ended" /\ error' = "timeout"
      /\ UNCHANGED <<holder, held, began, due, started, since, pc, timer, delay, verdict>>
      /\ pc = "blocked" => check = "lock_timeout"
      /\ pc = "done" => check = "lock_wait"
  <2>1. check # "long_transaction"
    BY <1>0 DEF WaiterTimesOut, WaiterKeepsTime, Waits
  <2>2. (pc = "blocked" => check = "lock_timeout") /\ (pc = "done" => check = "lock_wait")
    BY <1>0, <2>1 DEF WaiterTimesOut, CheckKeepsTime, Blocked, Judged, Typed
  <2> QED  BY <2>2 DEF WaiterTimesOut, WaiterFails, holderVars, checkVars
<1>4. Typed'
  BY <1>0, <1>1, <1>2, <1>3, Times DEF Typed
<1>5. HolderKeepsTime'
  BY <1>0, <1>1, <1>2, <1>3, Times DEF HolderKeepsTime, Beginning, Holding, LetGo
<1>6. CheckKeepsTime'
  BY <1>0, <1>1, <1>2, <1>3, Times
  DEF CheckKeepsTime, Awaiting, Woken, Napping, NapAfterStart, Blocked, Judged
<1>7. WaiterKeepsTime'
  BY <1>0, <1>1, <1>2, <1>3, Times DEF WaiterKeepsTime, Waits, Asking, Waiting, Answered
<1>8. TimedVerdicts'
  <2>1. verdict = "pass" => check # "lock_timeout"
    BY <1>0, <1>3 DEF CheckKeepsTime, Judged
  <2>2. ErrorIsTimeout'
    BY <1>1, <1>3, <2>1 DEF ErrorIsTimeout
  <2>3. TooLate => TooLate'
    BY <1>1, <1>3, Times DEF TooLate
  <2>4. error = "none"
    BY <1>0, <1>3 DEF WaiterKeepsTime, Waits
  <2>5. PromptChecksPass'
    BY <1>0, <1>3, <2>3, <2>4 DEF TimedVerdicts, PromptChecksPass, ProcessRaised
  <2> QED  BY <2>2, <2>5 DEF TimedVerdicts
<1> QED  BY <1>4, <1>5, <1>6, <1>7, <1>8 DEF Reckons

(* The look at who waits comes while the holder still holds the lock,      *)
(* after the wait has lasted longer than the threshold, and before its     *)
(* limit ends it.                                                          *)
LEMMA LookForWaitReckons == ASSUME Reckons, LookForWait PROVE Reckons'
<1> USE Machine DEF ClockStands, Sizes
<1>0. Typed /\ HolderKeepsTime /\ CheckKeepsTime /\ WaiterKeepsTime /\ TimedVerdicts
  BY DEF Reckons
<1>1. ClockStands
  BY ActsKeepTime DEF Acts
<1>2. Sizes
  BY <1>0, Numbers
<1>3. /\ check = "lock_wait" /\ pc = "nap" /\ pc' = "done" /\ timer = 0
      /\ UNCHANGED <<holder, held, began, waiter, due, started, since, error, timer, delay>>
      /\ verdict' = IF waiter = "waiting" /\ OlderThan(since, Threshold) THEN "pass" ELSE "fail"
  BY DEF LookForWait, Concludes, holderVars, waiterVars
<1>4. Typed'
  BY <1>0, <1>1, <1>2, <1>3 DEF Typed
<1>5. HolderKeepsTime'
  BY <1>0, <1>1, <1>2, <1>3 DEF HolderKeepsTime, Beginning, Holding, LetGo
<1>6. CheckKeepsTime'
  BY <1>0, <1>1, <1>2, <1>3
  DEF CheckKeepsTime, Awaiting, Woken, Napping, NapAfterStart, Blocked, Judged
<1>7. WaiterKeepsTime'
  BY <1>0, <1>1, <1>2, <1>3 DEF WaiterKeepsTime, Waits, Asking, Waiting, Answered
<1>8. TimedVerdicts'
  <2>1. ErrorIsTimeout'
    BY <1>1, <1>3 DEF ErrorIsTimeout
  <2> SUFFICES ASSUME holder # "raised", error # "connection", ~TooLate PROVE verdict' = "pass"
    <3>1. UNCHANGED <<holder, error, delay, check, since, started, engine>>
      BY <1>1, <1>3
    <3>2. TooLate => TooLate'
      BY <1>1, <3>1, Times DEF TooLate
    <3> QED  BY <2>1, <3>1, <3>2 DEF TimedVerdicts, PromptChecksPass, ProcessRaised
  <2>2. Hold = 8 * Tps /\ Nap = 6 * Tps
    BY <1>3, Times
  <2>3. delay < 2 * Tps
    BY <1>2, <2>2 DEF TooLate
  <2>4. engine = "postgres" => since - started < Tps
    BY <1>2, <1>3, Times DEF TooLate
  <2>5. engine # "postgres" => since - started < 1
    BY <1>2, <1>3 DEF TooLate
  <2>6. now = began + delay + 6 * Tps /\ now >= started + 6 * Tps /\ waiter # "none"
    BY <1>0, <1>2, <1>3, <2>2 DEF CheckKeepsTime, Napping, NapAfterStart
  <2>7. holder = "holding"
    <3>1. holder # "starting"
      BY <1>0, <1>3 DEF HolderKeepsTime, Beginning
    <3>2. holder # "ended"
      BY <1>0, <1>2, <1>3, <2>2, <2>3, <2>6 DEF HolderKeepsTime, LetGo
    <3> QED  BY <1>0, <3>1, <3>2 DEF Typed
  <2>8. waiter # "starting"
    BY <1>0, <1>2, <1>3, <2>6 DEF WaiterKeepsTime, Asking
  <2>9. waiter # "ended"
    <3>1. began <= started
      BY <1>0, <2>6 DEF WaiterKeepsTime, Waits
    <3>2. SUFFICES ASSUME waiter = "ended" PROVE FALSE
      OBVIOUS
    <3>3. error = "timeout"
      BY <1>0, <2>7, <3>2 DEF WaiterKeepsTime, Answered, Typed
    <3>4. now >= started + 20 * Tps
      BY <1>0, <1>3, <3>2, <3>3, Times DEF WaiterKeepsTime, Answered
    <3> QED  BY <1>2, <2>3, <2>6, <3>1, <3>4
  <2>10. waiter = "waiting"
    BY <1>0, <2>6, <2>8, <2>9 DEF Typed
  <2>11. OlderThan(since, 5)
    <3>1. engine = "postgres" => now - since > 5 * Tps
      BY <1>2, <2>4, <2>6
    <3>2. engine # "postgres" => now >= since + 6 * Tps
      BY <1>2, <2>5, <2>6
    <3>3. CASE engine = "postgres"
      BY <3>1, <3>3 DEF OlderThan, Seconds
    <3>4. CASE engine # "postgres"
      BY <1>0, <1>2, <3>2, <3>4, Aged
    <3> QED  BY <3>3, <3>4
  <2> QED  BY <1>3, <2>10, <2>11 DEF Threshold
<1> QED  BY <1>4, <1>5, <1>6, <1>7, <1>8 DEF Reckons

(* The look at the transaction comes while it is open, after it has        *)
(* lasted longer than the threshold.                                       *)
LEMMA LookForTransactionReckons == ASSUME Reckons, LookForTransaction PROVE Reckons'
<1> USE Machine DEF ClockStands, Sizes
<1>0. Typed /\ HolderKeepsTime /\ CheckKeepsTime /\ WaiterKeepsTime /\ TimedVerdicts
  BY DEF Reckons
<1>1. ClockStands
  BY ActsKeepTime DEF Acts
<1>2. Sizes
  BY <1>0, Numbers
<1>3. /\ check = "long_transaction" /\ pc = "nap" /\ pc' = "done" /\ timer = 0
      /\ holder' = IF holder = "raised" THEN holder ELSE "ended"
      /\ UNCHANGED <<held, began, waiter, due, started, since, error, timer, delay>>
      /\ verdict' = IF holder = "holding" /\ OlderThan(began, Threshold) THEN "pass" ELSE "fail"
  BY DEF LookForTransaction, Concludes, waiterVars
<1>4. waiter = "none"
  BY <1>0, <1>3 DEF WaiterKeepsTime, Waits
<1>5. Typed'
  BY <1>0, <1>1, <1>2, <1>3, <1>4 DEF Typed
<1>6. HolderKeepsTime'
  BY <1>0, <1>1, <1>2, <1>3, <1>4 DEF HolderKeepsTime, Beginning, Holding, LetGo
<1>7. CheckKeepsTime'
  BY <1>0, <1>1, <1>2, <1>3, <1>4
  DEF CheckKeepsTime, Awaiting, Woken, Napping, NapAfterStart, Blocked, Judged
<1>8. WaiterKeepsTime'
  BY <1>0, <1>1, <1>2, <1>3, <1>4 DEF WaiterKeepsTime, Waits, Asking, Waiting, Answered
<1>9. TimedVerdicts'
  <2>1. ErrorIsTimeout'
    BY <1>1, <1>3 DEF ErrorIsTimeout
  <2> SUFFICES ASSUME holder # "raised", ~TooLate PROVE verdict' = "pass"
    <3>1. TooLate => TooLate'
      BY <1>1, <1>3, Times DEF TooLate
    <3>2. holder = "raised" => holder' = "raised"
      BY <1>3
    <3> QED  BY <2>1, <3>1, <3>2 DEF TimedVerdicts, PromptChecksPass, ProcessRaised
  <2>2. Hold = 65 * Tps /\ Nap = 62 * Tps
    BY <1>3, Times
  <2>3. delay < 3 * Tps
    BY <1>2, <2>2 DEF TooLate
  <2>4. now = began + delay + 62 * Tps
    BY <1>0, <1>2, <1>3, <2>2 DEF CheckKeepsTime, Napping
  <2>5. holder = "holding"
    <3>1. holder # "starting"
      BY <1>0, <1>3 DEF HolderKeepsTime, Beginning
    <3>2. holder # "ended"
      BY <1>0, <1>2, <1>3, <2>2, <2>3, <2>4 DEF HolderKeepsTime, LetGo
    <3> QED  BY <1>0, <3>1, <3>2 DEF Typed
  <2>6. now >= began + (60 + 1) * Tps
    BY <1>2, <2>4
  <2>7. OlderThan(began, 60)
    BY <1>0, <1>2, <2>6, Aged
  <2> QED  BY <1>3, <2>5, <2>7 DEF Threshold
<1> QED  BY <1>5, <1>6, <1>7, <1>8, <1>9 DEF Reckons

(* The answer to check_lock_timeout comes before the holder ends, so it    *)
(* is an error, and in less than 7 s.                                      *)
LEMMA LookAtErrorReckons == ASSUME Reckons, LookAtError PROVE Reckons'
<1> USE Machine DEF ClockStands, Sizes
<1>0. Typed /\ HolderKeepsTime /\ CheckKeepsTime /\ WaiterKeepsTime /\ TimedVerdicts
  BY DEF Reckons
<1>1. ClockStands
  BY ActsKeepTime DEF Acts
<1>2. Sizes
  BY <1>0, Numbers
<1>3. /\ check = "lock_timeout" /\ pc = "blocked" /\ pc' = "done" /\ waiter = "ended"
      /\ UNCHANGED <<holder, held, began, waiter, due, started, since, error, timer, delay>>
      /\ verdict' = IF error # "none" /\ now - started < Seconds(7) THEN "pass" ELSE "fail"
  BY DEF LookAtError, Concludes, holderVars, waiterVars
<1>4. Typed'
  BY <1>0, <1>1, <1>2, <1>3 DEF Typed
<1>5. HolderKeepsTime'
  BY <1>0, <1>1, <1>2, <1>3 DEF HolderKeepsTime, Beginning, Holding, LetGo
<1>6. CheckKeepsTime'
  BY <1>0, <1>1, <1>2, <1>3
  DEF CheckKeepsTime, Awaiting, Woken, Napping, NapAfterStart, Blocked, Judged
<1>7. WaiterKeepsTime'
  BY <1>0, <1>1, <1>2, <1>3 DEF WaiterKeepsTime, Waits, Asking, Waiting, Answered
<1>8. TimedVerdicts'
  <2>1. ErrorIsTimeout'
    BY <1>0, <1>3 DEF ErrorIsTimeout, ProcessRaised, Typed
  <2> SUFFICES ASSUME holder # "raised", ~TooLate PROVE verdict' = "pass"
    <3>1. TooLate => TooLate'
      BY <1>1, <1>3, Times DEF TooLate
    <3> QED  BY <1>3, <2>1, <3>1 DEF TimedVerdicts, PromptChecksPass, ProcessRaised
  <2>2. Hold = 8 * Tps /\ Nap = 6 * Tps
    BY <1>3, Times
  <2>3. delay < 2 * Tps
    BY <1>2, <2>2 DEF TooLate
  <2>4. started = began + delay /\ now <= started + Step + 3 * Tps
    BY <1>0, <1>2, <1>3, Times DEF CheckKeepsTime, Blocked, WaiterKeepsTime, Answered
  <2>5. error # "none"
    <3>1. SUFFICES ASSUME error = "none" PROVE FALSE
      OBVIOUS
    <3>2. holder = "ended"
      BY <1>0, <1>3, <3>1 DEF WaiterKeepsTime, Answered
    <3>3. now >= began + 8 * Tps
      BY <1>0, <1>2, <1>3, <2>2, <3>2 DEF HolderKeepsTime, LetGo
    <3> QED  BY <1>2, <2>3, <2>4, <3>3
  <2>6. now - started < 7 * Tps
    BY <1>2, <2>4
  <2> QED  BY <1>3, <2>5, <2>6, Times
<1> QED  BY <1>4, <1>5, <1>6, <1>7, <1>8 DEF Reckons

(* Every step keeps them.                                                  *)
LEMMA NextReckons == Reckons /\ [Next]_vars => Reckons'
<1> SUFFICES ASSUME Reckons, [Next]_vars PROVE Reckons'
  OBVIOUS
<1>1. CASE UNCHANGED vars
  <2>1. /\ UNCHANGED <<engine, check, now, offset, holder, held, began, waiter, due, started>>
        /\ UNCHANGED <<since, error, pc, timer, delay, verdict>>
    BY <1>1 DEF vars, holderVars, waiterVars, checkVars
  <2> QED  BY <2>1
           DEF Reckons, Typed, HolderKeepsTime, Beginning, Holding, LetGo, CheckKeepsTime, Awaiting,
               Woken, Napping, NapAfterStart, Blocked, Judged, WaiterKeepsTime, Waits, Asking,
               Waiting, Answered, TimedVerdicts, PromptChecksPass, ErrorIsTimeout, ProcessRaised,
               TooLate, Hold, Nap, ReadyTimeout, Seconds
<1>2. CASE Acts
  BY <1>2, HolderBeginsReckons, HolderRaisesReckons, HolderEndsReckons, NotReadyReckons,
     StartWaiterReckons, NapAloneReckons, WaiterAsksReckons, WaiterRaisesReckons,
     WaiterTimesOutReckons, LookForWaitReckons, LookForTransactionReckons, LookAtErrorReckons
  DEF Acts
<1> QED  BY <1>1, <1>2, TickReckons DEF Next, Ended

(* A statement begins to wait with its limit, and time only takes from it. *)
LEMMA NextLimited == Typed /\ Limited /\ [Next]_vars => Limited'
<1> SUFFICES ASSUME Typed, Limited, [Next]_vars PROVE Limited'
  OBVIOUS
<1> USE DEF Limited, holderVars, waiterVars, checkVars
<1>1. CASE WaiterAsks
  <2>1. waiter' = "waiting" => due' \in Limits
    BY <1>1 DEF WaiterAsks
  <2>2. check' = check
    BY <1>1 DEF WaiterAsks
  <2>3. Seconds(3) = 3 * Tps /\ Seconds(21) = 21 * Tps
    BY DEF Seconds
  <2> QED  BY <2>1, <2>2, <2>3, LimitTimes DEF Seconds
<1>2. CASE Tick
  <2>1. due \in Nat /\ due' = (IF due > 0 THEN due - 1 ELSE 0) /\ UNCHANGED <<waiter, check>>
    BY <1>2 DEF Tick, Down, Typed
  <2>2. Seconds(3) \in Nat /\ Seconds(21) \in Nat
    BY Machine DEF Seconds
  <2>3. due' <= due
    BY <2>1
  <2>4. SUFFICES ASSUME waiter = "waiting"
                 PROVE  due' <= Seconds(IF check = "lock_timeout" THEN 3 ELSE 21)
    BY <2>1 DEF Seconds
  <2>5. due' \in Nat
    BY <2>1
  <2> QED  BY <2>1, <2>2, <2>3, <2>4, <2>5
<1>3. CASE StartWaiter \/ HolderEnds \/ WaiterRaises \/ WaiterTimesOut
  BY <1>3 DEF StartWaiter, HolderEnds, WaiterRaises, WaiterTimesOut, WaiterFails
<1>4. CASE HolderBegins \/ HolderRaises \/ NotReady \/ NapAlone \/ LookForWait
           \/ LookForTransaction \/ LookAtError \/ UNCHANGED vars
  <2>1. UNCHANGED <<waiter, due, check>>
    BY <1>4 DEF HolderBegins, HolderRaises, NotReady, NapAlone, LookForWait, LookForTransaction,
                LookAtError, Concludes, vars
  <2> QED  BY <2>1 DEF Seconds
<1> QED  BY <1>1, <1>2, <1>3, <1>4 DEF Next, Acts, Ended

(* The inductive invariant of both theorems.                               *)
TInv == Reckons /\ Limited

(* It holds when a check begins.                                           *)
LEMMA InitTimed == Init => TInv
  BY InitReckons DEF TInv, Limited, Init

(* Every step keeps it.                                                    *)
LEMMA NextTimed == TInv /\ [Next]_vars => TInv'
<1> SUFFICES ASSUME TInv, [Next]_vars PROVE TInv'
  OBVIOUS
<1>1. Typed
  BY DEF TInv, Reckons
<1> QED  BY <1>1, NextReckons, NextLimited DEF TInv

(* The types of the processes and of their clocks, and the limit of the    *)
(* statement that waits for a lock.                                        *)
THEOREM TimedTyped == Spec => []TypeOK
<1>1. TInv => TypeOK
  BY Parts DEF TInv, Reckons
<1> QED  BY <1>1, InitTimed, NextTimed, PTL DEF Spec

(* On every machine that is fast enough a check fails only if a process    *)
(* raised or time was lost, and check_lock_timeout passes on the time      *)
(* limit it names: for both products, whatever a tick is, and wherever in  *)
(* a second of the server's clock the check begins.                        *)
THEOREM VerdictsInTime == Spec => []TimedVerdicts
<1>1. TInv => TimedVerdicts
  BY DEF TInv, Reckons
<1> QED  BY <1>1, InitTimed, NextTimed, PTL DEF Spec
==============================================================================
