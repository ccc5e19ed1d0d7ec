-------------------------- MODULE ApiServerProofs --------------------------
(***************************************************************************)
(* What holds of the health API for any clients, time limits and check     *)
(* schedule, as long as the grace period outlasts a connection attempt,    *)
(* the start period outlasts the start, and one failed check is not yet    *)
(* enough to call the container unhealthy.                                 *)
(***************************************************************************)
EXTENDS ApiServer, TLAPS

(* A timer that runs down is a natural number, and no larger.              *)
LEMMA DownIsNat == \A n \in Nat : Down(n) \in Nat /\ (n > 0 => Down(n) = n - 1) /\ Down(n) <= n
  BY DEF Down

(* A step of one request changes nothing but that request's phase.         *)
LEMMA ServeMoves ==
  ASSUME TypeOK, NEW c \in Clients, Serve(c)
  PROVE  \E from, to \in Phases :
           /\ from \in {"queued", "handling", "connect", "query", "headers"}
           /\ request[c].phase = from
           /\ request' = [request EXCEPT ![c].phase = to]
           /\ from = "handling" /\ request[c].route = "/health" => to = "headers"
           /\ from = "queued" => to = "handling"
           /\ from = "headers" => to = "answered"
           /\ to \in {"connect", "query"} =>
                from = "connect" \/ request[c].route = "/health/dependencies"
           /\ UNCHANGED <<db, mainVars, stopVars, checkVars>>
<1> USE DEF Phases, Move
<1>1. CASE Accept(c)
  BY <1>1 DEF Accept
<1>2. CASE DoGet(c)
  BY <1>2 DEF DoGet
<1>3. CASE Connects(c) \/ Refused(c) \/ Raises(c) \/ QueryAnswered(c)
  BY <1>3 DEF Connects, Refused, Raises, QueryAnswered
<1>4. CASE SendBody(c)
  BY <1>4 DEF SendBody
<1> QED  BY <1>1, <1>2, <1>3, <1>4 DEF Serve

(* TypeOK in three parts, the first two for two provers. *)
Flags == held \in BOOLEAN /\ loop \in BOOLEAN /\ stop \in BOOLEAN /\ checking \in BOOLEAN

(* The second: where the threads, the requests and the timers are.         *)
Places ==
  /\ db \in DbStates
  /\ mpc \in {"down", "bind", "connect", "query", "wait", "raised", "closing"}
  /\ timer \in Nat
  /\ grace \in 0 .. Grace
  /\ request \in [Clients -> [route : Routes, phase : Phases]]
  /\ checkTimer \in Nat
  /\ streak \in 0 .. Retries
  /\ sinceStart \in 0 .. StartPeriod
  /\ health \in {"starting", "healthy", "unhealthy"}

(* The third: who asks the database.                                       *)
Askers ==
  \A c \in Clients :
    request[c].phase \in {"connect", "query"} => request[c].route = "/health/dependencies"

(* TypeOK is the three parts.                                              *)
LEMMA Parts == TypeOK <=> Flags /\ Places /\ Askers
  BY Zenon DEF TypeOK, Flags, Places, Askers

(* And so it is after a step.                                              *)
LEMMA PartsAfter == TypeOK' <=> Flags' /\ Places' /\ Askers'
  BY Zenon DEF TypeOK, Flags, Places, Askers

(* The types hold before the container starts.                             *)
LEMMA InitType == Init => TypeOK
<1> SUFFICES ASSUME Init PROVE TypeOK
  OBVIOUS
<1>1. Flags
  BY Zenon DEF Init, Flags
<1>2. NoRequest \in [route : Routes, phase : Phases]
  BY DEF NoRequest, Routes, Phases
<1>3. Places
  BY <1>2, ApiServerAssumption DEF Init, Places
<1>4. Askers
  BY DEF Init, Askers, NoRequest
<1> QED  BY <1>1, <1>3, <1>4, Parts

(* An end of the process ends every request.                               *)
LEMMA EndType == TypeOK /\ End => TypeOK'
<1> SUFFICES ASSUME TypeOK, End PROVE TypeOK'
  OBVIOUS
<1>1. request' \in [Clients -> [route : Routes, phase : Phases]]
  BY DEF TypeOK, End, Phases
<1>2. Flags'
  BY Zenon DEF End, Flags
<1>3. Places'
  BY <1>1, Parts, ApiServerAssumption DEF Places, End
<1>4. Askers'
  <2>1. request \in [Clients -> [route : Routes, phase : Phases]] /\ Askers
    BY Parts DEF Places
  <2> QED  BY <2>1 DEF Askers, End, Active
<1> QED  BY <1>2, <1>3, <1>4, PartsAfter

(* Every step keeps the flags Boolean.                                     *)
LEMMA NextFlags == TypeOK /\ [Next]_vars => Flags'
<1> SUFFICES ASSUME TypeOK, Flags, [Next]_vars PROVE Flags'
  BY Parts
<1> USE DEF Flags, mainVars, stopVars, checkVars
<1>1. CASE DbChanges \/ Start \/ Listen
  BY Zenon, <1>1 DEF DbChanges, Start, Listen
<1>2. CASE PortTaken \/ Close \/ GraceEnds \/ Killed
  BY Zenon, <1>2 DEF PortTaken, Close, GraceEnds, Killed, End
<1>3. CASE MainConnects \/ MainRefused \/ MainAnswered \/ MainRaises \/ Shutdown
  BY Zenon, <1>3 DEF MainConnects, MainRefused, MainAnswered, MainRaises, Shutdown, MainTo
<1>4. CASE Terminate
  BY Zenon, <1>4 DEF Terminate, End
<1>5. ASSUME NEW c \in Clients, Ask(c) PROVE Flags'
  BY Zenon, <1>5 DEF Ask
<1>6. ASSUME NEW c \in Clients, Serve(c) PROVE Flags'
  BY Zenon, <1>6, ServeMoves
<1>7. CASE BeginCheck \/ CheckPasses \/ CheckFails
  BY Zenon, <1>7 DEF BeginCheck, CheckPasses, CheckFails, CheckEnds
<1>8. CASE Tick
  <2>1. held' = (held \/ mpc = "query") /\ UNCHANGED <<loop, stop, checking>>
    BY Zenon, <1>8 DEF Tick
  <2> QED  BY Zenon, <2>1
<1>9. CASE UNCHANGED vars
  BY Zenon, <1>9 DEF vars
<1> QED  BY Zenon, <1>1, <1>2, <1>3, <1>4, <1>5, <1>6, <1>7, <1>8, <1>9 DEF Next

(* Every step leaves the threads, requests and timers in their places.     *)
LEMMA NextPlaces == TypeOK /\ [Next]_vars => Places'
<1> SUFFICES ASSUME TypeOK, Places, [Next]_vars PROVE Places'
  BY Parts
<1> USE ApiServerAssumption DEF Places, mainVars, stopVars, checkVars
<1>1. CASE DbChanges \/ Start \/ Listen
  BY <1>1 DEF DbChanges, Start, Listen
<1>2. CASE PortTaken \/ Close \/ GraceEnds \/ Killed
  BY <1>2, EndType, PartsAfter DEF PortTaken, Close, GraceEnds, Killed
<1>3. CASE MainConnects \/ MainRefused \/ MainAnswered \/ MainRaises \/ Shutdown
  BY <1>3 DEF MainConnects, MainRefused, MainAnswered, MainRaises, Shutdown, MainTo
<1>4. CASE Terminate
  BY <1>4, EndType, PartsAfter DEF Terminate
<1>5. ASSUME NEW c \in Clients, Ask(c) PROVE Places'
  BY <1>5 DEF Ask, Send, Phases
<1>6. ASSUME NEW c \in Clients, Serve(c) PROVE Places'
  BY <1>6, ServeMoves
<1>7. CASE BeginCheck
  BY <1>7 DEF BeginCheck, Send, Routes, Phases
<1>8. CASE CheckPasses \/ CheckFails
  <2>1. PICK passed \in BOOLEAN : CheckEnds(passed) /\ (~passed => streak < Retries)
    BY <1>8 DEF CheckPasses, CheckFails
  <2>2. request' \in [Clients -> [route : Routes, phase : Phases]]
    BY <2>1 DEF CheckEnds, Phases
  <2>3. streak' \in 0 .. Retries /\ health' \in {"starting", "healthy", "unhealthy"}
    BY <2>1 DEF CheckEnds
  <2>4. checkTimer' = CheckEvery /\ UNCHANGED <<db, mpc, timer, grace, sinceStart>>
    BY <2>1 DEF CheckEnds
  <2> QED  BY <2>2, <2>3, <2>4
<1>9. CASE Tick
  <2>1. /\ timer' = Down(timer) /\ grace' = Down(grace) /\ checkTimer' = Down(checkTimer)
        /\ sinceStart' = (IF sinceStart < StartPeriod THEN sinceStart + 1 ELSE sinceStart)
        /\ UNCHANGED <<db, mpc, request, streak, health>>
    BY <1>9 DEF Tick
  <2>2. timer' \in Nat /\ grace' \in 0 .. Grace /\ checkTimer' \in Nat
    BY <2>1 DEF Down
  <2>3. sinceStart' \in 0 .. StartPeriod
    BY <2>1
  <2> QED  BY <2>1, <2>2, <2>3
<1>10. CASE UNCHANGED vars
  BY <1>10 DEF vars
<1> QED  BY <1>1, <1>2, <1>3, <1>4, <1>5, <1>6, <1>7, <1>8, <1>9, <1>10 DEF Next

(* No step lets another request ask the database.                          *)
LEMMA NextAskers == TypeOK /\ [Next]_vars => Askers'
<1> SUFFICES ASSUME TypeOK, [Next]_vars PROVE Askers'
  OBVIOUS
<1>0. request \in [Clients -> [route : Routes, phase : Phases]] /\ Askers
  BY Parts DEF Places
<1> USE DEF Askers, mainVars, stopVars, checkVars
<1>1. CASE PortTaken \/ Close \/ GraceEnds \/ Killed
  BY <1>1, EndType, PartsAfter DEF PortTaken, Close, GraceEnds, Killed
<1>2. CASE Terminate
  BY <1>0, <1>2, EndType, PartsAfter DEF Terminate
<1>3. ASSUME NEW c \in Clients, Ask(c) PROVE Askers'
  BY <1>0, <1>3 DEF Ask, Send
<1>4. ASSUME NEW c \in Clients, Serve(c) PROVE Askers'
  BY <1>0, <1>4, ServeMoves
<1>5. CASE BeginCheck
  BY <1>0, <1>5 DEF BeginCheck, Send
<1>6. CASE CheckPasses \/ CheckFails
  <2>1. PICK passed \in BOOLEAN : CheckEnds(passed)
    BY <1>6 DEF CheckPasses, CheckFails
  <2> QED  BY <1>0, <2>1 DEF CheckEnds
<1>7. CASE UNCHANGED request
  BY <1>0, <1>7
<1>8. CASE DbChanges \/ Start \/ Listen \/ MainConnects \/ MainRefused \/ MainAnswered
           \/ MainRaises \/ Shutdown \/ Tick \/ UNCHANGED vars
  BY <1>7, <1>8 DEF DbChanges, Start, Listen, MainConnects, MainRefused, MainAnswered, MainRaises,
                    MainTo, Shutdown, Tick, vars
<1> QED  BY <1>1, <1>2, <1>3, <1>4, <1>5, <1>6, <1>8 DEF Next

(* Every step keeps TypeOK.                                                *)
LEMMA NextType == TypeOK /\ [Next]_vars => TypeOK'
  BY NextFlags, NextPlaces, NextAskers, PartsAfter

(* The process, its requests and its check keep their types.               *)
THEOREM TypeCorrect == Spec => []TypeOK
  BY InitType, NextType, PTL DEF Spec
----------------------------------------------------------------------------
(* While the main thread can still come to see the stop event, there is    *)
(* more left of the grace period than of its connection attempt.           *)
StopFits ==
  /\ mpc = "connect" => timer <= ConnectTimeout
  /\ mpc \in {"down", "bind"} => ~stop
  /\ stop /\ ~held /\ mpc # "raised" => grace > 0 /\ (mpc = "connect" => timer < grace)

(* A container that has not started has no stop to fit.                    *)
LEMMA InitStop == Init => StopFits
  BY DEF Init, StopFits

(* While time passes, the grace period stays ahead of the attempt.         *)
LEMMA TickStop == TypeOK /\ StopFits /\ Tick => StopFits'
<1> SUFFICES ASSUME TypeOK, StopFits, Tick PROVE StopFits'
  OBVIOUS
<1>1. Idle /\ Running
  BY DEF Tick
<1>2. /\ mpc \in {"raised", "wait", "bind", "connect", "query"}
      /\ mpc = "wait" => ~stop
      /\ mpc = "connect" => timer > 0
  BY <1>1 DEF Idle, Running, CanClose
<1>3. stop => grace > 0
  BY <1>1 DEF Idle
<1>4. /\ mpc' = mpc /\ stop' = stop /\ held' = (held \/ mpc = "query")
      /\ timer' = Down(timer) /\ grace' = Down(grace)
  BY DEF Tick
<1>5. timer \in Nat /\ grace \in Nat /\ ConnectTimeout \in Nat
  BY Parts, ApiServerAssumption DEF Places
<1>6. timer' <= timer
  BY <1>4, <1>5, DownIsNat
<1>7. mpc = "connect" /\ stop /\ timer < grace => grace' > 0 /\ timer' < grace'
  BY <1>2, <1>3, <1>4, <1>5, DownIsNat
<1>8. mpc' = "connect" => timer' <= ConnectTimeout
  <2> SUFFICES ASSUME mpc = "connect" PROVE timer' <= ConnectTimeout
    BY <1>4
  <2>1. timer' \in Nat
    BY <1>4, <1>5, DownIsNat
  <2> QED  BY <1>5, <1>6, <2>1 DEF StopFits
<1>9. mpc' \in {"down", "bind"} => ~stop'
  BY <1>4 DEF StopFits
<1>10. stop' /\ ~held' /\ mpc' # "raised" => mpc = "connect" /\ stop /\ ~held
  BY <1>2, <1>4 DEF StopFits
<1>11. stop' /\ ~held' /\ mpc' # "raised" => grace' > 0 /\ (mpc' = "connect" => timer' < grace')
  BY <1>7, <1>10 DEF StopFits
<1> QED  BY <1>8, <1>9, <1>11 DEF StopFits

(* Every step of the server keeps StopFits.                                *)
LEMMA NextStop == TypeOK /\ StopFits /\ [Next]_vars => StopFits'
<1> SUFFICES ASSUME TypeOK, StopFits, [Next]_vars PROVE StopFits'
  OBVIOUS
<1> USE ApiServerAssumption DEF TypeOK, StopFits, mainVars, stopVars, checkVars
<1>1. CASE DbChanges \/ Start
  BY <1>1 DEF DbChanges, Start
<1>0. CASE Listen
  <2>1. mpc' = "connect" /\ timer' = ConnectTimeout /\ ~stop /\ UNCHANGED <<stop, held, grace>>
    BY <1>0 DEF Listen
  <2> QED  BY <2>1
<1>2. CASE PortTaken \/ Close \/ GraceEnds \/ Killed
  BY <1>2 DEF PortTaken, Close, GraceEnds, Killed, End
<1>3. CASE MainConnects \/ MainRefused \/ MainAnswered \/ MainRaises \/ Shutdown
  <2>1. /\ mpc' \in {"query", "wait", "raised", "closing"} /\ mpc \notin {"down", "bind", "raised"}
        /\ UNCHANGED <<stop, held, grace>>
    BY <1>3 DEF MainConnects, MainRefused, MainAnswered, MainRaises, Shutdown, MainTo
  <2> QED  BY <2>1
<1>4. CASE Terminate
  <2>1. CASE mpc = "bind"
    BY <1>4, <2>1 DEF Terminate, End
  <2>2. CASE mpc # "bind"
    <3>1. mpc # "down" /\ mpc' = mpc /\ timer' = timer /\ grace' = Grace
      BY <1>4, <2>2 DEF Terminate, Running
    <3>2. Grace > 0 /\ (timer <= ConnectTimeout => timer < Grace)
      OBVIOUS
    <3> QED  BY <2>2, <3>1, <3>2
  <2> QED  BY <2>1, <2>2
<1>5. ASSUME NEW c \in Clients, Ask(c) PROVE StopFits'
  BY <1>5 DEF Ask
<1>6. ASSUME NEW c \in Clients, Serve(c) PROVE StopFits'
  BY <1>6, ServeMoves
<1>7. CASE BeginCheck \/ CheckPasses \/ CheckFails
  BY <1>7 DEF BeginCheck, CheckPasses, CheckFails, CheckEnds
<1>8. CASE Tick
  BY <1>8, TickStop
<1>9. CASE UNCHANGED vars
  BY <1>9 DEF vars
<1> QED  BY <1>0, <1>1, <1>2, <1>3, <1>4, <1>5, <1>6, <1>7, <1>8, <1>9 DEF Next

(* A stop ends in time, whatever requests are under way, unless the main   *)
(* thread has waited for the answer of a frozen database or has raised     *)
(* (serve, daemon_threads).                                                *)
THEOREM StopsInTime == Spec => StopInTime
<1>1. TypeOK /\ StopFits /\ [Next]_vars => [GraceEnds => held \/ mpc = "raised"]_vars
  <2> SUFFICES ASSUME StopFits, GraceEnds PROVE held \/ mpc = "raised"
    OBVIOUS
  <2> QED  BY DEF StopFits, GraceEnds
<1> QED  BY <1>1, InitStop, NextStop, TypeCorrect, PTL DEF Spec, StopInTime
----------------------------------------------------------------------------
(* Once the socket listens, a check that is under way has its answer       *)
(* before any time passes; before, at most one check counts.               *)
CheckAnswered ==
  checking =>
    /\ mpc \notin {"down", "bind"}
    /\ request[Check].route = "/health"
    /\ request[Check].phase \in {"queued", "handling", "headers", "answered"}
    /\ checkTimer > 0

(* Before the socket listens, the start period covers all checks but one.  *)
ChecksBefore ==
  /\ mpc = "down" => sinceStart = 0 /\ streak = 0
  /\ mpc = "bind" => /\ sinceStart + timer <= StartTime
                     /\ sinceStart < StartPeriod => streak = 0
                     /\ streak > 0 => checkTimer > 0
  /\ mpc \in {"down", "bind"} => health = "starting"
  /\ mpc \notin {"down", "bind", "closing"} => loop

(* The inductive invariant of the health: one failed check at most, and    *)
(* it is answered.                                                         *)
Healthy == CheckAnswered /\ ChecksBefore /\ streak <= 1 /\ health # "unhealthy"

(* Healthy holds before the container starts.                              *)
LEMMA InitHealthy == Init => Healthy
  BY DEF Init, Healthy, CheckAnswered, ChecksBefore

(* The check is answered before time passes.                               *)
LEMMA NoTickDuringCheck == TypeOK /\ Healthy /\ Tick => ~checking
<1> SUFFICES ASSUME TypeOK, Healthy, Tick, checking PROVE FALSE
  OBVIOUS
<1>1. Check \in Clients /\ Idle /\ Running
  BY ApiServerAssumption DEF Tick
<1>2. loop
  BY <1>1 DEF Healthy, ChecksBefore, CheckAnswered, Idle, CanClose
<1>3. CASE request[Check].phase = "answered"
  BY <1>1, <1>3 DEF Idle
<1>4. CASE request[Check].phase \in {"queued", "handling", "headers"}
  BY <1>1, <1>2, <1>4 DEF Idle, Active, CanAccept
<1> QED  BY <1>3, <1>4 DEF Healthy, CheckAnswered

(* While time passes, no check comes to fail after the start period.       *)
LEMMA TickHealthy == TypeOK /\ Healthy /\ Tick => Healthy'
<1> SUFFICES ASSUME TypeOK, Healthy, Tick PROVE Healthy'
  OBVIOUS
<1>1. ~checking' /\ ~checking
  BY NoTickDuringCheck DEF Tick
<1>2. mpc' = mpc /\ loop' = loop /\ streak' = streak /\ health' = health /\ Running
  BY DEF Tick
<1>3. CASE mpc = "bind"
  <2>1. timer \in Nat /\ timer > 0 /\ sinceStart \in 0 .. StartPeriod
    BY <1>3 DEF Tick, Idle, TypeOK
  <2>2. timer' = timer - 1
    BY <2>1, DownIsNat DEF Tick
  <2>3. StartPeriod \in Nat /\ StartTime \in 0 .. StartPeriod
    BY ApiServerAssumption
  <2>4. sinceStart + timer <= StartTime /\ (sinceStart < StartPeriod => streak = 0)
    BY <1>3 DEF Healthy, ChecksBefore
  <2>5. sinceStart < StartPeriod
    BY <2>1, <2>3, <2>4
  <2>6. sinceStart' = sinceStart + 1
    BY <2>5 DEF Tick
  <2>7. streak = 0
    BY <2>4, <2>5
  <2> QED  BY <1>1, <1>2, <1>3, <2>1, <2>2, <2>3, <2>4, <2>6, <2>7
           DEF Healthy, ChecksBefore, CheckAnswered
<1>4. CASE mpc # "bind"
  BY <1>1, <1>2, <1>4 DEF Healthy, ChecksBefore, CheckAnswered, Running
<1> QED  BY <1>3, <1>4

(* A request that goes on leaves the check's answer on its way.            *)
LEMMA ServeHealthy ==
  ASSUME TypeOK, Healthy, NEW c \in Clients, Serve(c)
  PROVE  Healthy'
<1>1. PICK from \in Phases, to \in Phases :
        /\ from \in {"queued", "handling", "connect", "query", "headers"}
        /\ request[c].phase = from
        /\ request' = [request EXCEPT ![c].phase = to]
        /\ from = "handling" /\ request[c].route = "/health" => to = "headers"
        /\ from = "queued" => to = "handling"
        /\ from = "headers" => to = "answered"
        /\ UNCHANGED <<db, mainVars, stopVars, checkVars>>
  BY ServeMoves
<1>2. Check \in Clients /\ request \in [Clients -> [route : Routes, phase : Phases]]
  BY ApiServerAssumption DEF TypeOK
<1>3. CheckAnswered'
  <2>1. CASE c = Check
    BY <1>1, <1>2, <2>1 DEF Healthy, CheckAnswered, mainVars, checkVars
  <2>2. CASE c # Check
    BY <1>1, <1>2, <2>2 DEF Healthy, CheckAnswered, mainVars, checkVars
  <2> QED  BY <2>1, <2>2
<1> QED  BY <1>1, <1>3 DEF Healthy, ChecksBefore, mainVars, checkVars

(* Every step of the server keeps Healthy.                                 *)
LEMMA NextHealthy == TypeOK /\ Healthy /\ [Next]_vars => Healthy'
<1> SUFFICES ASSUME TypeOK, Healthy, [Next]_vars PROVE Healthy'
  OBVIOUS
<1> USE ApiServerAssumption DEF TypeOK, Healthy, CheckAnswered, ChecksBefore, mainVars, stopVars,
        checkVars
<1>1. CASE DbChanges \/ Start \/ Listen
  BY <1>1 DEF DbChanges, Start, Listen
<1>2. CASE PortTaken \/ Close \/ GraceEnds \/ Killed
  BY <1>2 DEF PortTaken, Close, GraceEnds, Killed, End
<1>3. CASE MainConnects \/ MainRefused \/ MainAnswered \/ MainRaises \/ Shutdown
  BY <1>3 DEF MainConnects, MainRefused, MainAnswered, MainRaises, Shutdown, MainTo
<1>4. CASE Terminate
  BY <1>4 DEF Terminate, End
<1>5. ASSUME NEW c \in Clients, Ask(c) PROVE Healthy'
  BY <1>5 DEF Ask, Send
<1>6. ASSUME NEW c \in Clients, Serve(c) PROVE Healthy'
  BY <1>6, ServeHealthy
<1>7. CASE BeginCheck
  BY <1>7 DEF BeginCheck, Send, Running
<1>8. CASE CheckPasses
  BY <1>8 DEF CheckPasses, CheckEnds
<1>9. CASE CheckFails
  <2>1. mpc = "bind" /\ ~checking /\ streak = 0 /\ health = "starting"
    BY <1>9 DEF CheckFails
  <2>2. CheckEnds(FALSE)
    BY <1>9 DEF CheckFails
  <2>3. streak' \in {0, 1} /\ (sinceStart < StartPeriod => streak' = 0)
    BY <2>1, <2>2 DEF CheckEnds
  <2>4. health' = "starting"
    BY <2>1, <2>2, <2>3 DEF CheckEnds
  <2> QED  BY <2>1, <2>2, <2>3, <2>4 DEF CheckEnds
<1>10. CASE Tick
  BY <1>10, TickHealthy
<1>11. CASE UNCHANGED vars
  BY <1>11 DEF vars
<1> QED
  BY <1>1, <1>2, <1>3, <1>4, <1>5, <1>6, <1>7, <1>8, <1>9, <1>10, <1>11 DEF Next

(* No database and no number of requests that wait for it makes the        *)
(* container unhealthy (healthcheck.py, ThreadingHTTPServer).              *)
THEOREM ContainerStaysHealthy == Spec => []NeverUnhealthy
<1>1. Healthy => NeverUnhealthy
  BY DEF Healthy, NeverUnhealthy
<1> QED  BY <1>1, InitHealthy, NextHealthy, TypeCorrect, PTL DEF Spec
=============================================================================
