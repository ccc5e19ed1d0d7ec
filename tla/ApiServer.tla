----------------------------- MODULE ApiServer -----------------------------
(***************************************************************************)
(* The health API (entrypoints/api/server.py): the main thread, the thread *)
(* that accepts connections, one daemon thread per request, and the        *)
(* container runtime that starts and stops the process and runs its health *)
(* check (entrypoints/api/healthcheck.py, compose.yaml).  Time passes only *)
(* while nobody has a step to take.                                        *)
(***************************************************************************)
EXTENDS Integers

CONSTANTS
  Clients,         \* those who send requests
  Check,           \* the one among them that is the health check
  ConnectTimeout,  \* DEFAULT_CONNECT_TIMEOUT_SECONDS
  RequestTimeout,  \* REQUEST_TIMEOUT_SECONDS of the health check
  CheckEvery,      \* compose: healthcheck interval
  Retries,         \* compose: failures in a row that make it unhealthy
  StartPeriod,     \* compose: start_period
  StartTime,       \* what the interpreter needs at most before it listens
  Grace            \* time between SIGTERM and SIGKILL

ASSUME ApiServerAssumption ==
  /\ Check \in Clients
  /\ ConnectTimeout \in Nat
  /\ RequestTimeout \in Nat \ {0} /\ CheckEvery \in Nat \ {0} /\ Retries \in Nat \ {0, 1}
  /\ StartPeriod \in Nat /\ StartTime \in 0 .. StartPeriod
  /\ Grace \in Nat /\ ConnectTimeout < Grace

VARIABLES
  db,         \* the database answers, refuses (or drops a connection), is frozen,
              \* or makes the driver raise an error that is not one of its own
  mpc,        \* where serve() is
  timer,      \* ticks left of its start or of its connection attempt
  held,       \* its query has waited since the container started (history)
  loop,       \* serve_forever accepts connections
  stop,       \* a signal asked the process to stop
  grace,      \* ticks left until SIGKILL
  request,    \* the last request of each client, and how far it has come
  checking,   \* the health check waits for its answer
  checkTimer, \* ticks left of that, or until the next check
  streak,     \* health checks failed in a row
  sinceStart, \* ticks since the container started
  health      \* the container's health status

mainVars == <<mpc, timer, held, loop>>
stopVars == <<stop, grace>>
checkVars == <<checking, checkTimer, streak, sinceStart, health>>
vars == <<db, mainVars, stopVars, request, checkVars>>

DbStates == {"up", "refusing", "silent", "odd"}
Routes == {"/health", "/health/dependencies", "other"}
Phases == {"queued", "handling", "connect", "query", "headers", "answered", "lost"}

NoRequest == [route |-> "/health", phase |-> "answered"]
Active(c) == request[c].phase \notin {"answered", "lost"}
Running == mpc # "down"
Down(n) == IF n > 0 THEN n - 1 ELSE 0

Move(c, from, to) ==
  /\ request[c].phase = from
  /\ request' = [request EXCEPT ![c].phase = to]
  /\ UNCHANGED <<db, mainVars, stopVars, checkVars>>
----------------------------------------------------------------------------
Init ==
  /\ db \in DbStates
  /\ mpc = "down" /\ timer = 0 /\ held = FALSE /\ loop = FALSE
  /\ stop = FALSE /\ grace = 0
  /\ request = [c \in Clients |-> NoRequest]
  /\ checking = FALSE /\ checkTimer = CheckEvery
  /\ streak = 0 /\ sinceStart = 0 /\ health = "starting"

DbChanges ==
  /\ db' \in DbStates \ {db}
  /\ UNCHANGED <<mainVars, stopVars, request, checkVars>>

Start ==
  /\ mpc = "down"
  /\ mpc' = "bind" /\ timer' \in 0 .. StartTime
  /\ UNCHANGED <<db, held, loop, stopVars, request, checkVars>>

(* The process ends; its daemon threads and what they were writing go with  *)
(* it, and so does the container.                                           *)
End ==
  /\ mpc' = "down" /\ timer' = 0 /\ held' = FALSE /\ loop' = FALSE
  /\ stop' = FALSE /\ grace' = 0
  /\ request' = [c \in Clients |-> IF Active(c) THEN [request[c] EXCEPT !.phase = "lost"]
                                   ELSE request[c]]
  /\ checking' = FALSE /\ checkTimer' = CheckEvery
  /\ streak' = 0 /\ sinceStart' = 0 /\ health' = "starting"
  /\ UNCHANGED db

(* serve: bind and listen, install the handlers, start the server's thread; *)
(* the port may be taken.                                                   *)
Listen ==
  /\ mpc = "bind" /\ timer = 0
  /\ mpc' = "connect" /\ timer' = ConnectTimeout /\ loop' = TRUE
  /\ UNCHANGED <<db, held, stopVars, request, checkVars>>

PortTaken == mpc = "bind" /\ timer = 0 /\ End

(* The first look at the dependencies, on the main thread, before the try.  *)
MainTo(phase) ==
  /\ mpc' = phase /\ timer' = 0
  /\ UNCHANGED <<db, held, loop, stopVars, request, checkVars>>

MainConnects == mpc = "connect" /\ db = "up" /\ MainTo("query")

MainRefused ==
  /\ mpc = "connect" /\ (db = "refusing" \/ (db = "silent" /\ timer = 0))
  /\ MainTo("wait")

(* A server that refuses has dropped the connection: a driver's error.      *)
MainAnswered == mpc = "query" /\ db \in {"up", "refusing"} /\ MainTo("wait")

(* Any other exception ends the main thread, and leaves the server's.       *)
MainRaises == mpc \in {"connect", "query"} /\ db = "odd" /\ MainTo("raised")

(* wait_for_shutdown returns; server.shutdown waits for the loop to end,    *)
(* and server_close does not wait for the daemon threads.                   *)
Shutdown ==
  /\ mpc = "wait" /\ stop
  /\ mpc' = "closing" /\ loop' = FALSE
  /\ UNCHANGED <<db, timer, held, stopVars, request, checkVars>>

(* A slip: the threads of the requests are not daemons, and are joined. *)
CanCloseWhenServed == mpc = "closing" /\ \A c \in Clients : request[c].phase \in {"queued", "answered", "lost"}

CanClose == mpc = "closing"

Close == CanClose /\ End

(* SIGTERM; before the handler is installed it ends the process at once.    *)
Terminate ==
  /\ Running /\ ~stop
  /\ IF mpc = "bind" THEN End
     ELSE /\ stop' = TRUE /\ grace' = Grace
          /\ UNCHANGED <<db, mainVars, request, checkVars>>

GraceEnds == Running /\ stop /\ grace = 0 /\ End

Killed == Running /\ End
----------------------------------------------------------------------------
Send(c, route) == request' = [request EXCEPT ![c] = [route |-> route, phase |-> "queued"]]

(* A client connects; the socket listens from Listen on.                    *)
Ask(c) ==
  /\ Running /\ mpc # "bind" /\ c # Check /\ ~Active(c)
  /\ \E route \in Routes : Send(c, route)
  /\ UNCHANGED <<db, mainVars, stopVars, checkVars>>

(* A slip: HTTPServer in place of ThreadingHTTPServer. *)
CanAcceptOne(c) ==
  /\ loop /\ request[c].phase = "queued"
  /\ \A d \in Clients : request[d].phase \in {"queued", "answered", "lost"}

CanAccept(c) == loop /\ request[c].phase = "queued"

(* A thread of its own for each request (ThreadingHTTPServer).              *)
Accept(c) == CanAccept(c) /\ Move(c, "queued", "handling")

(* A slip: every route that is known reports the dependencies. *)
DoGetAsks(c) ==
  Move(c, "handling", IF request[c].route # "other" THEN "connect" ELSE "headers")

(* do_GET: only one route asks the database.                                *)
DoGet(c) ==
  Move(c, "handling", IF request[c].route = "/health/dependencies" THEN "connect" ELSE "headers")

(* probe_database on the request's thread; an error that is not the         *)
(* driver's closes the connection without an answer.                        *)
Connects(c) == db = "up" /\ Move(c, "connect", "query")
Refused(c) == db \in {"refusing", "silent"} /\ Move(c, "connect", "headers")
Raises(c) == db = "odd" /\ (Move(c, "connect", "lost") \/ Move(c, "query", "lost"))
QueryAnswered(c) == db \in {"up", "refusing"} /\ Move(c, "query", "headers")

(* _write: the headers are sent before the body.                            *)
SendBody(c) == Move(c, "headers", "answered")

Serve(c) ==
  \/ Accept(c) \/ DoGet(c) \/ Connects(c) \/ Refused(c) \/ Raises(c) \/ QueryAnswered(c)
  \/ SendBody(c)
----------------------------------------------------------------------------
(* healthcheck.main: GET /health, with a limit on the wait.                 *)
BeginCheck ==
  /\ Running /\ ~checking /\ checkTimer = 0 /\ mpc # "bind"
  /\ checking' = TRUE /\ checkTimer' = RequestTimeout
  /\ Send(Check, "/health")
  /\ UNCHANGED <<db, mainVars, stopVars, streak, sinceStart, health>>

CheckEnds(passed) ==
  /\ checking' = FALSE /\ checkTimer' = CheckEvery
  /\ IF passed
     THEN streak' = 0 /\ health' = "healthy"
     ELSE /\ streak' = IF health = "starting" /\ sinceStart < StartPeriod
                       THEN streak ELSE streak + 1
          /\ health' = IF streak' = Retries THEN "unhealthy" ELSE health
  /\ request' = [request EXCEPT ![Check].phase = IF passed THEN @ ELSE "lost"]
  /\ UNCHANGED <<db, mainVars, stopVars, sinceStart>>

CheckPasses == checking /\ request[Check].phase = "answered" /\ CheckEnds(TRUE)

(* No answer in time, or nobody listens yet.                                *)
CheckFails ==
  /\ checkTimer = 0 /\ (checking \/ mpc = "bind")
  /\ streak < Retries
  /\ CheckEnds(FALSE)

(* Nobody has a step to take.                                               *)
Idle ==
  /\ \/ mpc \in {"down", "raised"}
     \/ mpc = "wait" /\ ~stop
     \/ mpc = "bind" /\ timer > 0
     \/ mpc = "connect" /\ timer > 0 /\ db = "silent"
     \/ mpc = "query" /\ db = "silent"
     \/ mpc = "closing" /\ ~CanClose
  /\ \A c \in Clients :
       \/ ~Active(c)
       \/ request[c].phase = "queued" /\ ~CanAccept(c)
       \/ request[c].phase \in {"connect", "query"} /\ db = "silent"
  /\ Running => /\ checkTimer > 0
                /\ stop => grace > 0
                /\ ~(checking /\ request[Check].phase = "answered")

Tick ==
  /\ Idle /\ Running
  /\ held' = (held \/ mpc = "query")
  /\ timer' = Down(timer) /\ grace' = Down(grace) /\ checkTimer' = Down(checkTimer)
  /\ sinceStart' = IF sinceStart < StartPeriod THEN sinceStart + 1 ELSE sinceStart
  /\ UNCHANGED <<db, mpc, loop, stop, request, checking, streak, health>>
----------------------------------------------------------------------------
Next ==
  \/ DbChanges \/ Start \/ Listen \/ PortTaken
  \/ MainConnects \/ MainRefused \/ MainAnswered \/ MainRaises
  \/ Shutdown \/ Close \/ Terminate \/ GraceEnds \/ Killed
  \/ \E c \in Clients : Ask(c) \/ Serve(c)
  \/ BeginCheck \/ CheckPasses \/ CheckFails
  \/ Tick

Spec == Init /\ [][Next]_vars
----------------------------------------------------------------------------
(* Types of the process, its requests and its health check; no request but   *)
(* one for the dependencies asks the database (do_GET).                     *)
TypeOK ==
  /\ db \in DbStates
  /\ mpc \in {"down", "bind", "connect", "query", "wait", "raised", "closing"}
  /\ timer \in Nat
  /\ held \in BOOLEAN /\ loop \in BOOLEAN /\ stop \in BOOLEAN /\ checking \in BOOLEAN
  /\ grace \in 0 .. Grace
  /\ request \in [Clients -> [route : Routes, phase : Phases]]
  /\ \A c \in Clients :
       request[c].phase \in {"connect", "query"} => request[c].route = "/health/dependencies"
  /\ checkTimer \in Nat
  /\ streak \in 0 .. Retries
  /\ sinceStart \in 0 .. StartPeriod
  /\ health \in {"starting", "healthy", "unhealthy"}

(* "an unreachable database does not mark the API container itself as       *)
(* failed" (healthcheck.py), however many requests wait for the database    *)
(* and whatever it does in between.                                         *)
NeverUnhealthy == health # "unhealthy"

(* SIGKILL is needed only for a process whose main thread has waited for    *)
(* the first answer of a frozen database, or has raised: requests that hang *)
(* do not hold a stop up (serve, install_shutdown_handlers).                *)
StopInTime == [][GraceEnds => held \/ mpc = "raised"]_vars
=============================================================================
