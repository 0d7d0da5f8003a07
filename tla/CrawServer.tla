----------------------------- MODULE CrawServer ------------------------------
(***************************************************************************)
(* The craw server process (internal/craw/server.go, grpc.go, run.go over  *)
(* internal/pkg/server/genericcrawserver.go): it is prepared step by step, *)
(* serves gRPC, HTTPS and HTTP, and is shut down by the callbacks it has   *)
(* registered with GracefulShutdown.                                       *)
(*                                                                         *)
(* The process has exited when exit is not "no"; requests then still open  *)
(* are cut.                                                                *)
(***************************************************************************)
EXTENDS GracefulShutdown

CONSTANTS
    Requests,
    MaxFaults    \* bound: listeners, files and databases that fail

ASSUME CrawServerAssumption ==
    /\ Callbacks = {"redis", "cron", "main"}
    /\ MaxFaults \in Nat

VARIABLES
    pc,         \* where the main goroutine is
    tls,        \* is a certificate configured?
    store,      \* the MySQL factory of store/mysql/mysql.go
    listener,   \* the goroutine that serves each protocol
    request,    \* where each request is
    drain,      \* where the callback registered last is
    expired,    \* have the ten seconds of GenericCrawServer.Close passed?
    daemon,     \* the goroutines of initRedisStore and initCronTask
    cancelled,  \* the contexts that callbacks have cancelled
    faults

serverVars == <<pc, tls, store, listener, request, drain, expired, daemon, cancelled, faults>>
vars == <<serverVars, shutdownVars>>

Protocols == {"grpc", "https", "http"}

\* The variables have their types, and a request is on a server that took it.
TypeOK ==
    /\ ShutdownTypeOK
    /\ pc \in {"create", "stores", "redis", "cron", "grpc", "callback", "start",
               "serve", "ping", "wait"}
    /\ tls \in BOOLEAN
    /\ store \in {"unopened", "open", "failed", "closed"}
    /\ listener \in [Protocols -> {"off", "starting", "up", "stopped", "returned"}]
    /\ request \in [Requests -> {"none", "done", "failed"} \cup Protocols]
    /\ drain \in {"grpc", "mysql", "https", "http", "alert", "done"}
    /\ expired \in BOOLEAN
    /\ daemon \in [{"redis", "cron"} -> {"off", "on", "stopped"}]
    /\ cancelled \subseteq {"redis", "cron"}
    /\ faults \in 0 .. MaxFaults
    /\ \A r \in Requests, p \in Protocols : request[r] = p => listener[p] \in {"up", "returned"}

Init ==
    /\ ShutdownInit
    /\ pc = "create"
    /\ tls \in BOOLEAN
    /\ store = "unopened"
    /\ listener = [p \in Protocols |-> "off"]
    /\ request = [r \in Requests |-> "none"]
    /\ drain = "grpc" /\ expired = FALSE
    /\ daemon = [d \in {"redis", "cron"} |-> "off"]
    /\ cancelled = {} /\ faults = 0

-------------------------------------------------------------------------------
(* createCRAWServer, PrepareRun, Run: the main goroutine *)

Fault == faults < MaxFaults /\ faults' = faults + 1

Fatal(code) ==
    /\ Fault /\ Exit(code)
    /\ UNCHANGED <<registered, manager, running, pc, tls, store, listener,
                   request, drain, expired, daemon, cancelled>>

At(step) == Alive /\ pc = step
Advance(step) == pc' = step

\* The gRPC server opens the store and ignores the error: once.Do has stored a
\* factory all the same, around a nil database.
CreateServer ==
    /\ At("create")
    /\ Advance("stores")
    /\ \/ store' = "open" /\ UNCHANGED faults
       \/ store' = "failed" /\ Fault
    /\ UNCHANGED <<shutdownVars, tls, listener, request, drain, expired, daemon, cancelled>>

\* GetMySQLFactoryOr answers the later callers, of initRouter and PrepareRun,
\* with that factory and no error.
GetMySQLFactoryOr == store # "unopened"

PrepareStores ==
    /\ At("stores") /\ GetMySQLFactoryOr
    /\ Advance("redis")
    /\ UNCHANGED <<shutdownVars, tls, store, listener, request, drain, expired,
                   daemon, cancelled, faults>>

\* The templates, the certificate of the gRPC server, the doubao client.
PrepareFails == (At("create") \/ At("stores")) /\ \E code \in {"1", "panic"} : Fatal(code)

InitRedisStore ==
    /\ At("redis")
    /\ Advance("cron")
    /\ AddShutdownCallback("redis")
    /\ daemon' = [daemon EXCEPT !["redis"] = "on"]
    /\ UNCHANGED <<tls, store, listener, request, drain, expired, cancelled, faults>>

\* The mailer, the doubao client and the alert server start on the way; the
\* alert engine runs until the process ends.
InitCronTask ==
    /\ At("cron")
    /\ Advance("grpc")
    /\ AddShutdownCallback("cron")
    /\ daemon' = [daemon EXCEPT !["cron"] = "on"]
    /\ UNCHANGED <<tls, store, listener, request, drain, expired, cancelled, faults>>

InitCronTaskFails == At("cron") /\ Fatal("1")

\* grpcServer.Run listens, and serves in a goroutine.
RunGRPC ==
    /\ At("grpc")
    /\ Advance("callback")
    /\ listener' = [listener EXCEPT !["grpc"] = "starting"]
    /\ UNCHANGED <<shutdownVars, tls, store, request, drain, expired, daemon, cancelled, faults>>

RunGRPCFails == At("grpc") /\ Fatal("1")

PrepareCallback ==
    /\ At("callback")
    /\ Advance("start")
    /\ AddShutdownCallback("main")
    /\ UNCHANGED <<tls, store, listener, request, drain, expired, daemon, cancelled, faults>>

StartGS ==
    /\ At("start")
    /\ Advance("serve")
    /\ StartManagers
    /\ UNCHANGED <<tls, store, listener, request, drain, expired, daemon, cancelled, faults>>

\* GenericCrawServer.Run makes the two servers and spawns their goroutines.
Serve ==
    /\ At("serve")
    /\ Advance("ping")
    /\ listener' = [listener EXCEPT !["http"] = "starting",
                        !["https"] = IF tls THEN "starting" ELSE "returned"]
    /\ UNCHANGED <<shutdownVars, tls, store, request, drain, expired, daemon, cancelled, faults>>

Ping ==
    /\ At("ping") /\ listener["http"] = "up"
    /\ Advance("wait")
    /\ UNCHANGED <<shutdownVars, tls, store, listener, request, drain, expired,
                   daemon, cancelled, faults>>

\* Ten seconds without an answer.
PingTimesOut ==
    /\ At("ping") /\ listener["http"] # "up"
    /\ Exit("1")
    /\ UNCHANGED <<registered, manager, running, serverVars>>

\* eg.Wait returns, and with it main.
RunReturns ==
    /\ At("wait")
    /\ listener["http"] = "returned" /\ listener["https"] = "returned"
    /\ Exit("0")
    /\ UNCHANGED <<registered, manager, running, serverVars>>

-------------------------------------------------------------------------------
(* The goroutines that serve *)

ServerRest == <<pc, tls, store, drain, expired, daemon, cancelled>>

SetListener(p, to) == listener' = [listener EXCEPT ![p] = to]

Listen(p) ==
    /\ Alive /\ listener[p] = "starting"
    /\ SetListener(p, "up")
    /\ UNCHANGED <<shutdownVars, ServerRest, request, faults>>

ListenFails(p) == Alive /\ p # "grpc" /\ listener[p] = "starting" /\ Fatal("1")

\* Shutdown came first.  ListenAndServe returns ErrServerClosed, which is no
\* error; Serve of a stopped gRPC server returns one, and the process ends.
ServeAfterStop(p) ==
    /\ Alive /\ listener[p] = "stopped"
    /\ IF p = "grpc" THEN Exit("1") /\ UNCHANGED listener
       ELSE SetListener(p, "returned") /\ UNCHANGED exit
    /\ UNCHANGED <<registered, manager, running, ServerRest, request, faults>>

\* (Fault: a server takes requests before and after it listens.)
Arrive_Bug(r, p) ==
    /\ Alive /\ request[r] = "none"
    /\ request' = [request EXCEPT ![r] = p]
    /\ UNCHANGED <<shutdownVars, ServerRest, listener, faults>>

Arrive(r, p) ==
    /\ Alive /\ request[r] = "none" /\ listener[p] = "up"
    /\ request' = [request EXCEPT ![r] = p]
    /\ UNCHANGED <<shutdownVars, ServerRest, listener, faults>>

\* The gRPC handlers are stubs; an HTTP handler uses the store, and net/http
\* recovers its panic over a nil database.
Answer(r) ==
    /\ Alive /\ request[r] \in Protocols
    /\ request' = [request EXCEPT ![r] =
           IF request[r] = "grpc" \/ store = "open" THEN "done" ELSE "failed"]
    /\ UNCHANGED <<shutdownVars, ServerRest, listener, faults>>

\* A cron job saves to the store; nothing recovers its panic.
CronJobPanics ==
    /\ Alive /\ daemon["cron"] = "on" /\ store = "failed"
    /\ Exit("panic")
    /\ UNCHANGED <<registered, manager, running, serverVars>>

DaemonStops(d) ==
    /\ Alive /\ daemon[d] = "on" /\ d \in cancelled
    /\ daemon' = [daemon EXCEPT ![d] = "stopped"]
    /\ UNCHANGED <<shutdownVars, pc, tls, store, listener, request, drain, expired,
                   cancelled, faults>>

-------------------------------------------------------------------------------
(* The shutdown callbacks *)

Cancel(cb) ==
    /\ Alive /\ cb \in running \ {"main"}
    /\ cancelled' = cancelled \cup {cb}
    /\ CallbackReturns(cb)
    /\ UNCHANGED <<pc, tls, store, listener, request, drain, expired, daemon, faults>>

Draining(step) == Alive /\ "main" \in running /\ drain = step
OpenAt(p) == {r \in Requests : request[r] = p}

\* (Fault: the HTTP server is shut down before the HTTPS server.)
After_Bug(step) == CASE step = "grpc" -> "mysql" [] step = "mysql" -> "http" [] step = "http" -> "https"
                     [] step = "https" -> "alert"
After(step) == CASE step = "grpc" -> "mysql" [] step = "mysql" -> "https" [] step = "https" -> "http"
                 [] step = "http" -> "alert"

\* (Fault: the gRPC server is not told to stop.)
Stop_Bug(p) ==
    /\ Draining(p) /\ listener[p] \in {"starting", "up"} /\ p # "grpc"
    /\ SetListener(p, IF listener[p] = "up" THEN "returned" ELSE "stopped")
    /\ UNCHANGED <<shutdownVars, ServerRest, request, faults>>

\* What Shutdown and GracefulStop do first: no more requests, and the goroutine
\* that serves returns.
Stop(p) ==
    /\ Draining(p) /\ listener[p] \in {"starting", "up"}
    /\ SetListener(p, IF listener[p] = "up" THEN "returned" ELSE "stopped")
    /\ UNCHANGED <<shutdownVars, ServerRest, request, faults>>

\* Then they wait: GracefulStop without end, Shutdown for ten seconds that the
\* two servers share.
Drained(p) ==
    /\ Draining(p) /\ listener[p] \notin {"off", "starting", "up"}
    /\ OpenAt(p) = {} \/ (p # "grpc" /\ expired)
    /\ drain' = After(p)
    /\ UNCHANGED <<shutdownVars, pc, tls, store, listener, request, expired, daemon,
                   cancelled, faults>>

CloseStore ==
    /\ Draining("mysql")
    /\ IF store = "failed"
       THEN Exit("panic") /\ UNCHANGED <<store, drain>>    \* ds.db.DB() of nil
       ELSE store' = "closed" /\ drain' = After("mysql") /\ UNCHANGED exit
    /\ UNCHANGED <<registered, manager, running, pc, tls, listener, request,
                   expired, daemon, cancelled, faults>>

\* The servers do not exist yet.
StopsTooEarly ==
    /\ Draining("https") /\ listener["https"] = "off"
    /\ Exit("panic")
    /\ UNCHANGED <<registered, manager, running, serverVars>>

GraceExpires ==
    /\ Alive /\ drain \in {"https", "http"} /\ ~expired
    /\ expired' = TRUE
    /\ UNCHANGED <<shutdownVars, pc, tls, store, listener, request, drain, daemon,
                   cancelled, faults>>

MainCallbackReturns ==
    /\ Draining("alert")
    /\ drain' = "done"
    /\ CallbackReturns("main")
    /\ UNCHANGED <<pc, tls, store, listener, request, expired, daemon, cancelled, faults>>

-------------------------------------------------------------------------------

Main ==
    \/ CreateServer \/ PrepareStores \/ InitRedisStore \/ InitCronTask \/ RunGRPC
    \/ PrepareCallback \/ StartGS \/ Serve \/ Ping \/ RunReturns

MainFails == PrepareFails \/ InitCronTaskFails \/ RunGRPCFails \/ PingTimesOut

Goroutines(p) == Listen(p) \/ ServeAfterStop(p)

MainCallback ==
    \/ \E p \in Protocols : Stop(p) \/ Drained(p)
    \/ CloseStore \/ StopsTooEarly \/ MainCallbackReturns

ShutdownSteps == (Notify \/ StartShutdown \/ ShutdownFinish) /\ UNCHANGED serverVars

Next ==
    \/ Main \/ MainFails \/ MainCallback \/ ShutdownSteps
    \/ \E p \in Protocols : Goroutines(p) \/ ListenFails(p)
    \/ \E r \in Requests : Answer(r) \/ \E p \in Protocols : Arrive(r, p)
    \/ \E cb \in Callbacks : Cancel(cb)
    \/ CronJobPanics \/ GraceExpires \/ \E d \in cancelled : DaemonStops(d)
    \/ Signal /\ UNCHANGED serverVars

\* Goroutines run, and the clients of the server end their requests: nothing
\* in GracefulStop bounds the wait for a stream that stays open.
Fairness ==
    /\ WF_vars(Main) /\ WF_vars(MainCallback) /\ WF_vars(ShutdownSteps)
    /\ \A p \in Protocols : WF_vars(Goroutines(p))
    /\ \A r \in Requests : WF_vars(Answer(r))
    /\ \A cb \in Callbacks : WF_vars(Cancel(cb))

Spec == Init /\ [][Next]_vars /\ Fairness

-------------------------------------------------------------------------------

\* A request over HTTPS that is under way when the shutdown begins is never cut
\* by a clean exit within its ten seconds, neither by os.Exit of the manager nor
\* by the return of main (genericcrawserver.go Close, eg.Wait).
SecureRequestsDrain ==
    exit = "0" => expired \/ OpenAt("https") = {}

\* No clean exit without a shutdown that has begun, and no clean exit before the
\* gRPC server has drained and the store has been closed.
CleanExitFollowsShutdown ==
    exit = "0" => /\ manager = "running"
                  /\ store = "closed"
                  /\ OpenAt("grpc") = {}

\* A signal that has been received ends the process.
ShutdownEnds == manager = "signalled" ~> ~Alive

\* A clean exit within the ten seconds cuts no request and has failed none for
\* want of a store ("it has 10 seconds to finish the request it is currently
\* handling", genericcrawserver.go:193).
RequestsGetTheirGrace ==
    exit = "0" /\ ~expired =>
        \A r \in Requests : request[r] \in {"none", "done"}

==============================================================================
