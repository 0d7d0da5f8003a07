------------------------------- MODULE Gateway -------------------------------
(***************************************************************************)
(* The gateway process (cmd/gateway, internal/bootstrap/gateway.go,        *)
(* internal/gateway/server.go) beside the migrators of its database: the   *)
(* schema gate, the two health endpoints, and the end of Run when serving  *)
(* fails, when a signal cancels the context, or both.                      *)
(*                                                                         *)
(* The HTTP server and the connection pools are libraries: Shutdown closes *)
(* the listener and waits for open requests, pgxpool's Close waits for the *)
(* connections in use.                                                     *)
(***************************************************************************)
EXTENDS SchemaMigration, PlatformConfig

CONSTANTS
    Requests,         \* requests that may be open at the same time
    RequiredLength,   \* the gateway's build knows the first so many of History
    MaxSignals        \* bound: signals

ASSUME GatewayAssumption ==
    /\ RequiredLength \in 1 .. Len(History)
    /\ MaxSignals \in Nat

VARIABLES
    gw,        \* where RunGateway and Run are
    ctxDone,   \* has a signal cancelled the context?
    serve,     \* what the goroutine that runs Serve has sent, if anything
    result,    \* the error RunGateway is about to return
    pool,      \* the PostgreSQL pool
    req,       \* the open requests
    cut,       \* requests the exit of this process has cut off
    signals    \* signals so far

gwVars == <<gw, ctxDone, serve, result, pool, req, cut, signals>>
vars == <<tracked, hasTable, schema, locker, mig, failures,
          gw, ctxDone, serve, result, pool, req, cut, signals>>

Exited == {"stopped", "exit0", "exit1"}

\* The type of the state; see MigrationTypeOK for the lock.
TypeOK ==
    /\ MigrationTypeOK
    /\ gw \in {"opening", "gating", "listening", "serving", "shutdown", "collecting",
               "closing"} \cup Exited
    /\ ctxDone \in BOOLEAN
    /\ serve \in {"none", "running", "failed", "closed"}
    /\ result \in {"nil", "error"}
    /\ pool \in {"none", "open", "closing"}
    /\ req \in [Requests -> {"none", "handling", "pinging"}]
    /\ cut \in BOOLEAN
    /\ signals \in 0 .. MaxSignals

Init ==
    /\ MigrationInit
    /\ gw = "stopped" /\ ctxDone = FALSE /\ serve = "none" /\ result = "nil"
    /\ pool = "none" /\ req = [r \in Requests |-> "none"] /\ cut = FALSE /\ signals = 0

-------------------------------------------------------------------------------
(* RunGateway *)

\* main loads the configuration and then listens for signals.
Start ==
    /\ gw \in Exited
    /\ \E env \in Environments :
        IF Loads(env) THEN gw' = "opening" /\ result' = "nil"
                      ELSE gw' = "exit1" /\ result' = "error"
    /\ ctxDone' = FALSE /\ serve' = "none" /\ pool' = "none" /\ cut' = FALSE
    /\ UNCHANGED <<req, signals>> /\ UNCHANGED migVars

OpenPostgres ==
    /\ gw = "opening"
    /\ gw' = "gating" /\ pool' = "open"
    /\ UNCHANGED <<ctxDone, serve, result, req, cut, signals>> /\ UNCHANGED migVars

\* The pool cannot be made or its ping fails, for the context's end too: Open
\* closes it again.
OpenFails ==
    /\ gw = "opening"
    /\ IF ctxDone THEN UNCHANGED failures ELSE Fails
    /\ gw' = "exit1" /\ result' = "error"
    /\ UNCHANGED <<ctxDone, serve, pool, req, cut, signals>>
    /\ UNCHANGED <<tracked, hasTable, schema, locker, mig>>

\* (Fault: a newer schema will do.)
RequiredSchema_Bug == hasTable /\ CurrentVersion >= History[RequiredLength]

\* requireSchemaVersion returns nil.
RequiredSchema == hasTable /\ CurrentVersion = History[RequiredLength]

\* From here on the deferred calls close what has been opened.
ReturnFrom(pc, err) ==
    /\ gw = pc
    /\ gw' = "closing" /\ result' = err /\ pool' = "closing"
    /\ UNCHANGED <<ctxDone, req, cut, signals>>

\* Redis is pinged too: a failure is logged and changes nothing.
PassGate ==
    /\ gw = "gating" /\ RequiredSchema
    /\ gw' = "listening"
    /\ UNCHANGED <<ctxDone, serve, result, pool, req, cut, signals>> /\ UNCHANGED migVars

\* The version is not the required one, or it cannot be read.
FailGate ==
    /\ ReturnFrom("gating", "error") /\ UNCHANGED serve
    /\ IF RequiredSchema /\ ~ctxDone THEN Fails ELSE UNCHANGED failures
    /\ UNCHANGED <<tracked, hasTable, schema, locker, mig>>

-------------------------------------------------------------------------------
(* Run *)

Listen ==
    /\ gw = "listening"
    /\ gw' = "serving" /\ serve' = "running"
    /\ UNCHANGED <<ctxDone, result, pool, req, cut, signals>> /\ UNCHANGED migVars

ListenFails ==
    /\ ReturnFrom("listening", "error") /\ UNCHANGED serve
    /\ Fails /\ UNCHANGED <<tracked, hasTable, schema, locker, mig>>

\* Serve returns by itself, with an error of the listener ...
ServeFails ==
    /\ serve = "running" /\ gw \notin Exited
    /\ Fails
    /\ serve' = "failed"
    /\ UNCHANGED <<gw, ctxDone, result, pool, req, cut, signals>>
    /\ UNCHANGED <<tracked, hasTable, schema, locker, mig>>

\* ... or with ErrServerClosed, since Shutdown has been called.
ServeCloses ==
    /\ serve = "running" /\ gw \in {"shutdown", "collecting", "closing"}
    /\ serve' = "closed"
    /\ UNCHANGED <<gw, ctxDone, result, pool, req, cut, signals>> /\ UNCHANGED migVars

\* The error of Serve, as Run returns it.
ServeError == IF serve = "closed" THEN "nil" ELSE "error"

\* The select of Run takes whichever is ready.
SelectServeErr ==
    /\ serve \in {"failed", "closed"}
    /\ ReturnFrom("serving", ServeError) /\ UNCHANGED serve
    /\ UNCHANGED migVars

\* (Fault: Run does not look at its context.)
SelectCtxDone_Bug == gw = "serving" /\ ctxDone /\ UNCHANGED vars

SelectCtxDone ==
    /\ gw = "serving" /\ ctxDone
    /\ gw' = "shutdown"
    /\ UNCHANGED <<ctxDone, serve, result, pool, req, cut, signals>> /\ UNCHANGED migVars

Quiet == \A r \in Requests : req[r] = "none"

ShutdownReturns ==
    /\ gw = "shutdown" /\ Quiet
    /\ gw' = "collecting"
    /\ UNCHANGED <<ctxDone, serve, result, pool, req, cut, signals>> /\ UNCHANGED migVars

\* (Fault: what Shutdown returns is not looked at.)
ShutdownTimesOut_Bug ==
    /\ gw = "shutdown" /\ ~Quiet
    /\ gw' = "collecting"
    /\ UNCHANGED <<ctxDone, serve, result, pool, req, cut, signals>> /\ UNCHANGED migVars

\* Ten seconds have passed and requests are still open.
ShutdownTimesOut ==
    /\ ~Quiet
    /\ ReturnFrom("shutdown", "error") /\ UNCHANGED serve
    /\ UNCHANGED migVars

CollectServeErr ==
    /\ serve \in {"failed", "closed"}
    /\ ReturnFrom("collecting", ServeError) /\ UNCHANGED serve
    /\ UNCHANGED migVars

\* The deferred Close of the pool returns, then main: os.Exit(1) on an error.
\* The requests that are still open end with the process.
Exit ==
    /\ gw = "closing" /\ \A r \in Requests : req[r] # "pinging"
    /\ gw' = IF result = "nil" THEN "exit0" ELSE "exit1"
    /\ pool' = "none"
    /\ cut' = ~Quiet
    /\ req' = [r \in Requests |-> "none"]
    /\ UNCHANGED <<ctxDone, serve, result, signals>> /\ UNCHANGED migVars

-------------------------------------------------------------------------------
(* The endpoints *)

SetRequest(r, from, to) ==
    /\ req[r] = from
    /\ req' = [req EXCEPT ![r] = to]
    /\ UNCHANGED <<gw, ctxDone, serve, result, pool, cut, signals>> /\ UNCHANGED migVars

Accept(r) == serve = "running" /\ gw = "serving" /\ SetRequest(r, "none", "handling")

\* livez answers at once, and so does readyz once the pool is being closed.
AnswerAtOnce(r) == SetRequest(r, "handling", "none")

\* readyz: pool.Ping takes a connection ...
StartPing(r) == pool = "open" /\ SetRequest(r, "handling", "pinging")

\* ... and gives it back, with whatever result.
PingReturns(r) == SetRequest(r, "pinging", "none")

-------------------------------------------------------------------------------

Signal ==
    /\ gw \notin Exited /\ signals < MaxSignals
    /\ ctxDone' = TRUE /\ signals' = signals + 1
    /\ UNCHANGED <<gw, serve, result, pool, req, cut>> /\ UNCHANGED migVars

GatewayStep ==
    \/ OpenPostgres \/ PassGate \/ FailGate
    \/ Listen \/ ServeCloses \/ SelectServeErr \/ SelectCtxDone
    \/ ShutdownReturns \/ ShutdownTimesOut \/ CollectServeErr \/ Exit

RequestStep(r) == StartPing(r) \/ AnswerAtOnce(r) \/ PingReturns(r)

Next ==
    \/ \E m \in Migrators : MigrationNext(m) /\ UNCHANGED gwVars
    \/ Start \/ GatewayStep \/ OpenFails \/ ListenFails \/ ServeFails \/ Signal
    \/ \E r \in Requests : Accept(r) \/ RequestStep(r)

Spec == Init /\ [][Next]_vars

FairSpec ==
    /\ Spec
    /\ \A m \in Migrators : WF_vars(UpStep(m) /\ UNCHANGED gwVars)
    /\ WF_vars(GatewayStep)
    /\ \A r \in Requests : WF_vars(RequestStep(r))

-------------------------------------------------------------------------------
(* Properties *)

\* Run has passed the gate and has not begun to close.
PastGate == {"listening", "serving", "shutdown", "collecting"}

\* The schema of the gateway's build, and a database that has it at least.
ItsSchema == SubSeq(History, 1, RequiredLength)
BeginsWithIts(applied) ==
    Len(applied) >= RequiredLength /\ SubSeq(applied, 1, RequiredLength) = ItsSchema

\* The one look at the highest version (gateway.go:57) finds exactly the schema
\* of the gateway's build - every migration it knows and none it does not - and
\* from then on the database begins with that schema, whatever migrators run
\* beside it.  They may add to it: nothing keeps a migration of a newer build
\* from being committed after the look, before the gateway listens or while it
\* serves.
GateFindsItsSchema ==
    [][/\ gw = "gating" /\ gw' = "listening" => schema = ItsSchema
       /\ gw' \in PastGate => BeginsWithIts(schema')]_vars

\* The gateway exits with 0 only when a signal asked for it, serving did not
\* fail, and no request was cut off - in whatever order the failure, the signal,
\* the requests and the ten seconds of the shutdown came.
CleanExitIsClean == gw = "exit0" => ctxDone /\ serve = "closed" /\ ~cut

\* Every run of Up ends, also when it has to wait for other migrators that
\* fail or whose answers are lost.
MigratorsEnd == \A m \in Migrators : mig[m].pc = "begun" ~> Ended(mig[m].pc)

\* A signalled gateway exits, as long as PostgreSQL answers its pings.
SignalledExits == ctxDone ~> gw \in Exited
===============================================================================
