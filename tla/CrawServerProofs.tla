--------------------------- MODULE CrawServerProofs ---------------------------
(***************************************************************************)
(* What a clean exit of the craw server has done, for any number of        *)
(* requests and failures.                                                  *)
(*                                                                         *)
(* The argument: both ways out, os.Exit(0) of the shutdown helper and the  *)
(* return of main, wait for something only the main callback does after it *)
(* has drained gRPC, closed the store and drained HTTPS.                   *)
(***************************************************************************)
EXTENDS CrawServer, TLAPS

Down(p) == listener[p] \in {"stopped", "returned"}

Late == {"http", "alert", "done"}

\* How far the main goroutine has come says which servers exist, what has been
\* registered, and whether a shutdown can have begun.
ProgressInv ==
    /\ listener["grpc"] = "off" <=> pc \in {"create", "stores", "redis", "cron", "grpc"}
    /\ \A p \in {"https", "http"} : listener[p] # "off" <=> pc \in {"ping", "wait"}
    /\ pc \in {"start", "serve", "ping", "wait"} => "main" \in registered
    /\ manager # "none" => pc \in {"serve", "ping", "wait"}
    /\ running # {} \/ drain # "grpc" => manager = "running"
    /\ manager = "running" /\ "main" \notin running => drain = "done"

\* How far the main callback has come says what it has closed, and how far it
\* must have come for the process to end well.
DrainInv ==
    /\ drain # "grpc" => Down("grpc") /\ OpenAt("grpc") = {}
    /\ drain \in {"https"} \cup Late => store = "closed"
    /\ drain \in Late => Down("https") /\ (expired \/ OpenAt("https") = {})
    /\ Down("http") \/ exit = "0" => drain \in Late

Inv == TypeOK /\ ProgressInv /\ DrainInv

\* It holds of a server not created yet.
LEMMA InitInv == Init => Inv
<1> SUFFICES ASSUME Init PROVE Inv
  OBVIOUS
<1>1. /\ \A p \in Protocols : listener[p] = "off"
      /\ \A r \in Requests : request[r] = "none"
  BY DEF Init
<1>2. 0 \in 0 .. MaxFaults
  BY CrawServerAssumption
<1>3. TypeOK
  BY <1>1, <1>2 DEF Init, ShutdownInit, TypeOK, ShutdownTypeOK, Protocols
<1>4. ProgressInv
  BY <1>1 DEF Init, ShutdownInit, ProgressInv, Protocols
<1>5. DrainInv
  BY <1>1 DEF Init, ShutdownInit, DrainInv, Down, Late, Protocols
<1> QED BY <1>3, <1>4, <1>5 DEF Inv

-------------------------------------------------------------------------------
(* Every step preserves the invariant *)

\* A process that has ended, and one that ends other than well.
LEMMA EndStep ==
    ASSUME Inv, exit' \in {exit, "1", "panic", "killed"}, faults' \in 0 .. MaxFaults,
           UNCHANGED <<registered, manager, running, pc, tls, store, listener, request, drain,
                       expired, daemon, cancelled>>
    PROVE  Inv'
BY DEF Inv, TypeOK, ShutdownTypeOK, ProgressInv, DrainInv, Down, OpenAt

\* log.Fatal and a panic end the process, and with it everything under way.
LEMMA FatalStep == ASSUME Inv, NEW code \in {"1", "panic"}, Fatal(code) PROVE Inv'
<1>1. faults' \in 0 .. MaxFaults
  BY CrawServerAssumption DEF Inv, TypeOK, Fatal, Fault
<1> QED BY <1>1, EndStep DEF Fatal, Exit

\* The main goroutine prepares the server and serves.
LEMMA MainStep == ASSUME Inv, Main PROVE Inv'
<1> USE DEF Inv, TypeOK, ShutdownTypeOK, ProgressInv, DrainInv, Down, OpenAt, At, Advance,
            shutdownVars, serverVars
<1>1. CASE CreateServer
  <2>1. faults' \in 0 .. MaxFaults
    BY <1>1, CrawServerAssumption DEF CreateServer, Fault
  <2> QED BY <1>1, <2>1 DEF CreateServer, Fault, Late
<1>2. CASE PrepareStores
  BY <1>2 DEF PrepareStores
<1>3. CASE InitRedisStore
  BY <1>3, CrawServerAssumption DEF InitRedisStore, AddShutdownCallback
<1>4. CASE InitCronTask
  BY <1>4, CrawServerAssumption DEF InitCronTask, AddShutdownCallback
<1>5. CASE RunGRPC
  BY <1>5 DEF RunGRPC, Protocols, Late
<1>6. CASE PrepareCallback
  BY <1>6, CrawServerAssumption DEF PrepareCallback, AddShutdownCallback
<1>7. CASE StartGS
  BY <1>7 DEF StartGS, StartManagers
<1>8. CASE Serve
  BY <1>8 DEF Serve, Protocols, Late
<1>9. CASE Ping
  BY <1>9 DEF Ping
<1>10. CASE RunReturns
  BY <1>10 DEF RunReturns, Exit, Alive
<1> QED BY <1>1, <1>2, <1>3, <1>4, <1>5, <1>6, <1>7, <1>8, <1>9, <1>10 DEF Main

\* A preparation, the schedules, the gRPC server or the ping of main fails.
LEMMA MainFailsStep == ASSUME Inv, MainFails PROVE Inv'
<1>1. CASE PingTimesOut
  BY <1>1, EndStep DEF PingTimesOut, Exit, serverVars, Inv, TypeOK
<1> QED BY <1>1, FatalStep DEF MainFails, PrepareFails, InitCronTaskFails, RunGRPCFails

\* The goroutines that serve.
LEMMA GoroutineStep == ASSUME Inv, NEW p \in Protocols, Goroutines(p) \/ ListenFails(p) PROVE Inv'
<1> USE DEF Inv, TypeOK, ShutdownTypeOK, ProgressInv, DrainInv, Down, OpenAt, Protocols, Late,
            shutdownVars, ServerRest
<1>1. CASE Listen(p)
  BY <1>1 DEF Listen, SetListener
<1>2. CASE ServeAfterStop(p)
  BY <1>2 DEF ServeAfterStop, SetListener, Exit
<1>3. CASE ListenFails(p)
  BY <1>3, FatalStep DEF ListenFails
<1> QED BY <1>1, <1>2, <1>3 DEF Goroutines

\* A client's request comes to a listener that serves, or is answered.
LEMMA RequestStep ==
    ASSUME Inv, NEW r \in Requests, Answer(r) \/ \E p \in Protocols : Arrive(r, p)
    PROVE Inv'
<1> USE DEF Inv, TypeOK, ShutdownTypeOK, ProgressInv, DrainInv, Down, OpenAt, Protocols,
            shutdownVars, ServerRest
<1>1. CASE Answer(r)
  BY <1>1 DEF Answer
<1>2. ASSUME NEW p \in Protocols, Arrive(r, p) PROVE Inv'
  BY <1>2 DEF Arrive
<1> QED BY <1>1, <1>2

\* The callbacks.
LEMMA MainCallbackStep == ASSUME Inv, MainCallback PROVE Inv'
<1> USE DEF Inv, TypeOK, ShutdownTypeOK, ProgressInv, DrainInv, Down, OpenAt, Protocols, Late,
            shutdownVars, Draining, Alive
<1>1. ASSUME NEW p \in Protocols, Stop(p) PROVE Inv'
  BY <1>1 DEF Stop, SetListener, ServerRest
<1>2. ASSUME NEW p \in Protocols, Drained(p) PROVE Inv'
  BY <1>2 DEF Drained, After
<1>3. CASE CloseStore
  BY <1>3 DEF CloseStore, After, Exit
<1>4. CASE StopsTooEarly
  BY <1>4, EndStep DEF StopsTooEarly, Exit, serverVars
<1>5. CASE MainCallbackReturns
  BY <1>5 DEF MainCallbackReturns, CallbackReturns
<1> QED BY <1>1, <1>2, <1>3, <1>4, <1>5 DEF MainCallback

\* The shutdown helper and the other callbacks.
LEMMA ShutdownStep ==
    ASSUME Inv,
           \/ ShutdownSteps \/ (Signal /\ UNCHANGED serverVars)
           \/ \E cb \in Callbacks : Cancel(cb)
           \/ CronJobPanics \/ GraceExpires \/ \E d \in cancelled : DaemonStops(d)
    PROVE  Inv'
<1> USE DEF Inv, TypeOK, ShutdownTypeOK, ProgressInv, DrainInv, Down, OpenAt, Late,
            shutdownVars, serverVars, Alive
<1>1. CASE ShutdownSteps
  BY <1>1 DEF ShutdownSteps, Notify, StartShutdown, ShutdownFinish, Exit
<1>2. CASE Signal /\ UNCHANGED serverVars
  BY <1>2 DEF Signal, Exit
<1>3. ASSUME NEW cb \in Callbacks, Cancel(cb) PROVE Inv'
  BY <1>3, CrawServerAssumption DEF Cancel, CallbackReturns
<1>4. CASE CronJobPanics
  BY <1>4, EndStep DEF CronJobPanics, Exit
<1>5. CASE GraceExpires
  BY <1>5 DEF GraceExpires
<1>6. ASSUME NEW d \in cancelled, DaemonStops(d) PROVE Inv'
  BY <1>6 DEF DaemonStops
<1> QED BY <1>1, <1>2, <1>3, <1>4, <1>5, <1>6

\* Every step keeps it, and so does none.
LEMMA StepInv == Inv /\ [Next]_vars => Inv'
<1>1. ASSUME Inv, UNCHANGED vars PROVE Inv'
  BY <1>1, EndStep DEF vars, serverVars, shutdownVars, Inv, TypeOK
<1> QED BY <1>1, MainStep, MainFailsStep, MainCallbackStep, GoroutineStep, RequestStep,
           ShutdownStep DEF Next

-------------------------------------------------------------------------------
(* The theorems *)

\* The invariant holds in every reachable state.
LEMMA InvHolds == Spec => []Inv
BY InitInv, StepInv, PTL DEF Spec

\* The variables have their types, and no request is on a server that has not
\* taken it.
THEOREM TypeCorrect == Spec => []TypeOK
<1>1. Inv => TypeOK
  BY DEF Inv
<1> QED BY <1>1, InvHolds, PTL

\* A clean exit cuts a request over HTTPS only when the ten seconds are over.
THEOREM SecureRequestsDrainHolds == Spec => []SecureRequestsDrain
<1>1. Inv => SecureRequestsDrain
  BY DEF Inv, DrainInv, SecureRequestsDrain
<1> QED BY <1>1, InvHolds, PTL

\* A clean exit comes after a shutdown that has drained gRPC and closed the store.
THEOREM CleanExitFollowsShutdownHolds == Spec => []CleanExitFollowsShutdown
<1>1. Inv => CleanExitFollowsShutdown
  BY DEF Inv, ProgressInv, DrainInv, Late, CleanExitFollowsShutdown
<1> QED BY <1>1, InvHolds, PTL
===============================================================================
