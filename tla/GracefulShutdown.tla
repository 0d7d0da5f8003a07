-------------------------- MODULE GracefulShutdown ---------------------------
(***************************************************************************)
(* The shutdown helper (pkg/shutdown/shutdown.go) with its one manager, of *)
(* POSIX signals (pkg/shutdown/shutdownmanagers/posixsignal): a signal     *)
(* runs every registered callback in a goroutine of its own, and when all  *)
(* have returned the process exits.  What the callbacks do is their        *)
(* owner's; it says when one returns.                                      *)
(***************************************************************************)
EXTENDS Integers, FiniteSets

CONSTANT Callbacks

VARIABLES
    registered,  \* gs.callbacks
    manager,     \* the goroutine of the signal manager
    running,     \* callbacks whose goroutine has not returned
    exit         \* how the process has ended

shutdownVars == <<registered, manager, running, exit>>

ShutdownTypeOK ==
    /\ registered \subseteq Callbacks
    /\ manager \in {"none", "started", "listening", "signalled", "running"}
    /\ running \subseteq registered
    /\ exit \in {"no", "0", "1", "panic", "killed"}

ShutdownInit ==
    /\ registered = {} /\ manager = "none" /\ running = {} /\ exit = "no"

Alive == exit = "no"
Exit(code) == exit' = code

AddShutdownCallback(cb) ==
    /\ registered' = registered \cup {cb}
    /\ UNCHANGED <<manager, running, exit>>

\* gs.Start: the manager's Start spawns its goroutine.
StartManagers ==
    /\ manager' = "started"
    /\ UNCHANGED <<registered, running, exit>>

\* signal.Notify, in that goroutine.
Notify ==
    /\ Alive /\ manager = "started"
    /\ manager' = "listening"
    /\ UNCHANGED <<registered, running, exit>>

\* Before Notify a signal kills the process; the first one after it is received,
\* and nobody receives another.
Signal ==
    /\ Alive
    /\ \/ manager \in {"none", "started"} /\ Exit("killed") /\ UNCHANGED manager
       \/ manager = "listening" /\ manager' = "signalled" /\ UNCHANGED exit
    /\ UNCHANGED <<registered, running>>

StartShutdown ==
    /\ Alive /\ manager = "signalled"
    /\ manager' = "running"
    /\ running' = registered
    /\ UNCHANGED <<registered, exit>>

CallbackReturns(cb) ==
    /\ running' = running \ {cb}
    /\ UNCHANGED <<registered, manager, exit>>

\* (Fault: wg.Wait is left out.)
ShutdownFinish_Bug ==
    /\ Alive /\ manager = "running"
    /\ Exit("0")
    /\ UNCHANGED <<registered, manager, running>>

\* wg.Wait, then os.Exit(0).
ShutdownFinish ==
    /\ Alive /\ manager = "running" /\ running = {}
    /\ Exit("0")
    /\ UNCHANGED <<registered, manager, running>>

ShutdownNext == Notify \/ Signal \/ StartShutdown \/ ShutdownFinish
==============================================================================
