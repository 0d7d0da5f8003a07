------------------------------ MODULE JobPolicy ------------------------------
(***************************************************************************)
(* The timing policy of the job runner: how long a handler may run inside  *)
(* its lease, how long a shutdown waits for it, and how far away a retry   *)
(* is scheduled.  These are the pure functions at the end of               *)
(* internal/platform/jobs/runner.go.                                       *)
(*                                                                         *)
(* Times are natural numbers of ticks; one tick is the resolution of the   *)
(* code's time.Duration (the floor of the lease margin below).             *)
(***************************************************************************)
EXTENDS Integers

CONSTANTS
    MaxShutdownGrace,  \* maxShutdownGrace, 30s in the code
    BaseRetryDelay,    \* the delay after a first failure, 1m in the code
    MaxRetryDelay      \* maxRetryDelay, 1h in the code

ASSUME PolicyAssumption ==
    /\ MaxShutdownGrace \in Nat
    /\ BaseRetryDelay \in Nat \ {0}
    /\ MaxRetryDelay \in Nat
    /\ BaseRetryDelay <= MaxRetryDelay

\* Faults (names ending in _Bug) are used by no definition: each is a mistake one
\* could make in the definition that follows it, which the checks must notice.

\* A margin that rounds down to nothing.
HandlerMargin_Bug(lease) == lease \div 5

\* The part of a lease kept for the lifecycle write: a fifth, at least a tick.
HandlerMargin(lease) == IF lease \div 5 < 1 THEN 1 ELSE lease \div 5

\* A handler that may use its whole lease.
HandlerTimeout_Bug(lease) == lease

\* How long a handler may run: the lease without its margin.
HandlerTimeout(lease) ==
    IF lease <= HandlerMargin(lease) THEN 0 ELSE lease - HandlerMargin(lease)

\* How long a shutdown waits for a handler that is running.
ShutdownGrace(lease) ==
    IF lease \div 10 > MaxShutdownGrace THEN MaxShutdownGrace ELSE lease \div 10

\* Doubling without the cap.
Doubled_Bug(delay) == IF delay >= MaxRetryDelay THEN delay ELSE 2 * delay

\* One turn of the loop of retryDelay: double, then cap; left alone at the cap.
Doubled(delay) ==
    CASE delay >= MaxRetryDelay     -> delay
      [] 2 * delay > MaxRetryDelay  -> MaxRetryDelay
      [] OTHER                      -> 2 * delay

\* The delay of the retry that follows failed attempt number attempts.
RetryDelay[attempts \in Nat] ==
    IF attempts <= 1 THEN BaseRetryDelay ELSE Doubled(RetryDelay[attempts - 1])
=============================================================================
