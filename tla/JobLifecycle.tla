----------------------------- MODULE JobLifecycle -----------------------------
(***************************************************************************)
(* What the job platform promises about each job, whatever workers crash,  *)
(* lose leases or stop: a job is stored once and keeps its attempt limit,  *)
(* every execution is one counted attempt, a job that waits can still be   *)
(* executed, and it ends succeeded or dead, for good - dead only on a      *)
(* permanent verdict or when its attempts are used up.                     *)
(*                                                                         *)
(* One step may advance several jobs: a claim transaction recovers and     *)
(* starts a whole batch.                                                   *)
(***************************************************************************)
EXTENDS Integers

CONSTANTS Keys, MaxMaxAttempts

VARIABLE job  \* [Keys -> [state, attempts, max, verdict]]

Job == [state : {"absent", "pending", "running", "succeeded", "dead"},
        attempts : Nat, max : 0 .. MaxMaxAttempts, verdict : BOOLEAN]

Init == job = [k \in Keys |-> [state |-> "absent", attempts |-> 0, max |-> 0,
                               verdict |-> FALSE]]

Same(old, new) == new.attempts = old.attempts /\ new.max = old.max

Submit(old, new) ==
    /\ old.state = "absent"
    /\ new.state = "pending"
    /\ new.attempts = 0
    /\ new.max \in 1 .. MaxMaxAttempts

\* An attempt begins: of a waiting job, or of a running one whose attempt is
\* taken for lost.
Begin(old, new) ==
    /\ old.state \in {"pending", "running"}
    /\ old.attempts < old.max
    /\ new.state = "running"
    /\ new.attempts = old.attempts + 1
    /\ new.max = old.max

Postpone(old, new) ==
    /\ old.state = "running"
    /\ old.attempts < old.max
    /\ new.state = "pending"
    /\ Same(old, new)

Succeed(old, new) ==
    /\ old.state = "running"
    /\ new.state = "succeeded"
    /\ Same(old, new)

Fail(old, new) ==
    /\ old.state = "running"
    /\ new.state = "dead"
    /\ old.attempts = old.max \/ new.verdict
    /\ Same(old, new)

Advance(old, new) ==
    \/ Submit(old, new)
    \/ Begin(old, new)
    \/ Postpone(old, new)
    \/ Succeed(old, new)
    \/ Fail(old, new)

Next == /\ job' \in [Keys -> Job]
        /\ \A k \in Keys : job'[k] = job[k] \/ Advance(job[k], job'[k])

Spec == Init /\ [][Next]_job
===============================================================================
