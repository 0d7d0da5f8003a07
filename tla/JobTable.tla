------------------------------- MODULE JobTable -------------------------------
(***************************************************************************)
(* The platform_jobs table and the statements the repository of            *)
(* internal/platform/jobs/postgres.go runs on it, as operators from tables *)
(* to tables.                                                              *)
(*                                                                         *)
(* A table maps every (kind, business_key) pair - a key - to its row; the  *)
(* row of a key nobody enqueued has state "absent".  The unique constraint *)
(* on (kind, business_key) is the function itself.  Payloads and the audit *)
(* timestamps are left out: no statement reads them.                       *)
(***************************************************************************)
EXTENDS Integers, FiniteSets

CONSTANTS
    Keys,           \* the (kind, business_key) pairs
    Workers,        \* worker IDs, as they appear in lock_owner
    NoWorker,       \* lock_owner IS NULL
    MaxMaxAttempts  \* maxMaxAttempts, 10 in the code

ASSUME TableAssumption ==
    /\ IsFiniteSet(Keys)
    /\ NoWorker \notin Workers
    /\ MaxMaxAttempts \in Nat \ {0}

\* The values of last_error that the code's branches tell apart.
Causes == {"none", "failed", "permanent", "no_handler", "interrupted",
           "lease_expired", "final_lease_expired"}

Row == [state    : {"absent", "pending", "running", "succeeded", "dead"},
        id       : Nat,
        runAt    : Nat,
        attempts : Nat,
        max      : 0 .. MaxMaxAttempts,
        owner    : Workers \cup {NoWorker},
        lockedAt : Nat,
        cause    : Causes]

AbsentRow == [state |-> "absent", id |-> 0, runAt |-> 0, attempts |-> 0,
              max |-> 0, owner |-> NoWorker, lockedAt |-> 0, cause |-> "none"]

Stored(tbl) == {k \in Keys : tbl[k].state # "absent"}

-------------------------------------------------------------------------------
(* Enqueue *)

\* validateNewJob: kind, key and payload are the key's, and stand for valid ones.
ValidNewJob(max) == max \in 1 .. MaxMaxAttempts

\* INSERT ... ON CONFLICT (kind, business_key) DO NOTHING.
Inserted(tbl, k, runAt, max) ==
    IF k \in Stored(tbl) THEN tbl
    ELSE [tbl EXCEPT ![k] = [AbsentRow EXCEPT !.state = "pending",
                                              !.id    = Cardinality(Stored(tbl)) + 1,
                                              !.runAt = runAt,
                                              !.max   = max]]

-------------------------------------------------------------------------------
(* Claim *)

\* The rows whose lease was taken at or before cutoff.
Expired(tbl, cutoff) ==
    {k \in Keys : tbl[k].state = "running" /\ tbl[k].lockedAt <= cutoff}

\* (Fault: an expired row always goes back to pending.)
RecoveredRow_Bug(row) == [row EXCEPT !.state = "pending", !.cause = "lease_expired",
                                     !.owner = NoWorker, !.lockedAt = 0]

\* (Fault: an attempt that was lost does not count.)
ForgivenRow_Bug(row) == [row EXCEPT !.state = "pending", !.cause = "lease_expired",
                                    !.owner = NoWorker, !.lockedAt = 0,
                                    !.attempts = @ - 1]

\* An expired row goes back to pending, or to dead when its attempts are used up.
RecoveredRow(row) ==
    IF row.attempts < row.max
    THEN [row EXCEPT !.state = "pending", !.cause = "lease_expired",
                     !.owner = NoWorker, !.lockedAt = 0]
    ELSE [row EXCEPT !.state = "dead", !.cause = "final_lease_expired",
                     !.owner = NoWorker, !.lockedAt = 0]

Recovered(tbl, rows) ==
    [k \in Keys |-> IF k \in rows THEN RecoveredRow(tbl[k]) ELSE tbl[k]]

\* The rows a claim at time now may pick.
Ready(tbl, now) ==
    {k \in Keys : /\ tbl[k].state = "pending"
                  /\ tbl[k].runAt <= now
                  /\ tbl[k].attempts < tbl[k].max}

\* ORDER BY run_at, id.
Earlier(tbl, j, k) ==
    \/ tbl[j].runAt < tbl[k].runAt
    \/ tbl[j].runAt = tbl[k].runAt /\ tbl[j].id < tbl[k].id

\* The first limit of some rows, in claim order.
FirstRows(tbl, rows, limit) ==
    {k \in rows : Cardinality({j \in rows : Earlier(tbl, j, k)}) < limit}

Started(tbl, rows, w, now) ==
    [k \in Keys |->
        IF k \in rows
        THEN [tbl[k] EXCEPT !.state = "running", !.attempts = @ + 1,
                            !.owner = w, !.lockedAt = now]
        ELSE tbl[k]]

\* The two statements of the transaction on the rows that no other transaction
\* has locked: the table after the recovery, and the batch picked from it.
AfterRecovery(tbl, free, now, lease) ==
    Recovered(tbl, Expired(tbl, now - lease) \cap free)

BatchOf(tbl, free, now, lease, limit) ==
    LET recovered == AfterRecovery(tbl, free, now, lease)
    IN  FirstRows(recovered, Ready(recovered, now) \cap free, limit)

\* The rows the transaction locks, SKIP LOCKED: what it recovers and what it picks.
LockedBy(tbl, free, now, lease, limit) ==
    (Expired(tbl, now - lease) \cap free) \cup BatchOf(tbl, free, now, lease, limit)

\* The table once the transaction that locked held commits.
Claimed(tbl, held, w, now, lease, limit) ==
    Started(AfterRecovery(tbl, held, now, lease),
            BatchOf(tbl, held, now, lease, limit), w, now)

-------------------------------------------------------------------------------
(* Complete, Retry and Dead *)

Write == [op : {"complete", "retry", "dead"}, runAt : Nat, cause : Causes]

\* (Fault: WHERE id = $1 alone.)
Owns_Bug(tbl, k, w) == tbl[k].state # "absent"

\* The fence of every lifecycle update: WHERE state = 'running' AND lock_owner = w.
Owns(tbl, k, w) == tbl[k].state = "running" /\ tbl[k].owner = w

\* (Fault: a retry that keeps the lock columns.)
WrittenRow_Bug(row, write) ==
    CASE write.op = "complete" ->
            [row EXCEPT !.state = "succeeded", !.cause = "none",
                        !.owner = NoWorker, !.lockedAt = 0]
      [] write.op = "retry" ->
            [row EXCEPT !.state = "pending", !.runAt = write.runAt,
                        !.cause = write.cause]
      [] OTHER ->
            [row EXCEPT !.state = "dead", !.cause = write.cause,
                        !.owner = NoWorker, !.lockedAt = 0]

WrittenRow(row, write) ==
    CASE write.op = "complete" ->
            [row EXCEPT !.state = "succeeded", !.cause = "none",
                        !.owner = NoWorker, !.lockedAt = 0]
      [] write.op = "retry" ->
            [row EXCEPT !.state = "pending", !.runAt = write.runAt,
                        !.cause = write.cause, !.owner = NoWorker, !.lockedAt = 0]
      [] OTHER ->
            [row EXCEPT !.state = "dead", !.cause = write.cause,
                        !.owner = NoWorker, !.lockedAt = 0]

\* An update that matches no row changes nothing; requireOneUpdate reports it.
Written(tbl, k, w, write) ==
    IF Owns(tbl, k, w) THEN [tbl EXCEPT ![k] = WrittenRow(@, write)] ELSE tbl
===============================================================================
