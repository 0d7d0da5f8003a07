--------------------------- MODULE JobRunnerProofs ---------------------------
(***************************************************************************)
(* Proofs about JobRunner for every number of jobs and workers, every      *)
(* lease, batch size and clock skew, and without the bounds of the runs.   *)
(***************************************************************************)
EXTENDS JobRunner, ListProofs, FiniteSetTheorems, TLAPS

-------------------------------------------------------------------------------
(* What the statements of JobTable do to a well-formed table *)

\* A row is well formed: the lock columns are set while it is running, and its
\* attempts stay within its limit.
WellFormed(row) ==
    /\ row \in Row
    /\ row.owner \in Workers <=> row.state = "running"
    /\ row.attempts <= row.max
    /\ row.state = "absent" => row.attempts = 0

Table == {tbl \in [Keys -> Row] : \A k \in Keys : WellFormed(tbl[k])}

StartedRow(row, w, now) ==
    [row EXCEPT !.state = "running", !.attempts = @ + 1, !.owner = w, !.lockedAt = now]

\* An attempt of a row with attempts left begins.
Begins(row, next, w, now) ==
    /\ row.attempts < row.max
    /\ next.state = "running"
    /\ next.attempts = row.attempts + 1
    /\ next.max = row.max
    /\ next.owner = w
    /\ next.lockedAt = now

\* A recovered row is well formed, not running, and counts the same attempts.
LEMMA RecoveredWellFormed ==
    ASSUME NEW row, WellFormed(row)
    PROVE  /\ WellFormed(RecoveredRow(row))
           /\ RecoveredRow(row).state \in {"pending", "dead"}
           /\ RecoveredRow(row).state = "pending" => row.attempts < row.max
           /\ RecoveredRow(row).attempts = row.attempts
           /\ RecoveredRow(row).max = row.max
BY TableAssumption DEF WellFormed, Row, Causes, RecoveredRow

\* A started row is well formed and counts one attempt more.
LEMMA StartedWellFormed ==
    ASSUME NEW row, WellFormed(row), row.attempts < row.max,
           NEW w \in Workers, NEW now \in Nat
    PROVE  /\ WellFormed(StartedRow(row, w, now))
           /\ Begins(row, StartedRow(row, w, now), w, now)
<1>1. row.attempts + 1 \in Nat /\ row.attempts + 1 <= row.max
  BY DEF WellFormed, Row
<1>2. ASSUME NEW n \in Nat, n <= row.max
      PROVE  LET next == [row EXCEPT !.state = "running", !.attempts = n,
                                     !.owner = w, !.lockedAt = now]
             IN  /\ WellFormed(next)
                 /\ next.state = "running" /\ next.attempts = n /\ next.max = row.max
                 /\ next.owner = w /\ next.lockedAt = now
  BY <1>2 DEF WellFormed, Row
<1> QED BY <1>1, <1>2 DEF StartedRow, Begins

\* An updated row is well formed, not running, and counts the same attempts.
LEMMA WrittenWellFormed ==
    ASSUME NEW row, WellFormed(row), NEW write \in Write
    PROVE  /\ WellFormed(WrittenRow(row, write))
           /\ WrittenRow(row, write).state \in {"pending", "succeeded", "dead"}
           /\ WrittenRow(row, write).state = "pending" => write.op = "retry"
           /\ WrittenRow(row, write).attempts = row.attempts
           /\ WrittenRow(row, write).max = row.max
<1>1. /\ WrittenRow(row, write) \in Row
      /\ WrittenRow(row, write).owner = NoWorker
      /\ WrittenRow(row, write).state \in {"pending", "succeeded", "dead"}
      /\ WrittenRow(row, write).state = "pending" => write.op = "retry"
      /\ WrittenRow(row, write).attempts = row.attempts
      /\ WrittenRow(row, write).max = row.max
  BY DEF WellFormed, Row, Write, Causes, WrittenRow
<1> QED BY <1>1, TableAssumption DEF WellFormed

\* Enqueue leaves a well-formed table, and the rows that are there as they are.
LEMMA InsertedTable ==
    ASSUME NEW tbl \in Table, NEW k \in Keys,
           NEW runAt \in Nat, NEW max \in 1 .. MaxMaxAttempts
    PROVE  /\ Inserted(tbl, k, runAt, max) \in Table
           /\ \A j \in Keys : \/ Inserted(tbl, k, runAt, max)[j] = tbl[j]
                              \/ /\ tbl[j].state = "absent"
                                 /\ Inserted(tbl, k, runAt, max)[j].state = "pending"
                                 /\ Inserted(tbl, k, runAt, max)[j].attempts = 0
                                 /\ Inserted(tbl, k, runAt, max)[j].max = max
<1>1. Cardinality(Stored(tbl)) + 1 \in Nat
  BY FS_Subset, FS_CardinalityType, TableAssumption DEF Stored
<1>2. CASE k \in Stored(tbl)
  BY <1>2 DEF Inserted
<1>3. CASE k \notin Stored(tbl)
  <2> DEFINE new == [AbsentRow EXCEPT !.state = "pending",
                                      !.id    = Cardinality(Stored(tbl)) + 1,
                                      !.runAt = runAt,
                                      !.max   = max]
  <2>0. max \in 0 .. MaxMaxAttempts /\ 0 \in Nat
    BY TableAssumption
  <2>1. /\ new \in Row
        /\ new.state = "pending" /\ new.attempts = 0 /\ new.max = max
        /\ new.owner = NoWorker
    <3>1. ASSUME NEW n \in Nat
          PROVE  LET row == [AbsentRow EXCEPT !.state = "pending", !.id = n,
                                              !.runAt = runAt, !.max = max]
                 IN  /\ row \in Row
                     /\ row.state = "pending" /\ row.attempts = 0 /\ row.max = max
                     /\ row.owner = NoWorker
      BY <2>0 DEF AbsentRow, Row, Causes
    <3> QED BY <1>1, <3>1
  <2>2. WellFormed(new)
    BY <2>1, TableAssumption DEF WellFormed
  <2>3. Inserted(tbl, k, runAt, max) = [tbl EXCEPT ![k] = new]
    BY <1>3 DEF Inserted
  <2>4. tbl[k].state = "absent"
    BY <1>3 DEF Stored
  <2> HIDE DEF new
  <2> QED BY <2>1, <2>2, <2>3, <2>4 DEF Table
<1> QED BY <1>2, <1>3

\* What a claim transaction does to the rows of tbl: it starts those of its batch,
\* which were pending or expired and have an attempt left; any other it recovers
\* or leaves alone.
ClaimEffect(tbl, claimed, batch, expired, w, now) ==
    /\ claimed \in Table
    /\ \A k \in Keys :
         /\ k \in batch => /\ tbl[k].state = "pending" \/ k \in expired
                           /\ Begins(tbl[k], claimed[k], w, now)
         /\ k \notin batch => \/ claimed[k] = tbl[k]
                              \/ k \in expired /\ claimed[k] = RecoveredRow(tbl[k])

\* That is the effect of Claim.
LEMMA ClaimedTable ==
    ASSUME NEW tbl \in Table, NEW others \in SUBSET Keys, NEW w \in Workers,
           NEW now \in Nat, NEW lease \in Nat, NEW limit \in Nat
    PROVE  ClaimEffect(tbl, Claimed(tbl, others, w, now, lease, limit),
                       BatchOf(tbl, others, now, lease, limit),
                       Expired(tbl, now - lease), w, now)
<1> DEFINE expired   == Expired(tbl, now - lease)
           recovered == AfterRecovery(tbl, others, now, lease)
           batch     == BatchOf(tbl, others, now, lease, limit)
           claimed   == Claimed(tbl, others, w, now, lease, limit)
<1>1. ASSUME NEW k \in Keys
      PROVE  recovered[k] = IF k \in expired /\ k \in others
                            THEN RecoveredRow(tbl[k]) ELSE tbl[k]
  BY DEF AfterRecovery, Recovered
<1>2. ASSUME NEW k \in Keys
      PROVE  WellFormed(tbl[k]) /\ WellFormed(recovered[k])
  BY <1>1, RecoveredWellFormed DEF Table
<1>3. ASSUME NEW k \in Keys, k \in batch
      PROVE  recovered[k].state = "pending" /\ recovered[k].attempts < recovered[k].max
  BY <1>3 DEF BatchOf, FirstRows, Ready
<1>4. claimed = [k \in Keys |-> IF k \in batch THEN StartedRow(recovered[k], w, now)
                                ELSE recovered[k]]
  BY DEF Claimed, Started, StartedRow
<1> HIDE DEF recovered, batch, claimed
<1>5. ASSUME NEW k \in Keys, k \in batch
      PROVE  /\ WellFormed(claimed[k])
             /\ tbl[k].state = "pending" \/ k \in expired
             /\ Begins(tbl[k], claimed[k], w, now)
  <2>1. /\ WellFormed(claimed[k])
        /\ Begins(recovered[k], claimed[k], w, now)
    BY <1>2, <1>3, <1>4, <1>5, StartedWellFormed
  <2>2. recovered[k].attempts = tbl[k].attempts /\ recovered[k].max = tbl[k].max
    BY <1>1, <1>2, RecoveredWellFormed
  <2>3. tbl[k].state = "pending" \/ k \in expired
    BY <1>1, <1>3, <1>5
  <2> QED BY <2>1, <2>2, <2>3 DEF Begins
<1>6. ASSUME NEW k \in Keys, k \notin batch
      PROVE  /\ WellFormed(claimed[k])
             /\ \/ claimed[k] = tbl[k]
                \/ k \in expired /\ claimed[k] = RecoveredRow(tbl[k])
  BY <1>1, <1>2, <1>4, <1>6
<1>7. claimed \in Table
  <2>1. \A k \in Keys : WellFormed(claimed[k])
    BY <1>5, <1>6
  <2>2. claimed = [k \in Keys |-> claimed[k]]
    BY <1>4
  <2> QED BY <2>1, <2>2 DEF Table, WellFormed
<1> QED BY <1>5, <1>6, <1>7 DEF batch, claimed, ClaimEffect

\* A lifecycle update changes the row it names, if the worker owns it, and none
\* else.
LEMMA WrittenTable ==
    ASSUME NEW tbl \in Table, NEW k \in Keys, NEW w, NEW write \in Write
    PROVE  /\ Written(tbl, k, w, write) \in Table
           /\ \A j \in Keys : Written(tbl, k, w, write)[j] =
                                IF j = k /\ Owns(tbl, k, w)
                                THEN WrittenRow(tbl[j], write) ELSE tbl[j]
<1>1. \A j \in Keys : WellFormed(tbl[j])
  BY DEF Table
<1>2. WellFormed(WrittenRow(tbl[k], write)) /\ WrittenRow(tbl[k], write) \in Row
  BY <1>1, WrittenWellFormed DEF WellFormed
<1> QED BY <1>1, <1>2 DEF Written, Table

-------------------------------------------------------------------------------
(* The timing policy *)

\* A handler has less time than its lease, however short, and the timeouts are
\* durations.
LEMMA PolicyTypes ==
    /\ HandlerTimeout(Lease) \in Nat
    /\ HandlerTimeout(Lease) < Lease
    /\ ShutdownGrace(Lease) \in Nat
<1>1. Lease \in Nat /\ Lease > 0
  BY RunnerAssumption
<1>2. Lease \div 5 \in Nat /\ Lease \div 10 \in Nat
  BY <1>1
<1>3. HandlerMargin(Lease) \in Nat /\ HandlerMargin(Lease) >= 1
  BY <1>2 DEF HandlerMargin
<1> QED BY <1>1, <1>2, <1>3, PolicyAssumption DEF HandlerTimeout, ShutdownGrace

-------------------------------------------------------------------------------
(* How a step changes the table *)

\* The rows are well formed; a goroutine that works on a job belongs to a
\* process that is handling, and holds an attempt that was counted.
AttemptsCounted ==
    /\ jobs \in Table
    /\ \A w \in Workers, k \in Keys :
           Phase(w, k) # "none" => /\ proc[w] = "handling"
                                   /\ task[w][k].attempt \in 1 .. jobs[k].attempts

\* No step takes an attempt back; a stored job stays and keeps its limit.
RowGrows(old, new) ==
    /\ old.attempts <= new.attempts
    /\ old.state # "absent" => new.state # "absent" /\ new.max = old.max

\* The claim transaction of a worker, by row.
LEMMA CommitRows ==
    ASSUME TypeOK, AttemptsCounted, NEW w \in Workers
    PROVE  /\ ClaimEffect(jobs, Committed(w), BatchFor(w),
                          Expired(jobs, polledAt[w] - Lease), w, polledAt[w])
           /\ \A k \in Keys : RowGrows(jobs[k], Committed(w)[k])
<1>1. /\ jobs \in Table
      /\ held[w] \in SUBSET Keys
      /\ polledAt[w] \in Nat
      /\ Lease \in Nat /\ Limit[w] \in Nat
  <2>1. jobs \in Table
    BY DEF AttemptsCounted
  <2>2. held[w] \in SUBSET Keys /\ polledAt[w] \in Nat
    BY DEF TypeOK
  <2>3. Lease \in Nat
    BY RunnerAssumption
  <2>4. Limit \in [Workers -> 1 .. 100]
    BY RunnerAssumption
  <2>5. Limit[w] \in Nat
    BY <2>4
  <2> QED BY <2>1, <2>2, <2>3, <2>5
<1>2. ClaimEffect(jobs, Committed(w), BatchFor(w),
                  Expired(jobs, polledAt[w] - Lease), w, polledAt[w])
  BY <1>1, ClaimedTable DEF Committed, BatchFor
<1>3. ASSUME NEW k \in Keys
      PROVE  RowGrows(jobs[k], Committed(w)[k])
  <2>1. WellFormed(jobs[k]) /\ jobs[k].attempts \in Nat
    BY <1>1 DEF Table, WellFormed, Row
  <2>2. \/ Begins(jobs[k], Committed(w)[k], w, polledAt[w])
        \/ Committed(w)[k] = jobs[k]
        \/ Committed(w)[k] = RecoveredRow(jobs[k])
    BY <1>2 DEF ClaimEffect
  <2> QED BY <2>1, <2>2, RecoveredWellFormed DEF RowGrows, Begins
<1> QED BY <1>2, <1>3

\* A lifecycle update, by row.
LEMMA WriteRows ==
    ASSUME AttemptsCounted, NEW w \in Workers, NEW k \in Keys, NEW write \in Write
    PROVE  LET written == Written(jobs, k, w, write)
           IN  /\ written \in Table
               /\ \A j \in Keys :
                    /\ \/ written[j] = jobs[j]
                       \/ /\ j = k /\ Owns(jobs, k, w)
                          /\ written[j] = WrittenRow(jobs[j], write)
                    /\ RowGrows(jobs[j], written[j])
<1> DEFINE written == Written(jobs, k, w, write)
<1>1. jobs \in Table
  BY DEF AttemptsCounted
<1>2. written \in Table
  BY <1>1, WrittenTable
<1>3. ASSUME NEW j \in Keys
      PROVE  /\ \/ written[j] = jobs[j]
                \/ /\ j = k /\ Owns(jobs, k, w)
                   /\ written[j] = WrittenRow(jobs[j], write)
             /\ RowGrows(jobs[j], written[j])
  <2>1. \/ written[j] = jobs[j]
        \/ /\ j = k /\ Owns(jobs, k, w)
           /\ written[j] = WrittenRow(jobs[j], write)
    BY <1>1, WrittenTable
  <2>2. WellFormed(jobs[j]) /\ jobs[j].attempts \in Nat
    BY <1>1 DEF Table, WellFormed, Row
  <2> QED BY <2>1, <2>2, WrittenWellFormed DEF RowGrows
<1> QED BY <1>2, <1>3

\* Enqueue, by row.
LEMMA EnqueueRows ==
    ASSUME AttemptsCounted, NEW k \in Keys, Enqueue(k)
    PROVE  /\ jobs' \in Table
           /\ \A j \in Keys :
                /\ \/ jobs'[j] = jobs[j]
                   \/ /\ jobs[j].state = "absent" /\ jobs[j].attempts = 0
                      /\ jobs'[j].state = "pending" /\ jobs'[j].attempts = 0
                      /\ jobs'[j].max \in 1 .. MaxMaxAttempts
                /\ RowGrows(jobs[j], jobs'[j])
<1>1. PICK runAt \in Nat, max \in 1 .. MaxMaxAttempts : jobs' = Inserted(jobs, k, runAt, max)
  BY RunnerAssumption DEF Enqueue, ValidNewJob
<1>2. jobs \in Table /\ \A j \in Keys : WellFormed(jobs[j])
  BY DEF AttemptsCounted, Table
<1>3. /\ jobs' \in Table
      /\ \A j \in Keys : \/ jobs'[j] = jobs[j]
                         \/ /\ jobs[j].state = "absent"
                            /\ jobs'[j].state = "pending"
                            /\ jobs'[j].attempts = 0
                            /\ jobs'[j].max = max
  BY <1>1, <1>2, InsertedTable
<1>4. ASSUME NEW j \in Keys
      PROVE  jobs[j].attempts \in Nat /\ (jobs[j].state = "absent" => jobs[j].attempts = 0)
  BY <1>2 DEF WellFormed, Row
<1> QED BY <1>3, <1>4 DEF RowGrows

\* A step without effect on the table.
LEMMA SameRows ==
    ASSUME AttemptsCounted, jobs' = jobs
    PROVE  jobs' \in Table /\ \A k \in Keys : RowGrows(jobs[k], jobs'[k])
<1>1. ASSUME NEW k \in Keys PROVE jobs[k].attempts \in Nat
  BY DEF AttemptsCounted, Table, WellFormed, Row
<1> QED BY <1>1 DEF AttemptsCounted, RowGrows

\* Every step keeps the table well formed and lets its rows only grow.
LEMMA TableStep ==
    ASSUME TypeOK, AttemptsCounted, [Next]_vars
    PROVE  jobs' \in Table /\ \A k \in Keys : RowGrows(jobs[k], jobs'[k])
<1>1. ASSUME NEW k \in Keys, Enqueue(k)
      PROVE  jobs' \in Table /\ \A j \in Keys : RowGrows(jobs[j], jobs'[j])
  BY <1>1, EnqueueRows
<1>2. ASSUME NEW w \in Workers, ClaimCommits(w) \/ ClaimFails(w)
      PROVE  jobs' \in Table /\ \A j \in Keys : RowGrows(jobs[j], jobs'[j])
  BY <1>2, CommitRows, SameRows DEF ClaimCommits, ClaimFails, ClaimEffect
<1>3. ASSUME NEW w \in Workers, NEW k \in Keys, WriteLifecycle(w, k)
      PROVE  jobs' \in Table /\ \A j \in Keys : RowGrows(jobs[j], jobs'[j])
  <2>1. task[w][k].write \in Write
    BY DEF TypeOK, Task
  <2> QED BY <1>3, <2>1, WriteRows DEF WriteLifecycle
<1>4. ASSUME NEW u \in late, LateWriteLands(u)
      PROVE  jobs' \in Table /\ \A j \in Keys : RowGrows(jobs[j], jobs'[j])
  <2>1. u.worker \in Workers /\ u.key \in Keys /\ u.write \in Write
    BY DEF TypeOK, LateWrite
  <2> QED BY <1>4, <2>1, WriteRows DEF LateWriteLands
<1>5. CASE UNCHANGED jobs
  BY <1>5, SameRows
<1> QED
  <2>1. ASSUME NEW w \in Workers, NEW k \in Keys,
               TaskStep(w, k) \/ HandlerReturns(w, k) \/ WriteFails(w, k)
        PROVE  UNCHANGED jobs \/ WriteLifecycle(w, k)
    BY <2>1 DEF TaskStep, HandlerReturns, WriteFails, NoHandler, StartHandler,
                DeadlineFires, ObserveShutdown, GraceExpires, IssueWrite, SetTask
  <2>2. ASSUME NEW w \in Workers,
               Poll(w) \/ LockRows(w) \/ BatchDone(w) \/ Stop(w)
               \/ Signal(w) \/ Crash(w) \/ Restart(w)
        PROVE  UNCHANGED jobs
    BY <2>2 DEF Poll, LockRows, BatchDone, Stop, Signal, Crash, Restart
  <2> QED BY <1>1, <1>2, <1>3, <1>4, <1>5, <2>1, <2>2 DEF Next, Work, Tick, vars

-------------------------------------------------------------------------------
(* Types *)

\* The outcome an update records is right for its attempt: a retry is not asked
\* for after the last one, and only a permanent verdict or the last attempt is
\* the end of a job.
RightWrite(write, attempt, max) ==
    /\ write.op = "retry" => attempt < max
    /\ write.op = "dead" => attempt >= max \/ write.cause \in {"permanent", "no_handler"}

\* The updates a goroutine can choose are lifecycle updates, and right.
LEMMA ChosenWrites ==
    ASSUME TypeOK, AttemptsCounted, NEW w \in Workers, NEW k \in Keys, Phase(w, k) # "none"
    PROVE  \A write \in {DeadWrite("no_handler"), InterruptWrite(w, k)}
                          \cup {FinishWrite(w, k, o) : o \in {"ok", "failed", "permanent"}} :
               write \in Write /\ RightWrite(write, task[w][k].attempt, jobs[k].max)
<1> DEFINE Good(write) == write \in Write /\ RightWrite(write, task[w][k].attempt, jobs[k].max)
<1>1. /\ task[w][k].attempt \in 1 .. jobs[k].attempts
      /\ jobs[k].attempts \in Nat
      /\ jobs[k].max \in 0 .. MaxMaxAttempts
      /\ polledAt[w] \in Nat
  BY DEF TypeOK, AttemptsCounted, Row
<1>2. ASSUME NEW cause \in {"failed", "interrupted"}, ~Exhausted(w, k)
      PROVE  Good(RetryWrite(w, k, cause))
  <2>1. task[w][k].attempt \in 1 .. MaxMaxAttempts /\ task[w][k].attempt < jobs[k].max
    BY <1>1, <1>2, TableAssumption DEF Exhausted
  <2>2. polledAt[w] + Backoff[task[w][k].attempt] \in Nat
    BY <1>1, <2>1, RunnerAssumption
  <2> QED BY <2>1, <2>2 DEF RetryWrite, Write, Causes, RightWrite
<1>3. ASSUME NEW cause \in {"no_handler", "permanent"}
      PROVE  Good(DeadWrite(cause))
  BY DEF DeadWrite, Write, Causes, RightWrite
<1>4. ASSUME NEW cause \in {"failed", "interrupted"}, Exhausted(w, k)
      PROVE  Good(DeadWrite(cause))
  BY <1>4 DEF DeadWrite, Write, Causes, RightWrite, Exhausted
<1>5. Good(CompleteWrite)
  BY DEF CompleteWrite, Write, Causes, RightWrite
<1>6. Good(InterruptWrite(w, k))
  BY <1>2, <1>4 DEF InterruptWrite
<1>7. ASSUME NEW o \in {"ok", "failed", "permanent"}
      PROVE  Good(FinishWrite(w, k, o))
  BY <1>2, <1>3, <1>4, <1>5 DEF FinishWrite
<1> QED BY <1>3, <1>6, <1>7

\* A goroutine t goes on with the work of the one of w for k: on the same attempt,
\* under the same deadline once its handler runs, and with a new outcome
\* in mind only if it is right.
GoesOn(w, k, t) ==
    /\ Phase(w, k) # "none"
    /\ t.attempt = task[w][k].attempt
    /\ t.phase = "claimed" => Phase(w, k) = "claimed"
    /\ t.phase \in {"running", "grace"} =>
          \/ Phase(w, k) = "claimed" /\ t.deadline = clock + HandlerTimeout(Lease)
          \/ Phase(w, k) \in {"running", "grace"} /\ t.deadline = task[w][k].deadline
    /\ t.phase = "writing" =>
          \/ t = task[w][k]
          \/ RightWrite(t.write, t.attempt, jobs[k].max)

\* What becomes of the goroutines of a process.
TaskEffect(w, k, t) ==
    /\ t \in Task
    /\ task' = [task EXCEPT ![w] = [@ EXCEPT ![k] = t]]
    /\ UNCHANGED <<clock, proc, ctxDone, polledAt, held, disruptions>>
    /\ t.phase # "none" => GoesOn(w, k, t)

\* Choosing an update replaces one goroutine and keeps its attempt.
LEMMA IssueEffect ==
    ASSUME TypeOK, NEW w \in Workers, NEW k \in Keys, Phase(w, k) # "none",
           NEW write \in Write, IssueWrite(w, k, write),
           RightWrite(write, task[w][k].attempt, jobs[k].max)
    PROVE  \E t : TaskEffect(w, k, t)
<1> DEFINE t == [NoTask EXCEPT !.phase   = "writing",
                               !.attempt = task[w][k].attempt,
                               !.write   = write]
<1>1. task[w][k].attempt \in Nat
  BY DEF TypeOK, Task
<1>2. t \in Task /\ t.phase = "writing" /\ t.attempt = task[w][k].attempt /\ t.write = write
  BY <1>1 DEF NoTask, Task
<1>3. GoesOn(w, k, t)
  BY <1>2 DEF GoesOn
<1>4. /\ task' = [task EXCEPT ![w] = [@ EXCEPT ![k] = t]]
      /\ UNCHANGED <<clock, proc, ctxDone, polledAt, held, disruptions>>
  BY DEF IssueWrite, SetTask
<1> HIDE DEF t
<1> QED BY <1>2, <1>3, <1>4 DEF TaskEffect

\* So does every step of a goroutine; it may also end.
LEMMA TaskSteps ==
    ASSUME TypeOK, AttemptsCounted, NEW w \in Workers, NEW k \in Keys,
           TaskStep(w, k) \/ HandlerReturns(w, k) \/ WriteFails(w, k)
    PROVE  \E t : TaskEffect(w, k, t)
<1>1. CASE NoHandler(w, k)
  <2>1. Phase(w, k) # "none" /\ IssueWrite(w, k, DeadWrite("no_handler"))
    BY <1>1 DEF NoHandler
  <2>2. /\ DeadWrite("no_handler") \in Write
        /\ RightWrite(DeadWrite("no_handler"), task[w][k].attempt, jobs[k].max)
    BY <2>1, ChosenWrites
  <2> QED BY <2>1, <2>2, IssueEffect
<1>2. CASE DeadlineFires(w, k) \/ GraceExpires(w, k)
  <2>1. Phase(w, k) # "none" /\ IssueWrite(w, k, InterruptWrite(w, k))
    BY <1>2 DEF DeadlineFires, GraceExpires
  <2>2. /\ InterruptWrite(w, k) \in Write
        /\ RightWrite(InterruptWrite(w, k), task[w][k].attempt, jobs[k].max)
    BY <2>1, ChosenWrites
  <2> QED BY <2>1, <2>2, IssueEffect
<1>3. CASE HandlerReturns(w, k)
  <2>1. PICK o \in {"ok", "failed", "permanent"} : IssueWrite(w, k, FinishWrite(w, k, o))
    BY <1>3 DEF HandlerReturns
  <2>2. Phase(w, k) # "none"
    BY <1>3 DEF HandlerReturns
  <2>3. /\ FinishWrite(w, k, o) \in Write
        /\ RightWrite(FinishWrite(w, k, o), task[w][k].attempt, jobs[k].max)
    BY <2>2, ChosenWrites
  <2> QED BY <2>1, <2>2, <2>3, IssueEffect
<1>4. CASE StartHandler(w, k)
  <2>1. clock + HandlerTimeout(Lease) \in Nat /\ task[w][k] \in Task
    BY PolicyTypes DEF TypeOK
  <2>2. ASSUME NEW n \in Nat
        PROVE  LET t == [task[w][k] EXCEPT !.phase = "running", !.deadline = n]
               IN  /\ t \in Task /\ t.attempt = task[w][k].attempt
                   /\ t.phase = "running" /\ t.deadline = n
    BY <2>1 DEF Task
  <2> DEFINE t == [task[w][k] EXCEPT !.phase = "running",
                                     !.deadline = clock + HandlerTimeout(Lease)]
  <2>3. GoesOn(w, k, t)
    BY <1>4, <2>1, <2>2 DEF StartHandler, GoesOn
  <2> QED BY <1>4, <2>1, <2>2, <2>3 DEF StartHandler, SetTask, TaskEffect
<1>5. CASE ObserveShutdown(w, k)
  <2>1. clock + ShutdownGrace(Lease) \in Nat /\ task[w][k] \in Task
    BY PolicyTypes DEF TypeOK
  <2>2. ASSUME NEW n \in Nat
        PROVE  LET t == [task[w][k] EXCEPT !.phase = "grace", !.graceEnd = n]
               IN  /\ t \in Task /\ t.attempt = task[w][k].attempt
                   /\ t.phase = "grace" /\ t.deadline = task[w][k].deadline
    BY <2>1 DEF Task
  <2> DEFINE t == [task[w][k] EXCEPT !.phase = "grace",
                                     !.graceEnd = clock + ShutdownGrace(Lease)]
  <2>3. GoesOn(w, k, t)
    BY <1>5, <2>1, <2>2 DEF ObserveShutdown, GoesOn
  <2> QED BY <1>5, <2>1, <2>2, <2>3 DEF ObserveShutdown, SetTask, TaskEffect
<1>6. CASE WriteLifecycle(w, k) \/ WriteFails(w, k)
  <2>1. NoTask \in Task /\ NoTask.phase = "none"
    BY DEF NoTask, Task, NoWrite, Write, Causes
  <2> QED BY <1>6, <2>1 DEF WriteLifecycle, WriteFails, TaskEffect
<1> QED BY <1>1, <1>2, <1>3, <1>4, <1>5, <1>6 DEF TaskStep

\* Types and counted attempts hold at the start ...
LEMMA TypeInit == Init => TypeOK /\ AttemptsCounted
<1> SUFFICES ASSUME Init PROVE TypeOK /\ AttemptsCounted
  OBVIOUS
<1>1. AbsentRow \in Row /\ WellFormed(AbsentRow) /\ AbsentRow.owner = NoWorker
                       /\ AbsentRow.state = "absent"
  BY TableAssumption DEF AbsentRow, Row, Causes, WellFormed
<1>2. NoTask \in Task /\ NoTask.phase = "none"
  BY DEF NoTask, Task, NoWrite, Write, Causes
<1> QED BY <1>1, <1>2, TableAssumption DEF Init, TypeOK, AttemptsCounted, Table, Phase

\* ... and every step preserves the types ...
LEMMA TypeStep == TypeOK /\ AttemptsCounted /\ [Next]_vars => TypeOK'
<1> SUFFICES ASSUME TypeOK, AttemptsCounted, [Next]_vars PROVE TypeOK'
  OBVIOUS
<1>1. /\ jobs' \in [Keys -> Row]
      /\ \A k \in Keys : jobs'[k].owner \in Workers <=> jobs'[k].state = "running"
  BY TableStep DEF Table, WellFormed
<1>2. NoTask \in Task /\ \A w \in Workers, k \in Keys : task[w][k] \in Task
  BY DEF TypeOK, NoTask, Task, NoWrite, Write, Causes
<1> DEFINE Others == /\ clock' \in Nat
                     /\ proc' \in [Workers -> {"polling", "claiming", "locked", "handling", "down"}]
                     /\ ctxDone' \in [Workers -> BOOLEAN]
                     /\ polledAt' \in [Workers -> Nat]
                     /\ held' \in [Workers -> SUBSET Keys]
                     /\ task' \in [Workers -> [Keys -> Task]]
                     /\ late' \subseteq LateWrite
                     /\ disruptions' \in Nat
<1>3. ASSUME NEW w \in Workers, Poll(w) PROVE Others
  <2>1. clock + Skew[w] \in Nat
    BY RunnerAssumption DEF TypeOK
  <2> QED BY <1>3, <2>1 DEF Poll, TypeOK
<1>4. ASSUME NEW w \in Workers, LockRows(w) PROVE Others
  <2>1. LockedBy(jobs, FreeFor(w), polledAt[w], Lease, Limit[w]) \subseteq Keys
    BY DEF LockedBy, Expired, BatchOf, FirstRows, Ready
  <2> QED BY <1>4, <2>1 DEF LockRows, TypeOK
<1>5. ASSUME NEW w \in Workers, ClaimCommits(w) PROVE Others
  <2>1. ASSUME NEW k \in Keys PROVE NewTask(w, k) \in Task
    <3>1. jobs'[k].attempts \in Nat /\ jobs' = Committed(w)
      BY <1>1, <1>5 DEF ClaimCommits, Row
    <3> QED BY <3>1 DEF NewTask, NoTask, Task, NoWrite, Write, Causes
  <2> QED BY <1>2, <1>5, <2>1 DEF ClaimCommits, TypeOK
<1>6. ASSUME NEW w \in Workers,
             ClaimFails(w) \/ BatchDone(w) \/ Stop(w) \/ Signal(w) \/ Restart(w)
      PROVE  Others
  <2>1. disruptions' \in Nat
    BY <1>6 DEF ClaimFails, BatchDone, Stop, Signal, Restart, TypeOK
  <2>2. CASE ClaimFails(w)
    BY <2>1, <2>2 DEF ClaimFails, TypeOK
  <2>3. CASE BatchDone(w) \/ Stop(w)
    BY <2>1, <2>3 DEF BatchDone, Stop, TypeOK
  <2>4. CASE Signal(w) \/ Restart(w)
    BY <2>1, <2>4 DEF Signal, Restart, TypeOK
  <2> QED BY <1>6, <2>2, <2>3, <2>4
<1>7. ASSUME NEW w \in Workers, NEW k \in Keys PROVE LateOf(w, k) \in LateWrite
  BY <1>2 DEF LateOf, LateWrite, Task
<1>8. ASSUME NEW w \in Workers, Crash(w) PROVE Others
  <2>1. late' \subseteq LateWrite
    BY <1>7, <1>8 DEF Crash, GiveUp, TypeOK
  <2>2. task' \in [Workers -> [Keys -> Task]]
    BY <1>2, <1>8 DEF Crash, TypeOK
  <2> QED BY <1>8, <2>1, <2>2 DEF Crash, TypeOK
<1>9. ASSUME NEW w \in Workers, NEW k \in Keys,
             TaskStep(w, k) \/ HandlerReturns(w, k) \/ WriteFails(w, k)
      PROVE  Others
  <2>1. PICK t : TaskEffect(w, k, t)
    BY <1>9, TaskSteps
  <2>2. late' \subseteq LateWrite
    BY <1>7, <1>9 DEF TaskStep, HandlerReturns, WriteFails, GiveUp, NoHandler, StartHandler,
            DeadlineFires, ObserveShutdown, GraceExpires, WriteLifecycle,
            IssueWrite, SetTask, TypeOK
  <2> QED BY <2>1, <2>2 DEF TaskEffect, TypeOK
<1>10. ASSUME (\E k \in Keys : Enqueue(k)) \/ (\E u \in late : LateWriteLands(u))
              \/ Tick \/ UNCHANGED vars
       PROVE  Others
  BY <1>10 DEF Enqueue, LateWriteLands, Tick, vars, TypeOK
<1>11. Others
  BY <1>3, <1>4, <1>5, <1>6, <1>8, <1>9, <1>10 DEF Next, Work
<1> QED BY <1>1, <1>11 DEF TypeOK

-------------------------------------------------------------------------------
(* Where tasks and row changes come from *)

\* A goroutine that works on a job after a step worked on it before, on the same
\* attempt and for the same poll, or has just been made by a claim.
LEMMA TaskOrigin ==
    ASSUME TypeOK, AttemptsCounted, [Next]_vars,
           NEW w \in Workers, NEW k \in Keys, task'[w][k].phase # "none"
    PROVE  \/ /\ GoesOn(w, k, task'[w][k])
              /\ proc'[w] = proc[w]
              /\ polledAt'[w] = polledAt[w]
           \/ ClaimCommits(w) /\ k \in BatchFor(w) /\ task'[w][k] = NewTask(w, k)
<1> DEFINE Kept == /\ GoesOn(w, k, task'[w][k])
                   /\ proc'[w] = proc[w]
                   /\ polledAt'[w] = polledAt[w]
           New == ClaimCommits(w) /\ k \in BatchFor(w) /\ task'[w][k] = NewTask(w, k)
<1>1. NoTask.phase = "none"
  BY DEF NoTask
<1>2. Phase(w, k) # "none" => proc[w] = "handling"
  BY DEF AttemptsCounted
<1>3. task'[w][k] = task[w][k] => GoesOn(w, k, task'[w][k])
  BY DEF GoesOn, Phase, TypeOK, Task
<1>4. ASSUME NEW v \in Workers, ClaimCommits(v) PROVE Kept \/ New
  <2>1. CASE v = w
    BY <1>1, <1>4, <2>1 DEF ClaimCommits, TypeOK
  <2>2. CASE v # w
    BY <1>3, <1>4, <2>2 DEF ClaimCommits, TypeOK
  <2> QED BY <2>1, <2>2
<1>5. ASSUME NEW v \in Workers, NEW j \in Keys,
             TaskStep(v, j) \/ HandlerReturns(v, j) \/ WriteFails(v, j)
      PROVE  Kept
  <2>1. PICK t : TaskEffect(v, j, t)
    BY <1>5, TaskSteps
  <2>2. CASE v = w /\ j = k
    BY <2>1, <2>2 DEF TaskEffect, TypeOK
  <2>3. CASE ~(v = w /\ j = k)
    <3>1. task'[w][k] = task[w][k]
      BY <2>1, <2>3 DEF TaskEffect, TypeOK
    <3> QED BY <1>3, <2>1, <3>1 DEF TaskEffect
  <2> QED BY <2>2, <2>3
<1>6. ASSUME NEW v \in Workers, Crash(v) PROVE Kept
  <2>1. v # w
    BY <1>1, <1>6 DEF Crash, TypeOK
  <2> QED BY <1>3, <1>6, <2>1 DEF Crash, TypeOK
<1>7. ASSUME NEW v \in Workers,
             Poll(v) \/ LockRows(v) \/ BatchDone(v) \/ Stop(v)
             \/ ClaimFails(v) \/ Signal(v) \/ Restart(v)
      PROVE  Kept
  <2>1. task' = task /\ Phase(w, k) # "none" /\ proc[w] = "handling"
    BY <1>2, <1>7 DEF Poll, LockRows, BatchDone, Stop, ClaimFails, Signal, Restart, Phase
  <2>2. CASE Signal(v)
    BY <1>3, <2>1, <2>2 DEF Signal
  <2>3. CASE v # w
    BY <1>3, <1>7, <2>1, <2>3
       DEF Poll, LockRows, BatchDone, Stop, ClaimFails, Signal, Restart, TypeOK
  <2>4. CASE v = w /\ ~Signal(v)
    BY <1>7, <2>1, <2>4 DEF Poll, LockRows, BatchDone, Idle, Stop, ClaimFails, Restart
  <2> QED BY <2>2, <2>3, <2>4
<1>8. ASSUME (\E j \in Keys : Enqueue(j)) \/ (\E u \in late : LateWriteLands(u))
             \/ Tick \/ UNCHANGED vars
      PROVE  Kept
  BY <1>3, <1>8 DEF Enqueue, LateWriteLands, Tick, vars
<1> QED BY <1>4, <1>5, <1>6, <1>7, <1>8 DEF Next, Work

\* The ways in which a step changes a row.
Created(old, new) ==
    /\ old.state = "absent" /\ old.attempts = 0
    /\ new.state = "pending" /\ new.attempts = 0
    /\ new.max \in 1 .. MaxMaxAttempts

ClaimedBy(w, k) ==
    /\ proc[w] = "locked"
    /\ jobs' = Committed(w)
    /\ jobs[k].state = "pending" \/ k \in Expired(jobs, polledAt[w] - Lease)
    /\ Begins(jobs[k], jobs'[k], w, polledAt[w])

RecoveredBy(w, k) ==
    /\ proc[w] = "locked"
    /\ k \in Expired(jobs, polledAt[w] - Lease)
    /\ jobs'[k] = RecoveredRow(jobs[k])

WrittenBy(w, k) ==
    /\ Owns(jobs, k, w)
    /\ \/ /\ Phase(w, k) = "writing"
          /\ task' = [task EXCEPT ![w] = [@ EXCEPT ![k] = NoTask]]
          /\ jobs'[k] = WrittenRow(jobs[k], task[w][k].write)
       \/ \E u \in late : /\ u.worker = w /\ u.key = k
                          /\ jobs'[k] = WrittenRow(jobs[k], u.write)

\* Whatever a step does to a row is one of these: nothing, its creation, a
\* claim, a recovery, or the write of one attempt.
LEMMA RowOrigin ==
    ASSUME TypeOK, AttemptsCounted, [Next]_vars, NEW k \in Keys
    PROVE  \/ jobs'[k] = jobs[k]
           \/ Created(jobs[k], jobs'[k])
           \/ \E w \in Workers : ClaimedBy(w, k) \/ RecoveredBy(w, k) \/ WrittenBy(w, k)
<1> DEFINE Origin == \/ jobs'[k] = jobs[k]
                     \/ Created(jobs[k], jobs'[k])
                     \/ \E w \in Workers : ClaimedBy(w, k) \/ RecoveredBy(w, k) \/ WrittenBy(w, k)
<1>1. ASSUME NEW j \in Keys, Enqueue(j) PROVE Origin
  BY <1>1, EnqueueRows DEF Created
<1>2. ASSUME NEW w \in Workers, ClaimCommits(w) \/ ClaimFails(w) PROVE Origin
  <2>1. CASE UNCHANGED jobs
    BY <2>1
  <2>2. CASE ~UNCHANGED jobs
    <3>1. proc[w] = "locked" /\ jobs' = Committed(w)
      BY <1>2, <2>2 DEF ClaimCommits, ClaimFails
    <3> QED BY <3>1, CommitRows DEF ClaimEffect, ClaimedBy, RecoveredBy
  <2> QED BY <2>1, <2>2
<1>3. ASSUME NEW w \in Workers, NEW j \in Keys, WriteLifecycle(w, j) PROVE Origin
  <2>1. task[w][j].write \in Write
    BY DEF TypeOK, Task
  <2>2. \/ jobs'[k] = jobs[k]
        \/ k = j /\ Owns(jobs, k, w) /\ jobs'[k] = WrittenRow(jobs[k], task[w][k].write)
    BY <1>3, <2>1, WriteRows DEF WriteLifecycle
  <2> QED BY <1>3, <2>2 DEF WriteLifecycle, WrittenBy
<1>4. ASSUME NEW u \in late, LateWriteLands(u) PROVE Origin
  <2>1. u.worker \in Workers /\ u.key \in Keys /\ u.write \in Write
    BY DEF TypeOK, LateWrite
  <2>2. \/ jobs'[k] = jobs[k]
        \/ k = u.key /\ Owns(jobs, k, u.worker) /\ jobs'[k] = WrittenRow(jobs[k], u.write)
    BY <1>4, <2>1, WriteRows DEF LateWriteLands
  <2> QED BY <2>1, <2>2 DEF WrittenBy
<1>5. ASSUME NEW w \in Workers, NEW j \in Keys,
             TaskStep(w, j) \/ HandlerReturns(w, j) \/ WriteFails(w, j)
      PROVE  UNCHANGED jobs \/ WriteLifecycle(w, j)
  BY <1>5 DEF TaskStep, HandlerReturns, WriteFails, NoHandler, StartHandler,
              DeadlineFires, ObserveShutdown, GraceExpires, IssueWrite, SetTask
<1>6. ASSUME NEW w \in Workers,
             Poll(w) \/ LockRows(w) \/ BatchDone(w) \/ Stop(w)
             \/ Signal(w) \/ Crash(w) \/ Restart(w)
      PROVE  UNCHANGED jobs
  BY <1>6 DEF Poll, LockRows, BatchDone, Stop, Signal, Crash, Restart
<1> QED BY <1>1, <1>2, <1>3, <1>4, <1>5, <1>6 DEF Next, Work, Tick, vars

\* Every step preserves the counted attempts.
LEMMA AttemptsStep == TypeOK /\ AttemptsCounted /\ [Next]_vars => AttemptsCounted'
<1> SUFFICES ASSUME TypeOK, AttemptsCounted, [Next]_vars PROVE AttemptsCounted'
  OBVIOUS
<1>1. jobs' \in Table
  BY TableStep
<1>2. ASSUME NEW w \in Workers, NEW k \in Keys, task'[w][k].phase # "none"
      PROVE  proc'[w] = "handling" /\ task'[w][k].attempt \in 1 .. jobs'[k].attempts
  <2>1. /\ jobs[k].attempts \in Nat /\ jobs'[k].attempts \in Nat
        /\ jobs[k].attempts <= jobs'[k].attempts
    BY <1>1, TableStep DEF AttemptsCounted, Table, WellFormed, Row, RowGrows
  <2>2. CASE GoesOn(w, k, task'[w][k]) /\ proc'[w] = proc[w]
    BY <2>1, <2>2 DEF AttemptsCounted, GoesOn
  <2>3. CASE ClaimCommits(w) /\ k \in BatchFor(w) /\ task'[w][k] = NewTask(w, k)
    <3>1. proc'[w] = "handling" /\ jobs' = Committed(w)
      BY <2>3 DEF ClaimCommits, TypeOK
    <3>2. task'[w][k].attempt = jobs'[k].attempts
      BY <2>3, <3>1 DEF NewTask, NoTask
    <3>3. jobs'[k].attempts = jobs[k].attempts + 1
      BY <2>3, <3>1, CommitRows DEF ClaimEffect, Begins
    <3> QED BY <2>1, <3>1, <3>2, <3>3
  <2> QED BY <1>2, <2>2, <2>3, TaskOrigin
<1> QED BY <1>1, <1>2 DEF AttemptsCounted, Phase

\* The state of the runner is well typed, the lock columns are set exactly while
\* a row is running, and every goroutine works on an attempt that was counted.
THEOREM TypeCorrect == Spec => [](TypeOK /\ AttemptsCounted)
<1>1. Init => TypeOK /\ AttemptsCounted
  BY TypeInit
<1>2. TypeOK /\ AttemptsCounted /\ [Next]_vars => (TypeOK /\ AttemptsCounted)'
  BY TypeStep, AttemptsStep
<1> QED BY <1>1, <1>2, PTL DEF Spec

-------------------------------------------------------------------------------
(* Attempts and the fence *)

\* Every step keeps the attempts of different workers apart.
LEMMA DistinctAttemptsStep ==
    TypeOK /\ AttemptsCounted /\ DistinctAttempts /\ [Next]_vars => DistinctAttempts'
<1> SUFFICES ASSUME TypeOK, AttemptsCounted, DistinctAttempts, [Next]_vars,
                    NEW v \in Workers, NEW w \in Workers, NEW k \in Keys, v # w,
                    task'[v][k].phase # "none", task'[w][k].phase # "none"
             PROVE  task'[v][k].attempt # task'[w][k].attempt
  BY DEF DistinctAttempts, Phase
<1>1. ASSUME NEW x \in Workers, NEW y \in Workers, x # y, ClaimCommits(x),
             k \in BatchFor(x), task'[x][k] = NewTask(x, k), task'[y][k].phase # "none"
      PROVE  task'[x][k].attempt # task'[y][k].attempt
  <2>1. task'[x][k].attempt = jobs[k].attempts + 1
    <3>1. task'[x][k].attempt = Committed(x)[k].attempts
      BY <1>1 DEF NewTask, NoTask
    <3> QED BY <1>1, <3>1, CommitRows DEF ClaimEffect, Begins
  <2>2. task'[y][k] = task[y][k]
    BY <1>1 DEF ClaimCommits, TypeOK
  <2>3. task[y][k].attempt \in 1 .. jobs[k].attempts /\ jobs[k].attempts \in Nat
    BY <1>1, <2>2 DEF AttemptsCounted, Phase, TypeOK, Row
  <2> QED BY <2>1, <2>2, <2>3
<1>2. CASE ClaimCommits(v) /\ k \in BatchFor(v) /\ task'[v][k] = NewTask(v, k)
  BY <1>1, <1>2
<1>3. CASE ClaimCommits(w) /\ k \in BatchFor(w) /\ task'[w][k] = NewTask(w, k)
  BY <1>1, <1>3
<1>4. CASE GoesOn(v, k, task'[v][k]) /\ GoesOn(w, k, task'[w][k])
  BY <1>4 DEF DistinctAttempts, GoesOn
<1> QED BY <1>2, <1>3, <1>4, TaskOrigin

\* No two workers work on the same attempt of a job, whatever crashes, lost
\* answers and late updates do.
THEOREM DistinctAttemptsHold == Spec => []DistinctAttempts
<1>1. Init => DistinctAttempts
  BY DEF Init, DistinctAttempts, Phase, NoTask
<1>2. TypeOK /\ AttemptsCounted /\ DistinctAttempts /\ [Next]_vars => DistinctAttempts'
  BY DistinctAttemptsStep
<1> QED BY <1>1, <1>2, TypeCorrect, PTL DEF Spec

\* Every step keeps the fence as good as a fence on attempts.
LEMMA FencedByAttemptStep ==
    TypeOK /\ AttemptsCounted /\ FencedByAttempt /\ [Next]_vars => FencedByAttempt'
<1> SUFFICES ASSUME TypeOK, AttemptsCounted, FencedByAttempt, [Next]_vars,
                    NEW w \in Workers, NEW k \in Keys, task'[w][k].phase # "none",
                    jobs'[k].state = "running", jobs'[k].owner = w
             PROVE  jobs'[k].attempts = task'[w][k].attempt
  BY DEF FencedByAttempt, Phase, Owns
<1>1. CASE ClaimCommits(w) /\ k \in BatchFor(w) /\ task'[w][k] = NewTask(w, k)
  <2>1. jobs' = Committed(w)
    BY <1>1 DEF ClaimCommits
  <2>2. NewTask(w, k).attempt = Committed(w)[k].attempts
    BY DEF NewTask, NoTask
  <2> QED BY <1>1, <2>1, <2>2
<1>2. CASE GoesOn(w, k, task'[w][k])
  <2>1. WellFormed(jobs[k])
    BY DEF AttemptsCounted, Table
  <2>2. CASE jobs'[k] = jobs[k]
    BY <1>2, <2>2 DEF FencedByAttempt, Owns, GoesOn
  <2>3. CASE Created(jobs[k], jobs'[k])
    BY <2>3 DEF Created
  <2>4. ASSUME NEW v \in Workers, ClaimedBy(v, k) PROVE FALSE
    <3>1. v = w
      BY <2>4 DEF ClaimedBy, Begins
    <3> QED BY <1>2, <2>4, <3>1 DEF ClaimedBy, AttemptsCounted, GoesOn
  <2>5. ASSUME NEW v \in Workers, RecoveredBy(v, k) PROVE FALSE
    BY <2>1, <2>5, RecoveredWellFormed DEF RecoveredBy
  <2>6. ASSUME NEW v \in Workers, WrittenBy(v, k) PROVE FALSE
    <3>1. PICK write \in Write : jobs'[k] = WrittenRow(jobs[k], write)
      BY <2>6 DEF WrittenBy, TypeOK, Task, LateWrite
    <3> QED BY <2>1, <3>1, WrittenWellFormed
  <2> QED BY <2>2, <2>3, <2>4, <2>5, <2>6, RowOrigin
<1> QED BY <1>1, <1>2, TaskOrigin

\* A goroutine's update can only match the attempt the goroutine has claimed.
THEOREM FencedByAttemptHolds == Spec => []FencedByAttempt
<1>1. Init => FencedByAttempt
  BY DEF Init, FencedByAttempt, Phase, NoTask
<1>2. TypeOK /\ AttemptsCounted /\ FencedByAttempt /\ [Next]_vars => FencedByAttempt'
  BY FencedByAttemptStep
<1> QED BY <1>1, <1>2, TypeCorrect, PTL DEF Spec
-------------------------------------------------------------------------------
(* The life cycle of the jobs *)

\* A job that has succeeded or is dead stays so, with late updates too: the
\* statements that change a row all ask for a job that is absent, pending or
\* running.
THEOREM TerminalIsFinalHolds == Spec => TerminalIsFinal
<1>1. TypeOK /\ AttemptsCounted /\ [Next]_vars
        => [\A k \in Keys : jobs[k].state \in {"succeeded", "dead"}
                               => jobs'[k] = jobs[k]]_vars
  <2> SUFFICES ASSUME TypeOK, AttemptsCounted, [Next]_vars,
                      NEW k \in Keys, jobs[k].state \in {"succeeded", "dead"}
               PROVE  jobs'[k] = jobs[k]
    OBVIOUS
  <2> QED BY RowOrigin DEF Created, ClaimedBy, RecoveredBy, Expired, WrittenBy, Owns
<1> QED BY <1>1, TypeCorrect, PTL DEF Spec, TerminalIsFinal

\* Without late writes a step adds no given-up update.
LEMMA NoLate ==
    ASSUME ~LateWrites, late = {}, [Next]_vars
    PROVE  late' = {}
<1>1. ASSUME NEW w \in Workers, NEW keys, GiveUp(w, keys) PROVE late' = {}
  BY <1>1 DEF GiveUp
<1>2. ASSUME NEW w \in Workers, NEW k \in Keys,
             TaskStep(w, k) \/ HandlerReturns(w, k) \/ WriteFails(w, k)
      PROVE  late' = {}
  BY <1>1, <1>2 DEF TaskStep, HandlerReturns, WriteFails, NoHandler, StartHandler,
            DeadlineFires, ObserveShutdown, GraceExpires, WriteLifecycle, IssueWrite, SetTask
<1>3. ASSUME NEW w \in Workers, Crash(w) PROVE late' = {}
  BY <1>1, <1>3 DEF Crash
<1>4. ASSUME NEW w \in Workers,
             Poll(w) \/ LockRows(w) \/ ClaimCommits(w) \/ BatchDone(w) \/ Stop(w)
             \/ ClaimFails(w) \/ Signal(w) \/ Restart(w)
      PROVE  late' = {}
  BY <1>4 DEF Poll, LockRows, ClaimCommits, BatchDone, Stop, ClaimFails, Signal, Restart
<1> QED BY <1>2, <1>3, <1>4 DEF Next, Work, Enqueue, Tick, vars

\* No given-up update is on its way, and every goroutine waits for an outcome
\* that is right.
RightWrites ==
    /\ late = {}
    /\ \A w \in Workers, k \in Keys :
           Phase(w, k) = "writing" =>
               RightWrite(task[w][k].write, task[w][k].attempt, jobs[k].max)

\* Every step preserves RightWrites.
LEMMA RightWritesStep ==
    ~LateWrites /\ TypeOK /\ AttemptsCounted /\ RightWrites /\ [Next]_vars => RightWrites'
<1> SUFFICES ASSUME ~LateWrites, TypeOK, AttemptsCounted, RightWrites, [Next]_vars
             PROVE  RightWrites'
  OBVIOUS
<1>1. late' = {}
  BY NoLate DEF RightWrites
<1>2. ASSUME NEW w \in Workers, NEW k \in Keys, task'[w][k].phase = "writing"
      PROVE  RightWrite(task'[w][k].write, task'[w][k].attempt, jobs'[k].max)
  <2>1. GoesOn(w, k, task'[w][k])
    BY <1>2, TaskOrigin DEF NewTask, NoTask
  <2>2. jobs'[k].max = jobs[k].max
    <3>1. jobs[k].state # "absent"
      BY <2>1 DEF GoesOn, AttemptsCounted, Table, WellFormed
    <3> QED BY <3>1, TableStep DEF RowGrows
  <2> QED BY <1>2, <2>1, <2>2 DEF GoesOn, RightWrites, Phase
<1> QED BY <1>1, <1>2 DEF RightWrites, Phase

\* While no given-up update reaches the database, the outcomes goroutines wait
\* for are right.
LEMMA RightWritesHold == ~LateWrites => (Spec => []RightWrites)
<1> SUFFICES ASSUME ~LateWrites PROVE Spec => []RightWrites
  OBVIOUS
<1>1. Init => RightWrites
  BY DEF Init, RightWrites, Phase, NoTask
<1>2. TypeOK /\ AttemptsCounted /\ RightWrites /\ [Next]_vars => RightWrites'
  BY RightWritesStep
<1> QED BY <1>1, <1>2, TypeCorrect, PTL DEF Spec

\* A step changes a row by creating the job, by beginning an attempt, by taking
\* over an expired one, or by recording an outcome that is right for the attempt
\* the row is at.
LEMMA RowChange ==
    ASSUME TypeOK, AttemptsCounted, FencedByAttempt, RightWrites, [Next]_vars, NEW k \in Keys
    PROVE  \/ jobs'[k] = jobs[k]
           \/ Created(jobs[k], jobs'[k])
           \/ \E w \in Workers : ClaimedBy(w, k)
           \/ jobs[k].state = "running" /\ jobs'[k] = RecoveredRow(jobs[k])
           \/ /\ jobs[k].state = "running"
              /\ \E write \in Write : /\ jobs'[k] = WrittenRow(jobs[k], write)
                                     /\ RightWrite(write, jobs[k].attempts, jobs[k].max)
<1>1. ASSUME NEW w \in Workers, RecoveredBy(w, k)
      PROVE  jobs[k].state = "running" /\ jobs'[k] = RecoveredRow(jobs[k])
  BY <1>1 DEF RecoveredBy, Expired
<1>2. ASSUME NEW w \in Workers, WrittenBy(w, k)
      PROVE  /\ jobs[k].state = "running"
             /\ \E write \in Write : /\ jobs'[k] = WrittenRow(jobs[k], write)
                                    /\ RightWrite(write, jobs[k].attempts, jobs[k].max)
  <2>1. /\ Owns(jobs, k, w) /\ Phase(w, k) = "writing"
        /\ jobs'[k] = WrittenRow(jobs[k], task[w][k].write)
    BY <1>2 DEF WrittenBy, RightWrites
  <2>2. task[w][k].write \in Write
    BY DEF TypeOK, Task
  <2>3. jobs[k].attempts = task[w][k].attempt
    BY <2>1 DEF FencedByAttempt
  <2>4. RightWrite(task[w][k].write, task[w][k].attempt, jobs[k].max)
    BY <2>1 DEF RightWrites
  <2> QED BY <2>1, <2>2, <2>3, <2>4 DEF Owns
<1> QED BY <1>1, <1>2, RowOrigin

\* While no given-up update reaches the database, every job that is pending can
\* still be claimed: a retry is recorded only for an attempt before the last.
THEOREM NoStrandedPendingHolds == ~LateWrites => (Spec => []NoStrandedPending)
<1> SUFFICES ASSUME ~LateWrites PROVE Spec => []NoStrandedPending
  OBVIOUS
<1>1. Init => NoStrandedPending
  BY DEF Init, NoStrandedPending, AbsentRow
<1>2. TypeOK /\ AttemptsCounted /\ FencedByAttempt /\ RightWrites /\ NoStrandedPending
      /\ [Next]_vars => NoStrandedPending'
  <2> SUFFICES ASSUME TypeOK, AttemptsCounted, FencedByAttempt, RightWrites, NoStrandedPending,
                      [Next]_vars, NEW k \in Keys, jobs'[k].state = "pending"
               PROVE  jobs'[k].attempts < jobs'[k].max
    BY DEF NoStrandedPending
  <2>1. WellFormed(jobs[k])
    BY DEF AttemptsCounted, Table
  <2>2. CASE jobs'[k] = jobs[k]
    BY <2>2 DEF NoStrandedPending
  <2>3. CASE Created(jobs[k], jobs'[k])
    BY <2>3, TableAssumption DEF Created
  <2>4. ASSUME NEW w \in Workers, ClaimedBy(w, k) PROVE FALSE
    BY <2>4 DEF ClaimedBy, Begins
  <2>5. CASE jobs'[k] = RecoveredRow(jobs[k])
    BY <2>1, <2>5, RecoveredWellFormed
  <2>6. ASSUME NEW write \in Write, jobs'[k] = WrittenRow(jobs[k], write),
               RightWrite(write, jobs[k].attempts, jobs[k].max)
        PROVE  jobs'[k].attempts < jobs'[k].max
    BY <2>1, <2>6, WrittenWellFormed DEF RightWrite
  <2> QED BY <2>2, <2>3, <2>4, <2>5, <2>6, RowChange
<1> QED BY <1>1, <1>2, TypeCorrect, FencedByAttemptHolds, RightWritesHold, PTL DEF Spec

\* One step of the table is a step of the life cycle for each job it changes.
LEMMA LifecycleStep ==
    TypeOK /\ AttemptsCounted /\ FencedByAttempt /\ RightWrites /\ [Next]_vars
        => [Lifecycle!Next]_LifecycleJob
<1> SUFFICES ASSUME TypeOK, AttemptsCounted, FencedByAttempt, RightWrites, [Next]_vars
             PROVE  Lifecycle!Next
  OBVIOUS
<1>1. ASSUME NEW k \in Keys
      PROVE  /\ WellFormed(jobs[k]) /\ WellFormed(jobs'[k])
             /\ LifecycleRow(jobs'[k]) \in Lifecycle!Job
  BY TableStep DEF AttemptsCounted, Table, WellFormed, Row, LifecycleRow, Lifecycle!Job
<1>2. ASSUME NEW k \in Keys
      PROVE  \/ LifecycleRow(jobs'[k]) = LifecycleRow(jobs[k])
             \/ Lifecycle!Advance(LifecycleRow(jobs[k]), LifecycleRow(jobs'[k]))
  <2> DEFINE old == LifecycleRow(jobs[k])
             new == LifecycleRow(jobs'[k])
  <2>1. CASE Created(jobs[k], jobs'[k])
    <3>1. Lifecycle!Submit(old, new)
      BY <2>1 DEF Created, LifecycleRow, Lifecycle!Submit
    <3> QED BY <3>1 DEF Lifecycle!Advance
  <2>2. ASSUME NEW w \in Workers, ClaimedBy(w, k)
        PROVE  Lifecycle!Advance(old, new)
    <3>1. Lifecycle!Begin(old, new)
      BY <2>2 DEF ClaimedBy, Expired, Begins, LifecycleRow, Lifecycle!Begin
    <3> QED BY <3>1 DEF Lifecycle!Advance
  <2>3. CASE jobs[k].state = "running" /\ jobs'[k] = RecoveredRow(jobs[k])
    <3>1. jobs[k].attempts \in Nat /\ jobs[k].max \in Nat /\ jobs[k].attempts <= jobs[k].max
      BY <1>1 DEF WellFormed, Row
    <3>2. CASE jobs[k].attempts < jobs[k].max
      <4>1. Lifecycle!Postpone(old, new)
        BY <1>1, <2>3, <3>2
           DEF RecoveredRow, WellFormed, Row, LifecycleRow, Lifecycle!Postpone, Lifecycle!Same
      <4> QED BY <4>1 DEF Lifecycle!Advance
    <3>3. CASE ~(jobs[k].attempts < jobs[k].max)
      <4>1. Lifecycle!Fail(old, new)
        BY <1>1, <2>3, <3>1, <3>3
           DEF RecoveredRow, WellFormed, Row, LifecycleRow, Lifecycle!Fail, Lifecycle!Same
      <4> QED BY <4>1 DEF Lifecycle!Advance
    <3> QED BY <3>2, <3>3
  <2>4. ASSUME NEW write \in Write, jobs[k].state = "running",
               jobs'[k] = WrittenRow(jobs[k], write),
               RightWrite(write, jobs[k].attempts, jobs[k].max)
        PROVE  Lifecycle!Advance(old, new)
    <3>1. jobs[k].attempts \in Nat /\ jobs[k].max \in Nat /\ jobs[k].attempts <= jobs[k].max
      BY <1>1 DEF WellFormed, Row
    <3>2. /\ jobs'[k].attempts = jobs[k].attempts /\ jobs'[k].max = jobs[k].max
          /\ write.op = "complete" => jobs'[k].state = "succeeded"
          /\ write.op = "retry" => jobs'[k].state = "pending"
          /\ write.op = "dead" => jobs'[k].state = "dead" /\ jobs'[k].cause = write.cause
      BY <1>1, <2>4 DEF WrittenRow, WellFormed, Row
    <3>3. CASE write.op = "complete"
      <4>1. Lifecycle!Succeed(old, new)
        BY <2>4, <3>2, <3>3 DEF LifecycleRow, Lifecycle!Succeed, Lifecycle!Same
      <4> QED BY <4>1 DEF Lifecycle!Advance
    <3>4. CASE write.op = "retry"
      <4>1. Lifecycle!Postpone(old, new)
        BY <2>4, <3>2, <3>4 DEF RightWrite, LifecycleRow, Lifecycle!Postpone, Lifecycle!Same
      <4> QED BY <4>1 DEF Lifecycle!Advance
    <3>5. CASE write.op = "dead"
      <4>1. \/ jobs[k].attempts = jobs[k].max
            \/ jobs'[k].cause \in {"permanent", "no_handler"}
        BY <2>4, <3>1, <3>2, <3>5 DEF RightWrite
      <4>2. old.attempts = old.max \/ new.verdict
        BY <4>1 DEF LifecycleRow
      <4>3. Lifecycle!Fail(old, new)
        BY <2>4, <3>2, <3>5, <4>2 DEF LifecycleRow, Lifecycle!Fail, Lifecycle!Same
      <4> QED BY <4>3 DEF Lifecycle!Advance
    <3> QED BY <3>3, <3>4, <3>5 DEF Write
  <2> QED BY <2>1, <2>2, <2>3, <2>4, RowChange
<1>3. /\ LifecycleJob' \in [Keys -> Lifecycle!Job]
      /\ \A k \in Keys : /\ LifecycleJob[k] = LifecycleRow(jobs[k])
                        /\ LifecycleJob'[k] = LifecycleRow(jobs'[k])
  BY <1>1 DEF LifecycleJob
<1> QED BY <1>2, <1>3 DEF Lifecycle!Next

\* While no given-up update reaches the database, the workers and the statements
\* they run implement the life cycle JobLifecycle promises for every job.
THEOREM ImplementsLifecycleHolds == ~LateWrites => (Spec => ImplementsLifecycle)
<1> SUFFICES ASSUME ~LateWrites PROVE Spec => ImplementsLifecycle
  OBVIOUS
<1>1. Init => Lifecycle!Init
  <2>1. LifecycleRow(AbsentRow) = [state |-> "absent", attempts |-> 0, max |-> 0,
                                   verdict |-> FALSE]
    <3>1. ("none" \in {"permanent", "no_handler"}) = FALSE
      OBVIOUS
    <3> QED BY <3>1, Zenon DEF AbsentRow, LifecycleRow
  <2>2. Init => LifecycleJob = [k \in Keys |-> LifecycleRow(AbsentRow)]
    BY DEF Init, LifecycleJob
  <2> QED BY <2>1, <2>2 DEF Lifecycle!Init
<1>2. TypeOK /\ AttemptsCounted /\ FencedByAttempt /\ RightWrites /\ [Next]_vars
        => [Lifecycle!Next]_LifecycleJob
  BY LifecycleStep
<1> QED BY <1>1, <1>2, TypeCorrect, FencedByAttemptHolds, RightWritesHold, PTL
        DEF Spec, ImplementsLifecycle, Lifecycle!Spec

-------------------------------------------------------------------------------
\* For any lease, however short, the margin is at least a tick and at least the
\* shutdown's grace.
LEMMA TimeoutsFit ==
    ASSUME NEW lease \in Nat \ {0}
    PROVE  /\ HandlerTimeout(lease) \in 0 .. lease - 1
           /\ ShutdownGrace(lease) <= lease - HandlerTimeout(lease)
<1>1. /\ lease \div 5 \in Nat /\ lease \div 10 \in Nat
      /\ lease \div 10 <= lease \div 5 /\ lease \div 5 <= lease
  OBVIOUS
<1>2. HandlerMargin(lease) \in 1 .. lease /\ lease \div 10 <= HandlerMargin(lease)
  BY <1>1 DEF HandlerMargin
<1>3. ShutdownGrace(lease) \in Nat /\ ShutdownGrace(lease) <= lease \div 10
  BY <1>1, PolicyAssumption DEF ShutdownGrace
<1> QED BY <1>1, <1>2, <1>3 DEF HandlerTimeout

\* runner.go keeps a handler inside its lease and a shutdown inside the margin,
\* whatever lease is configured.
THEOREM TimeoutInsideLeaseHolds == Spec => []TimeoutInsideLease
<1>1. TypeOK => TimeoutInsideLease
  <2>1. SUFFICES ASSUME TypeOK, NEW lease \in 1 .. clock
                 PROVE  /\ HandlerTimeout(lease) \in 0 .. lease - 1
                        /\ ShutdownGrace(lease) <= lease - HandlerTimeout(lease)
    BY DEF TimeoutInsideLease
  <2>2. lease \in Nat \ {0}
    BY <2>1 DEF TypeOK
  <2> QED BY <2>2, TimeoutsFit
<1> QED BY <1>1, TypeCorrect, PTL

-------------------------------------------------------------------------------
(* At most one live handler per job, when the margin of the lease covers     *)
(* the claim latency and the clock skew and no given-up update reaches the   *)
(* database.  Until real time reaches the horizon of a poll - the poll, plus *)
(* the claim latency, plus a handler's time - the rows its process works on  *)
(* are its own, leased at the time of that poll; nobody else may take them   *)
(* over before, since the lease is longer than the way to the horizon by the *)
(* clock skew.  And a handler is cancelled by the horizon.                   *)

Occupied(w, k) == Phase(w, k) \in {"claimed", "running", "grace"}

\* Real time of the poll whose batch w works on, and its horizon.
PollTime(w) == polledAt[w] - Skew[w]
Horizon(w) == PollTime(w) + MaxClaimLatency + HandlerTimeout(Lease)

Claiming(w) ==
    proc[w] \in {"claiming", "locked"} \/ \E k \in Keys : Phase(w, k) = "claimed"

LeaseInv ==
    /\ late = {}
    /\ \A w \in Workers :
         /\ proc[w] \in {"claiming", "locked", "handling"} => PollTime(w) \in 0 .. clock
         /\ Claiming(w) => clock <= PollTime(w) + MaxClaimLatency
    /\ \A w \in Workers, k \in Keys :
         /\ Phase(w, k) \in {"running", "grace"} => task[w][k].deadline <= Horizon(w)
         /\ Occupied(w, k) /\ clock < Horizon(w) =>
               Owns(jobs, k, w) /\ jobs[k].lockedAt = polledAt[w]

\* The quantities of the argument are integers.
LEMMA LeaseTypes ==
    ASSUME TypeOK
    PROVE  /\ clock \in Nat /\ Lease \in Nat /\ MaxSkew \in Nat /\ MaxClaimLatency \in Nat
           /\ HandlerTimeout(Lease) \in Nat
           /\ \A w \in Workers : /\ polledAt[w] \in Nat
                                 /\ Skew[w] \in 0 .. MaxSkew
                                 /\ PollTime(w) \in Int
                                 /\ Horizon(w) \in Int
BY PolicyTypes, RunnerAssumption DEF TypeOK, PollTime, Horizon

\* A lease that was taken at a poll of w cannot be taken over before the horizon
\* of that poll.
LEMMA NotExpired ==
    ASSUME TypeOK, LeaseInv, TimingMargin, NEW v \in Workers, NEW w \in Workers, NEW k \in Keys,
           proc[v] = "locked", jobs[k].lockedAt = polledAt[w], clock < Horizon(w)
    PROVE  k \notin Expired(jobs, polledAt[v] - Lease)
<1>1. polledAt[v] - Skew[v] <= clock
  BY LeaseTypes DEF LeaseInv, PollTime
<1>2. clock < polledAt[w] - Skew[w] + MaxClaimLatency + HandlerTimeout(Lease)
  BY DEF Horizon, PollTime
<1>3. MaxClaimLatency + MaxSkew <= Lease - HandlerTimeout(Lease)
  BY DEF TimingMargin
<1>4. polledAt[v] - Lease < polledAt[w]
  BY <1>1, <1>2, <1>3, LeaseTypes
<1> QED BY <1>4, LeaseTypes DEF Expired

\* Nobody handles anything at the start.
LEMMA LeaseInit == Init => LeaseInv
<1> SUFFICES ASSUME Init PROVE LeaseInv
  OBVIOUS
<1> QED BY DEF Init, LeaseInv, Claiming, Occupied, Phase, NoTask

\* Time passes only in a Tick, which spares the claims that must be in time.
LEMMA ClockStep ==
    ASSUME TypeOK, [Next]_vars
    PROVE  \/ clock' = clock
           \/ /\ clock' = clock + 1
              /\ \A w \in Workers : ClaimInTime(w)
              /\ UNCHANGED <<proc, polledAt, task>>
<1>1. ASSUME NEW w \in Workers, NEW k \in Keys,
             TaskStep(w, k) \/ HandlerReturns(w, k) \/ WriteFails(w, k)
      PROVE  clock' = clock
  BY <1>1 DEF TaskStep, HandlerReturns, WriteFails, NoHandler, StartHandler, DeadlineFires,
            ObserveShutdown, GraceExpires, WriteLifecycle, IssueWrite, SetTask
<1>2. ASSUME NEW w \in Workers,
             Poll(w) \/ LockRows(w) \/ ClaimCommits(w) \/ BatchDone(w) \/ Stop(w)
             \/ ClaimFails(w) \/ Signal(w) \/ Crash(w) \/ Restart(w)
      PROVE  clock' = clock
  BY <1>2 DEF Poll, LockRows, ClaimCommits, BatchDone, Stop, ClaimFails, Signal, Crash, Restart
<1>3. ASSUME (\E k \in Keys : Enqueue(k)) \/ (\E u \in late : LateWriteLands(u)) \/ UNCHANGED vars
      PROVE  clock' = clock
  BY <1>3 DEF Enqueue, LateWriteLands, vars
<1>4. CASE Tick
  BY <1>4 DEF Tick
<1> QED BY <1>1, <1>2, <1>3, <1>4 DEF Next, Work

\* A process that claims or handles after a step did so before, for the same poll,
\* or has just polled; it claims only if it claimed before.
LEMMA ProcOrigin ==
    ASSUME TypeOK, AttemptsCounted, [Next]_vars, NEW w \in Workers,
           proc'[w] \in {"claiming", "locked", "handling"}
    PROVE  \/ /\ proc[w] \in {"claiming", "locked", "handling"}
              /\ polledAt'[w] = polledAt[w]
              /\ proc'[w] \in {"claiming", "locked"} => proc[w] \in {"claiming", "locked"}
           \/ Poll(w)
<1> DEFINE Kept == /\ proc[w] \in {"claiming", "locked", "handling"}
                   /\ polledAt'[w] = polledAt[w]
                   /\ proc'[w] \in {"claiming", "locked"} => proc[w] \in {"claiming", "locked"}
<1>1. ASSUME proc'[w] = proc[w], polledAt'[w] = polledAt[w] PROVE Kept
  BY <1>1
<1>2. ASSUME NEW v \in Workers, NEW j \in Keys,
             TaskStep(v, j) \/ HandlerReturns(v, j) \/ WriteFails(v, j)
      PROVE  Kept
  BY <1>1, <1>2, TaskSteps DEF TaskEffect
<1>3. ASSUME NEW v \in Workers,
             Poll(v) \/ LockRows(v) \/ ClaimCommits(v) \/ BatchDone(v) \/ Stop(v)
             \/ ClaimFails(v) \/ Signal(v) \/ Crash(v) \/ Restart(v)
      PROVE  Kept \/ Poll(w)
  <2>1. CASE v # w
    BY <1>1, <1>3, <2>1 DEF Poll, LockRows, ClaimCommits, BatchDone, Stop, ClaimFails,
                            Signal, Crash, Restart, TypeOK
  <2>2. CASE v = w /\ (LockRows(w) \/ ClaimCommits(w) \/ Signal(w))
    BY <1>1, <2>2 DEF LockRows, ClaimCommits, Signal, TypeOK
  <2>3. CASE v = w /\ (BatchDone(w) \/ Stop(w) \/ ClaimFails(w) \/ Crash(w) \/ Restart(w))
    BY <2>3 DEF BatchDone, Stop, ClaimFails, Crash, Restart, TypeOK
  <2> QED BY <1>3, <2>1, <2>2, <2>3
<1>4. ASSUME (\E j \in Keys : Enqueue(j)) \/ (\E u \in late : LateWriteLands(u))
             \/ Tick \/ UNCHANGED vars
      PROVE  Kept
  BY <1>1, <1>4 DEF Enqueue, LateWriteLands, Tick, vars
<1> QED BY <1>2, <1>3, <1>4 DEF Next, Work

\* A row leaves the hands of its owner only by the owner's update, or when it is
\* taken over.
LEMMA OwnershipStep ==
    ASSUME TypeOK, AttemptsCounted, LeaseInv, TimingMargin, [Next]_vars,
           NEW w \in Workers, NEW k \in Keys,
           Occupied(w, k), proc[w] = "handling", task'[w][k].phase # "none",
           clock < Horizon(w)
    PROVE  jobs'[k] = jobs[k]
<1>1. Owns(jobs, k, w) /\ jobs[k].lockedAt = polledAt[w]
  BY DEF LeaseInv
<1>2. ~Created(jobs[k], jobs'[k])
  BY <1>1 DEF Created, Owns
<1>3. ASSUME NEW v \in Workers, ClaimedBy(v, k) \/ RecoveredBy(v, k) PROVE FALSE
  BY <1>1, <1>3, NotExpired DEF ClaimedBy, RecoveredBy, Owns
<1>4. ASSUME NEW v \in Workers, WrittenBy(v, k) PROVE FALSE
  <2>1. v = w
    BY <1>1, <1>4 DEF WrittenBy, Owns
  <2> QED BY <1>4, <2>1 DEF WrittenBy, LeaseInv, Occupied
<1> QED BY <1>2, <1>3, <1>4, RowOrigin

\* Every step preserves LeaseInv.
LEMMA LeaseStep ==
    TimingMargin /\ ~LateWrites /\ TypeOK /\ AttemptsCounted /\ LeaseInv /\ [Next]_vars
        => LeaseInv'
<1> SUFFICES ASSUME TimingMargin, ~LateWrites, TypeOK, AttemptsCounted, LeaseInv, [Next]_vars
             PROVE  LeaseInv'
  OBVIOUS
<1>1. late' = {}
  BY NoLate DEF LeaseInv
<1>2. clock' \in Nat /\ clock <= clock'
  BY ClockStep, LeaseTypes
<1>3. ASSUME NEW w \in Workers, proc'[w] \in {"claiming", "locked", "handling"}
      PROVE  PollTime(w)' \in 0 .. clock'
  <2>1. CASE proc[w] \in {"claiming", "locked", "handling"} /\ polledAt'[w] = polledAt[w]
    BY <1>2, <2>1, LeaseTypes DEF LeaseInv, PollTime
  <2>2. CASE Poll(w)
    <3>1. polledAt'[w] = clock + Skew[w] /\ clock' = clock
      BY <2>2 DEF Poll, TypeOK
    <3> QED BY <3>1, LeaseTypes DEF PollTime
  <2> QED BY <1>3, <2>1, <2>2, ProcOrigin
<1>4. ASSUME NEW w \in Workers, Claiming(w)'
      PROVE  clock' <= PollTime(w)' + MaxClaimLatency
  <2>1. ASSUME Claiming(w), polledAt'[w] = polledAt[w]
        PROVE  clock' <= PollTime(w)' + MaxClaimLatency
    <3>1. clock <= PollTime(w) + MaxClaimLatency /\ PollTime(w)' = PollTime(w)
      BY <2>1 DEF LeaseInv, PollTime
    <3>2. CASE clock' = clock
      BY <3>1, <3>2
    <3>3. CASE clock' = clock + 1 /\ ClaimInTime(w)
      <4>1. clock + Skew[w] < polledAt[w] + MaxClaimLatency
        BY <2>1, <3>3 DEF Claiming, ClaimInTime
      <4> QED BY <3>1, <3>3, <4>1, LeaseTypes DEF PollTime
    <3> QED BY <3>2, <3>3, ClockStep
  <2>2. CASE proc'[w] \in {"claiming", "locked"}
    <3>1. CASE proc[w] \in {"claiming", "locked"} /\ polledAt'[w] = polledAt[w]
      BY <2>1, <3>1 DEF Claiming
    <3>2. CASE Poll(w)
      <4>1. polledAt'[w] = clock + Skew[w] /\ clock' = clock
        BY <3>2 DEF Poll, TypeOK
      <4> QED BY <4>1, LeaseTypes DEF PollTime
    <3> QED BY <2>2, <3>1, <3>2, ProcOrigin
  <2>3. ASSUME NEW k \in Keys, task'[w][k].phase = "claimed"
        PROVE  clock' <= PollTime(w)' + MaxClaimLatency
    <3>1. CASE GoesOn(w, k, task'[w][k]) /\ polledAt'[w] = polledAt[w]
      BY <2>1, <2>3, <3>1 DEF GoesOn, Claiming
    <3>2. CASE ClaimCommits(w)
      BY <2>1, <3>2 DEF ClaimCommits, Claiming
    <3> QED BY <2>3, <3>1, <3>2, TaskOrigin
  <2> QED BY <1>4, <2>2, <2>3 DEF Claiming, Phase
<1>5. ASSUME NEW w \in Workers, NEW k \in Keys, task'[w][k].phase \in {"running", "grace"}
      PROVE  task'[w][k].deadline <= Horizon(w)'
  <2>1. ~(ClaimCommits(w) /\ k \in BatchFor(w) /\ task'[w][k] = NewTask(w, k))
    BY <1>5 DEF NewTask, NoTask
  <2>2. GoesOn(w, k, task'[w][k]) /\ polledAt'[w] = polledAt[w]
    BY <1>5, <2>1, TaskOrigin
  <2>3. Horizon(w)' = Horizon(w)
    BY <2>2 DEF Horizon, PollTime
  <2>4. CASE Phase(w, k) \in {"running", "grace"} /\ task'[w][k].deadline = task[w][k].deadline
    BY <2>3, <2>4 DEF LeaseInv
  <2>5. CASE Phase(w, k) = "claimed" /\ task'[w][k].deadline = clock + HandlerTimeout(Lease)
    <3>1. clock <= PollTime(w) + MaxClaimLatency
      BY <2>5 DEF LeaseInv, Claiming
    <3> QED BY <2>3, <2>5, <3>1, LeaseTypes DEF Horizon
  <2> QED BY <1>5, <2>2, <2>4, <2>5 DEF GoesOn
<1>6. ASSUME NEW w \in Workers, NEW k \in Keys,
             task'[w][k].phase \in {"claimed", "running", "grace"}, clock' < Horizon(w)'
      PROVE  Owns(jobs', k, w) /\ jobs'[k].lockedAt = polledAt'[w]
  <2>1. CASE GoesOn(w, k, task'[w][k]) /\ polledAt'[w] = polledAt[w]
    <3>1. Occupied(w, k) /\ proc[w] = "handling"
      BY <1>6, <2>1 DEF GoesOn, Occupied, AttemptsCounted
    <3>2. clock < Horizon(w)
      BY <1>2, <1>6, <2>1, LeaseTypes DEF Horizon, PollTime
    <3>3. jobs'[k] = jobs[k]
      BY <1>6, <3>1, <3>2, OwnershipStep
    <3> QED BY <2>1, <3>1, <3>2, <3>3 DEF LeaseInv, Owns
  <2>2. CASE ClaimCommits(w) /\ k \in BatchFor(w)
    <3>1. jobs' = Committed(w) /\ polledAt' = polledAt
      BY <2>2 DEF ClaimCommits
    <3> QED BY <2>2, <3>1, CommitRows DEF ClaimEffect, Begins, Owns
  <2> QED BY <1>6, <2>1, <2>2, TaskOrigin
<1> QED BY <1>1, <1>3, <1>4, <1>5, <1>6 DEF LeaseInv, Occupied, Phase

\* While the margin of the lease covers claim latency and clock skew, no two
\* workers ever run handlers of the same job at the same time.
THEOREM OneLiveHandlerHolds ==
    TimingMargin /\ ~LateWrites => (Spec => []OneLiveHandler)
<1> SUFFICES ASSUME TimingMargin /\ ~LateWrites PROVE Spec => []OneLiveHandler
  OBVIOUS
<1>1. Init => LeaseInv
  BY LeaseInit
<1>2. TypeOK /\ AttemptsCounted /\ LeaseInv /\ [Next]_vars => LeaseInv'
  BY LeaseStep
<1>3. TypeOK /\ LeaseInv => OneLiveHandler
  <2> SUFFICES ASSUME TypeOK, LeaseInv, NEW v \in Workers, NEW w \in Workers, NEW k \in Keys,
                      Live(v, k), Live(w, k)
               PROVE  v = w
    BY DEF OneLiveHandler
  <2>1. ASSUME NEW x \in Workers, Live(x, k) PROVE Owns(jobs, k, x)
    <3>1. task[x][k].deadline \in Nat
      BY DEF TypeOK, Task
    <3>2. Occupied(x, k) /\ clock < Horizon(x)
      BY <2>1, <3>1, LeaseTypes DEF Live, LeaseInv, Occupied
    <3> QED BY <3>2 DEF LeaseInv
  <2> QED BY <2>1 DEF Owns
<1> QED BY <1>1, <1>2, <1>3, TypeCorrect, PTL DEF Spec

-------------------------------------------------------------------------------
(* The delays between attempts: induction over the turns of a loop *)

\* A power of two counts the subsets of an interval; one element more gives as
\* many again.
LEMMA TwoToThe ==
    /\ 2 ^ 0 = 1
    /\ \A k \in Nat : 2 ^ k \in Nat /\ 2 ^ (k + 1) = 2 * 2 ^ k
<1>1. 2 ^ 0 = 1
  <2>1. SUBSET {} = {{}}
    OBVIOUS
  <2>2. Cardinality(SUBSET {}) = 2 ^ Cardinality({})
    BY FS_SUBSET, FS_EmptySet
  <2> QED BY <2>1, <2>2, FS_EmptySet, FS_Singleton
<1>2. ASSUME NEW k \in Nat
      PROVE  2 ^ k \in Nat /\ 2 ^ (k + 1) = 2 * 2 ^ k
  <2> DEFINE Old == SUBSET (1 .. k)
             Fresh == {s \cup {k + 1} : s \in Old}
  <2>1. ASSUME NEW n \in Nat
        PROVE IsFiniteSet(SUBSET (1 .. n)) /\ Cardinality(SUBSET (1 .. n)) = 2 ^ n /\ 2 ^ n \in Nat
    <3>1. IsFiniteSet(1 .. n) /\ Cardinality(1 .. n) = n
      BY FS_Interval
    <3>2. IsFiniteSet(SUBSET (1 .. n)) /\ Cardinality(SUBSET (1 .. n)) = 2 ^ Cardinality(1 .. n)
      BY <3>1, FS_SUBSET
    <3> QED BY <3>1, <3>2, FS_CardinalityType
  <2>2. SUBSET (1 .. k + 1) = Old \cup Fresh
    <3>1. ASSUME NEW s \in SUBSET (1 .. k + 1) PROVE s \in Old \cup Fresh
      <4>1. CASE k + 1 \in s
        <5>1. s \ {k + 1} \in Old /\ s = (s \ {k + 1}) \cup {k + 1}
          BY <4>1
        <5> QED BY <5>1
      <4>2. CASE k + 1 \notin s
        BY <4>2
      <4> QED BY <4>1, <4>2
    <3>2. ASSUME NEW s \in Old PROVE s \in SUBSET (1 .. k + 1) /\ s \cup {k + 1} \in SUBSET (1 .. k + 1)
      <4>1. \A i \in 1 .. k : i \in 1 .. k + 1
        OBVIOUS
      <4> QED BY <4>1
    <3>3. \A s \in Old \cup Fresh : s \in SUBSET (1 .. k + 1)
      BY <3>2
    <3> QED BY <3>1, <3>3
  <2>3. Old \cap Fresh = {}
    OBVIOUS
  <2>4. IsFiniteSet(Fresh) /\ Cardinality(Fresh) = Cardinality(Old)
    <3> DEFINE f == [s \in Old |-> s \cup {k + 1}]
    <3>1. f \in Bijection(Old, Fresh)
      <4>1. f \in [Old -> Fresh] /\ \A t \in Fresh : \E s \in Old : f[s] = t
        OBVIOUS
      <4>2. ASSUME NEW s \in Old, NEW t \in Old, f[s] = f[t] PROVE s = t
        <5>1. s \cup {k + 1} = t \cup {k + 1}
          BY <4>2
        <5>2. k + 1 \notin s /\ k + 1 \notin t
          OBVIOUS
        <5> QED BY <5>1, <5>2
      <4> QED BY <4>1, <4>2 DEF Bijection, Injection, Surjection, IsInjective
    <3> HIDE DEF f
    <3>2. IsFiniteSet(Old)
      BY <2>1
    <3>3. ExistsBijection(Old, Fresh)
      BY <3>1 DEF ExistsBijection
    <3> HIDE DEF Old, Fresh
    <3> QED BY <3>2, <3>3, FS_Bijection, FS_SameCardinalityBij
  <2> HIDE DEF Old, Fresh
  <2>5. IsFiniteSet(Old) /\ Cardinality(Old) = 2 ^ k /\ 2 ^ k \in Nat
    BY <2>1 DEF Old
  <2>6. Cardinality(Old \cup Fresh) = Cardinality(Old) + Cardinality(Fresh) - Cardinality(Old \cap Fresh)
    BY <2>4, <2>5, FS_Union
  <2>7. Cardinality(Old \cup Fresh) = 2 ^ (k + 1)
    <3>1. k + 1 \in Nat
      OBVIOUS
    <3> QED BY <3>1, <2>1, <2>2
  <2> QED BY <2>3, <2>4, <2>5, <2>6, <2>7, FS_EmptySet
<1> QED BY <1>1, <1>2

\* A turn of the loop takes the capped shift to the next.
LEMMA CappedDoubles ==
    /\ CappedShift(1) = BaseRetryDelay
    /\ \A n \in Nat \ {0} : CappedShift(n + 1) = Doubled(CappedShift(n)) /\ CappedShift(n) \in Nat
<1>1. CappedShift(1) = BaseRetryDelay
  BY TwoToThe, PolicyAssumption DEF CappedShift
<1>2. ASSUME NEW n \in Nat \ {0}
      PROVE CappedShift(n + 1) = Doubled(CappedShift(n)) /\ CappedShift(n) \in Nat
  <2> DEFINE p == 2 ^ (n - 1)
             q == BaseRetryDelay * p
  <2>1. p \in Nat /\ 2 ^ (n + 1 - 1) = 2 * p
    <3>1. n - 1 \in Nat /\ (n - 1) + 1 = n + 1 - 1
      OBVIOUS
    <3> QED BY <3>1, TwoToThe
  <2>2. q \in Nat /\ BaseRetryDelay * 2 ^ (n + 1 - 1) = 2 * q
    <3> HIDE DEF p
    <3> QED BY <2>1, PolicyAssumption
  <2>3. /\ CappedShift(n) = IF q < MaxRetryDelay THEN q ELSE MaxRetryDelay
        /\ CappedShift(n + 1) = IF 2 * q < MaxRetryDelay THEN 2 * q ELSE MaxRetryDelay
    BY <2>2 DEF CappedShift
  <2> HIDE DEF q
  <2> QED BY <2>2, <2>3, PolicyAssumption DEF Doubled
<1> QED BY <1>1, <1>2

\* There is a function that RetryDelay defines: the capped shift is one.
LEMMA RetryDelayUnfolds ==
    RetryDelay = [n \in Nat |-> IF n <= 1 THEN BaseRetryDelay ELSE Doubled(RetryDelay[n - 1])]
<1> DEFINE Def(g) == [n \in Nat |-> IF n <= 1 THEN BaseRetryDelay ELSE Doubled(g[n - 1])]
           h == [n \in Nat |-> IF n <= 1 THEN BaseRetryDelay ELSE CappedShift(n)]
<1>1. h = Def(h)
  <2>1. ASSUME NEW n \in Nat, n > 1
        PROVE  CappedShift(n) = Doubled(h[n - 1])
    <3>1. n - 1 \in Nat \ {0} /\ (n - 1) + 1 = n
      BY <2>1
    <3>2. h[n - 1] = CappedShift(n - 1)
      BY <3>1, CappedDoubles
    <3> QED BY <3>1, <3>2, CappedDoubles
  <2> QED BY <2>1
<1>2. RetryDelay = CHOOSE g : g = Def(g)
  BY DEF RetryDelay
<1> HIDE DEF h
<1> QED BY <1>1, <1>2

\* By induction over the attempts, there is no other.
LEMMA RetryDelayClosed == \A n \in Nat \ {0} : RetryDelay[n] = CappedShift(n)
<1> DEFINE S == {k \in Nat : RetryDelay[k + 1] = CappedShift(k + 1)}
<1>1. 0 \in S
  BY RetryDelayUnfolds, CappedDoubles
<1>2. ASSUME NEW k \in S PROVE k + 1 \in S
  <2>1. RetryDelay[k + 1 + 1] = Doubled(RetryDelay[k + 1])
    BY RetryDelayUnfolds
  <2>2. k + 1 \in Nat \ {0} /\ RetryDelay[k + 1] = CappedShift(k + 1)
    OBVIOUS
  <2> QED BY <2>1, <2>2, CappedDoubles
<1>3. S = Nat
  <2> HIDE DEF S
  <2>1. S \in SUBSET Nat
    BY DEF S
  <2> QED BY <1>1, <1>2, <2>1, NatSetInduction
<1> SUFFICES ASSUME NEW n \in Nat \ {0} PROVE RetryDelay[n] = CappedShift(n)
  OBVIOUS
<1>4. n - 1 \in Nat /\ (n - 1) + 1 = n
  OBVIOUS
<1>5. n - 1 \in S
  BY <1>3, <1>4
<1> QED BY <1>4, <1>5

\* For every attempt, however late, and every base and cap: the doubling loop of
\* retryDelay (runner.go) gives base << (attempts - 1), capped.
THEOREM RetryDelayIsCappedShiftHolds == Spec => []RetryDelayIsCappedShift
<1>1. RetryDelayIsCappedShift
  <2> SUFFICES ASSUME NEW n \in 1 .. clock + 1 PROVE RetryDelay[n] = CappedShift(n)
    BY DEF RetryDelayIsCappedShift
  <2> QED BY RetryDelayClosed
<1> QED BY <1>1, PTL
===============================================================================
