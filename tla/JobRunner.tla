------------------------------ MODULE JobRunner ------------------------------
(***************************************************************************)
(* Worker processes that share the platform_jobs table                     *)
(* (internal/platform/jobs/runner.go on top of postgres.go, as             *)
(* internal/bootstrap/worker.go and cmd/worker run them).                  *)
(*                                                                         *)
(* A process polls: it reads its clock, claims a batch in one transaction, *)
(* handles every job of the batch in a goroutine of its own, waits for all *)
(* of them and polls again.  A task is one such goroutine together with    *)
(* the handler it started.  Between any two steps a process may be         *)
(* signalled, crash, or be restarted under the same worker ID, a           *)
(* transaction or an update may fail, and time passes.                     *)
(*                                                                         *)
(* clock is real time.  A worker reads clock + Skew[w]; durations - the    *)
(* handler's timeout, the shutdown grace - run on real time.               *)
(***************************************************************************)
EXTENDS JobTable, JobPolicy

CONSTANTS
    Registered,       \* the keys whose kind has a handler
    Lease,            \* WORKER_JOB_LEASE_DURATION
    Limit,            \* WORKER_BATCH_SIZE of each worker
    Backoff,          \* retryDelay, on the attempts a job can have
    Skew,             \* how far each worker's clock is ahead
    MaxSkew,          \* bound on the difference of two workers' clocks
    MaxClaimLatency,  \* bound on the time from reading the clock to starting a handler
    LateWrites,       \* may an update that timed out still take effect?
    Urgent,           \* is a step that is due taken before time passes?
    AttemptLimits,    \* the max_attempts callers ask for
    RunTimes,         \* the run_at of enqueued jobs
    LastEnqueue,      \* bound: no job is enqueued after it
    MaxDisruptions,   \* bound: crashes, failed claims and signals
    MaxTime           \* bound: the last clock value

ASSUME RunnerAssumption ==
    /\ Registered \subseteq Keys
    /\ Lease \in Nat \ {0}
    /\ Limit \in [Workers -> 1 .. 100]
    /\ Backoff \in [1 .. MaxMaxAttempts -> Nat]
    /\ Skew \in [Workers -> 0 .. MaxSkew]
    /\ MaxSkew \in Nat
    /\ MaxClaimLatency \in Nat
    /\ LateWrites \in BOOLEAN
    /\ Urgent \in BOOLEAN
    /\ AttemptLimits \subseteq Int
    /\ RunTimes \subseteq Nat

VARIABLES
    jobs,      \* the table
    clock,     \* real time
    proc,      \* what each worker process is doing
    ctxDone,   \* has its context been cancelled by a signal?
    polledAt,  \* the clock reading RunOnce was called with (now), 0 outside it
    held,      \* the rows its open claim transaction has locked
    task,      \* task[w][k]: the goroutine of w that handles k
    late,      \* updates given up by their worker that the database may still run
    disruptions  \* crashes, failed claims and signals so far

vars == <<jobs, clock, proc, ctxDone, polledAt, held, task, late, disruptions>>

NoWrite == [op |-> "dead", runAt |-> 0, cause |-> "none"]

Task == [phase    : {"none", "claimed", "running", "grace", "writing"},
         attempt  : Nat,     \* job.Attempts, as Claim returned it
         deadline : Nat,     \* of handlerCtx
         graceEnd : Nat,     \* when the shutdown timer fires
         write    : Write]   \* the lifecycle update it is waiting for

NoTask == [phase |-> "none", attempt |-> 0, deadline |-> 0, graceEnd |-> 0,
           write |-> NoWrite]

LateWrite == [worker : Workers, key : Keys, attempt : Nat, write : Write]

\* The type of the state; the lock columns of a row are set while it is running
\* and no longer.
TypeOK ==
    /\ jobs \in [Keys -> Row]
    /\ clock \in Nat
    /\ proc \in [Workers -> {"polling", "claiming", "locked", "handling", "down"}]
    /\ ctxDone \in [Workers -> BOOLEAN]
    /\ polledAt \in [Workers -> Nat]
    /\ held \in [Workers -> SUBSET Keys]
    /\ task \in [Workers -> [Keys -> Task]]
    /\ late \subseteq LateWrite
    /\ disruptions \in Nat
    /\ \A k \in Keys : jobs[k].owner \in Workers <=> jobs[k].state = "running"

Init ==
    /\ jobs = [k \in Keys |-> AbsentRow]
    /\ clock = 0
    /\ proc = [w \in Workers |-> "polling"]
    /\ ctxDone = [w \in Workers |-> FALSE]
    /\ polledAt = [w \in Workers |-> 0]
    /\ held = [w \in Workers |-> {}]
    /\ task = [w \in Workers |-> [k \in Keys |-> NoTask]]
    /\ late = {}
    /\ disruptions = 0

Phase(w, k) == task[w][k].phase
Idle(w) == \A k \in Keys : Phase(w, k) = "none"
FreeFor(w) == {k \in Keys : \A v \in Workers \ {w} : k \notin held[v]}

-------------------------------------------------------------------------------
(* The producer *)

Enqueue(k) ==
    /\ clock <= LastEnqueue
    /\ \E runAt \in RunTimes, max \in AttemptLimits :
           /\ ValidNewJob(max)
           /\ jobs' = Inserted(jobs, k, runAt, max)
    /\ UNCHANGED <<clock, proc, ctxDone, polledAt, held, task, late, disruptions>>

-------------------------------------------------------------------------------
(* Run, RunOnce and the claim transaction *)

\* Is there a row for w to recover or to claim?
WorkFor(w) == LockedBy(jobs, FreeFor(w), clock + Skew[w], Lease, Limit[w]) # {}

\* now := time.Now().  When Urgent, the polls that find nothing are left out:
\* they change nothing.
Poll(w) ==
    /\ proc[w] = "polling" /\ ~ctxDone[w]
    /\ Urgent => WorkFor(w)
    /\ proc' = [proc EXCEPT ![w] = "claiming"]
    /\ polledAt' = [polledAt EXCEPT ![w] = clock + Skew[w]]
    /\ UNCHANGED <<jobs, clock, ctxDone, held, task, late, disruptions>>

LockRows(w) ==
    /\ proc[w] = "claiming"
    /\ proc' = [proc EXCEPT ![w] = "locked"]
    /\ held' = [held EXCEPT ![w] =
                   LockedBy(jobs, FreeFor(w), polledAt[w], Lease, Limit[w])]
    /\ UNCHANGED <<jobs, clock, ctxDone, polledAt, task, late, disruptions>>

Committed(w) == Claimed(jobs, held[w], w, polledAt[w], Lease, Limit[w])
BatchFor(w) == BatchOf(jobs, held[w], polledAt[w], Lease, Limit[w])

\* (Fault: the attempt is read before the claim counts it.)
NewTask_Bug(w, k) == [NoTask EXCEPT !.phase = "claimed", !.attempt = jobs[k].attempts]

NewTask(w, k) ==
    [NoTask EXCEPT !.phase = "claimed", !.attempt = Committed(w)[k].attempts]

ClaimCommits(w) ==
    /\ proc[w] = "locked"
    /\ jobs' = Committed(w)
    /\ task' = [task EXCEPT ![w] =
                   [k \in Keys |-> IF k \in BatchFor(w) THEN NewTask(w, k) ELSE NoTask]]
    /\ proc' = [proc EXCEPT ![w] = "handling"]
    /\ held' = [held EXCEPT ![w] = {}]
    /\ UNCHANGED <<clock, ctxDone, polledAt, late, disruptions>>

\* Claim returns an error, because the context was cancelled or by itself: the
\* transaction was rolled back, or it was committed and the answer got lost.
\* Run returns, and with it the process.
ClaimFails(w) ==
    /\ proc[w] \in {"claiming", "locked"}
    /\ \/ ctxDone[w] /\ UNCHANGED disruptions
       \/ disruptions < MaxDisruptions /\ disruptions' = disruptions + 1
    /\ \/ UNCHANGED jobs
       \/ proc[w] = "locked" /\ jobs' = Committed(w)
    /\ proc' = [proc EXCEPT ![w] = "down"]
    /\ polledAt' = [polledAt EXCEPT ![w] = 0]
    /\ held' = [held EXCEPT ![w] = {}]
    /\ UNCHANGED <<clock, ctxDone, task, late>>

\* workers.Wait() returns.
BatchDone(w) ==
    /\ proc[w] = "handling" /\ Idle(w)
    /\ proc' = [proc EXCEPT ![w] = "polling"]
    /\ polledAt' = [polledAt EXCEPT ![w] = 0]
    /\ UNCHANGED <<jobs, clock, ctxDone, held, task, late, disruptions>>

\* (Fault: Run does not look at its context.)
Stop_Bug(w) == proc[w] = "polling" /\ ctxDone[w] /\ UNCHANGED vars

\* Run sees that its context is done.
Stop(w) ==
    /\ proc[w] = "polling" /\ ctxDone[w]
    /\ proc' = [proc EXCEPT ![w] = "down"]
    /\ UNCHANGED <<jobs, clock, ctxDone, polledAt, held, task, late, disruptions>>

-------------------------------------------------------------------------------
(* handle, waitForShutdownGrace, finish and interrupt *)

\* (Fault: one attempt too many.)
Exhausted_Bug(w, k) == task[w][k].attempt > jobs[k].max

Exhausted(w, k) == task[w][k].attempt >= jobs[k].max

SetTask(w, k, t) ==
    /\ task' = [task EXCEPT ![w] = [@ EXCEPT ![k] = t]]
    /\ UNCHANGED <<jobs, clock, proc, ctxDone, polledAt, held, late, disruptions>>

\* The task has chosen its lifecycle update and waits for it.
IssueWrite(w, k, write) ==
    SetTask(w, k, [NoTask EXCEPT !.phase   = "writing",
                                 !.attempt = task[w][k].attempt,
                                 !.write   = write])

CompleteWrite == [op |-> "complete", runAt |-> 0, cause |-> "none"]
DeadWrite(cause) == [op |-> "dead", runAt |-> 0, cause |-> cause]

\* The next attempt is due a back-off after the poll that claimed this one.
RetryWrite(w, k, cause) ==
    [op |-> "retry", runAt |-> polledAt[w] + Backoff[task[w][k].attempt],
     cause |-> cause]

FinishWrite(w, k, outcome) ==
    CASE outcome = "ok" -> CompleteWrite
      [] outcome = "permanent" -> DeadWrite("permanent")
      [] outcome = "failed" /\ Exhausted(w, k) -> DeadWrite("failed")
      [] OTHER -> RetryWrite(w, k, "failed")

InterruptWrite(w, k) ==
    IF Exhausted(w, k) THEN DeadWrite("interrupted")
    ELSE RetryWrite(w, k, "interrupted")

NoHandler(w, k) ==
    /\ Phase(w, k) = "claimed" /\ k \notin Registered
    /\ IssueWrite(w, k, DeadWrite("no_handler"))

StartHandler(w, k) ==
    /\ Phase(w, k) = "claimed" /\ k \in Registered
    /\ SetTask(w, k, [task[w][k] EXCEPT !.phase = "running",
                                        !.deadline = clock + HandlerTimeout(Lease)])

\* The handler's result is received, in handle or in waitForShutdownGrace.
HandlerReturns(w, k) ==
    /\ Phase(w, k) \in {"running", "grace"}
    /\ \E outcome \in {"ok", "failed", "permanent"} :
           IssueWrite(w, k, FinishWrite(w, k, outcome))

DeadlineFires(w, k) ==
    /\ Phase(w, k) \in {"running", "grace"}
    /\ clock >= task[w][k].deadline
    /\ IssueWrite(w, k, InterruptWrite(w, k))

ObserveShutdown(w, k) ==
    /\ Phase(w, k) = "running" /\ ctxDone[w]
    /\ SetTask(w, k, [task[w][k] EXCEPT !.phase = "grace",
                                        !.graceEnd = clock + ShutdownGrace(Lease)])

\* The shutdown timer fires and the handler's context is cancelled.
GraceExpires(w, k) ==
    /\ Phase(w, k) = "grace"
    /\ clock >= task[w][k].graceEnd
    /\ IssueWrite(w, k, InterruptWrite(w, k))

-------------------------------------------------------------------------------
(* updateLifecycle: an update waits for the row lock of an open claim; one    *)
(* that fails is logged, and the goroutine ends all the same.                 *)

Unlocked(k) == \A w \in Workers : k \notin held[w]

WriteLifecycle(w, k) ==
    /\ Phase(w, k) = "writing" /\ Unlocked(k)
    /\ jobs' = Written(jobs, k, w, task[w][k].write)
    /\ task' = [task EXCEPT ![w] = [@ EXCEPT ![k] = NoTask]]
    /\ UNCHANGED <<clock, proc, ctxDone, polledAt, held, late, disruptions>>

LateOf(w, k) == [worker |-> w, key |-> k, attempt |-> task[w][k].attempt,
                 write |-> task[w][k].write]

\* The worker gives some updates up; the database may still run them.
GiveUp(w, keys) ==
    \/ UNCHANGED late
    \/ LateWrites /\ late' = late \cup {LateOf(w, k) : k \in keys}

\* The update fails or outlives lifecycleWriteTimeout.
WriteFails(w, k) ==
    /\ Phase(w, k) = "writing"
    /\ task' = [task EXCEPT ![w] = [@ EXCEPT ![k] = NoTask]]
    /\ GiveUp(w, {k})
    /\ UNCHANGED <<jobs, clock, proc, ctxDone, polledAt, held, disruptions>>

LateWriteLands(u) ==
    /\ Unlocked(u.key)
    /\ jobs' = Written(jobs, u.key, u.worker, u.write)
    /\ late' = late \ {u}
    /\ UNCHANGED <<clock, proc, ctxDone, polledAt, held, task, disruptions>>

-------------------------------------------------------------------------------
(* The environment *)

Signal(w) ==
    /\ proc[w] # "down" /\ ~ctxDone[w]
    /\ disruptions < MaxDisruptions
    /\ ctxDone' = [ctxDone EXCEPT ![w] = TRUE]
    /\ disruptions' = disruptions + 1
    /\ UNCHANGED <<jobs, clock, proc, polledAt, held, task, late>>

Crash(w) ==
    /\ proc[w] # "down"
    /\ disruptions < MaxDisruptions
    /\ proc' = [proc EXCEPT ![w] = "down"]
    /\ polledAt' = [polledAt EXCEPT ![w] = 0]
    /\ held' = [held EXCEPT ![w] = {}]
    /\ task' = [task EXCEPT ![w] = [k \in Keys |-> NoTask]]
    /\ GiveUp(w, {k \in Keys : Phase(w, k) = "writing"})
    /\ disruptions' = disruptions + 1
    /\ UNCHANGED <<jobs, clock, ctxDone>>

Restart(w) ==
    /\ proc[w] = "down"
    /\ proc' = [proc EXCEPT ![w] = "polling"]
    /\ ctxDone' = [ctxDone EXCEPT ![w] = FALSE]
    /\ UNCHANGED <<jobs, clock, polledAt, held, task, late, disruptions>>

\* The claim and the start of its handlers take less than MaxClaimLatency more.
ClaimInTime(w) ==
    proc[w] \in {"claiming", "locked"} \/ (\E k \in Keys : Phase(w, k) = "claimed")
        => clock + Skew[w] < polledAt[w] + MaxClaimLatency

TaskDue(w, k) ==
    \/ Phase(w, k) \in {"claimed", "writing"}
    \/ Phase(w, k) \in {"running", "grace"} /\ clock >= task[w][k].deadline
    \/ Phase(w, k) = "running" /\ ctxDone[w]
    \/ Phase(w, k) = "grace" /\ clock >= task[w][k].graceEnd

Due(w) ==
    \/ proc[w] \in {"claiming", "locked"}
    \/ proc[w] = "polling" /\ (ctxDone[w] \/ WorkFor(w))
    \/ proc[w] = "handling" /\ (Idle(w) \/ \E k \in Keys : TaskDue(w, k))

Tick ==
    /\ clock < MaxTime
    /\ \A w \in Workers : ClaimInTime(w) /\ (Urgent => ~Due(w))
    /\ clock' = clock + 1
    /\ UNCHANGED <<jobs, proc, ctxDone, polledAt, held, task, late, disruptions>>

-------------------------------------------------------------------------------

TaskStep(w, k) ==
    \/ NoHandler(w, k) \/ StartHandler(w, k)
    \/ DeadlineFires(w, k) \/ ObserveShutdown(w, k) \/ GraceExpires(w, k)
    \/ WriteLifecycle(w, k)

\* What a process does by itself; the outcome of a handler and every failure
\* come from outside.
Work(w) ==
    \/ Poll(w) \/ LockRows(w) \/ ClaimCommits(w) \/ BatchDone(w) \/ Stop(w)
    \/ \E k \in Keys : TaskStep(w, k)

Next ==
    \/ \E k \in Keys : Enqueue(k)
    \/ \E w \in Workers :
           \/ Work(w)
           \/ ClaimFails(w) \/ Signal(w) \/ Crash(w) \/ Restart(w)
           \/ \E k \in Keys : HandlerReturns(w, k) \/ WriteFails(w, k)
    \/ \E u \in late : LateWriteLands(u)
    \/ Tick

Spec == Init /\ [][Next]_vars

FairSpec ==
    /\ Spec
    /\ \A w \in Workers : WF_vars(Work(w))
    /\ SF_vars(Tick)

-------------------------------------------------------------------------------
(* Properties *)

\* A handler that stops when its context is done, as Handler requires, runs.
Live(w, k) == Phase(w, k) \in {"running", "grace"} /\ clock < task[w][k].deadline

\* What the margin of the lease has to cover.
TimingMargin == MaxClaimLatency + MaxSkew <= Lease - HandlerTimeout(Lease)

\* At no moment do two workers run handlers of the same job: a lease is taken
\* over (recoverExpired) only when the handler of its holder has been cancelled
\* (handlerTimeout).  Under TimingMargin.
OneLiveHandler ==
    \A v, w \in Workers, k \in Keys : Live(v, k) /\ Live(w, k) => v = w

\* Under a lease that began at zero and ends by now, however short, a handler is
\* cancelled before it ends, and a shutdown never outlasts the margin that is left.
TimeoutInsideLease ==
    \A lease \in 1 .. clock :
        /\ HandlerTimeout(lease) \in 0 .. lease - 1
        /\ ShutdownGrace(lease) <= lease - HandlerTimeout(lease)

\* No two goroutines, of whatever workers, work on the same attempt of a job:
\* every execution is counted by the claim that led to it, also when a crash,
\* a lost update or a take-over came between.
DistinctAttempts ==
    \A v, w \in Workers, k \in Keys :
        /\ v # w
        /\ Phase(v, k) # "none" /\ Phase(w, k) # "none"
        => task[v][k].attempt # task[w][k].attempt

\* The fence WHERE lock_owner = worker is as good as a fence on the attempt:
\* an update that a goroutine still waits for can only match the attempt the
\* goroutine has claimed.
FencedByAttempt ==
    \A w \in Workers, k \in Keys :
        Phase(w, k) # "none" /\ Owns(jobs, k, w)
            => jobs[k].attempts = task[w][k].attempt

\* A pending job can be claimed once its time has come: no sequence of claims,
\* recoveries and retries leaves one pending with its attempts used up, which
\* Claim would pass over for ever.
NoStrandedPending ==
    \A k \in Keys : jobs[k].state = "pending" => jobs[k].attempts < jobs[k].max

\* A job that has succeeded or is dead stays so, whatever claims, expired
\* leases and late updates follow.
TerminalIsFinal ==
    [][\A k \in Keys : jobs[k].state \in {"succeeded", "dead"}
                           => jobs'[k] = jobs[k]]_vars

\* The table implements the life cycle of its jobs.
LifecycleRow(row) ==
    [state    |-> row.state,
     attempts |-> row.attempts,
     max      |-> row.max,
     verdict  |-> row.cause \in {"permanent", "no_handler"}]

LifecycleJob == [k \in Keys |-> LifecycleRow(jobs[k])]

Lifecycle == INSTANCE JobLifecycle WITH job <- LifecycleJob

ImplementsLifecycle == Lifecycle!Spec

\* As long as some worker stays up, every job that was enqueued succeeds or is
\* declared dead, in spite of crashes, lost answers and lost updates.
EventuallySettled ==
    (\E w \in Workers : <>[](proc[w] # "down"))
        => \A k \in Keys : jobs[k].state # "absent"
                               ~> jobs[k].state \in {"succeeded", "dead"}

\* A worker that was signalled stops: neither a running handler nor a failing
\* update keeps it.
ShutdownEnds == \A w \in Workers : ctxDone[w] ~> proc[w] = "down"

\* The loop of retryDelay computes what the plan of the platform asks for:
\* 1m << (attempts - 1), capped at one hour; in the runs the clock goes through
\* the attempts.
CappedShift(n) ==
    LET shifted == BaseRetryDelay * 2 ^ (n - 1)
    IN  IF shifted < MaxRetryDelay THEN shifted ELSE MaxRetryDelay

RetryDelayIsCappedShift == \A n \in 1 .. clock + 1 : RetryDelay[n] = CappedShift(n)

\* A failed attempt is retried after a back-off: its next attempt is not yet
\* due when the failure is recorded.
RetryBacksOff ==
    [][\A w \in Workers, k \in Keys :
          WriteLifecycle(w, k) /\ jobs[k].state = "running" /\ jobs'[k].state = "pending"
              => jobs'[k].runAt > clock + Skew[w]]_vars
===============================================================================
