# Verification of agri-price-crawler

TLA+ models of the program, TLC configurations that check them, and TLAPS
proofs. Source lines are those of the repository; `jobs/` stands for
`internal/platform/jobs/`.

## 1. The system

The repository holds two generations of one product. The **platform** (`cmd/`,
`internal/platform`, `internal/bootstrap`, `internal/gateway`) is the new
backend: a gateway, a worker for durable jobs and a migrator around PostgreSQL.
The **craw server** (`internal/craw`, `internal/ai`, `internal/pkg`, `pkg`) is
the running product: a crawler of market prices, a daily mail with generated
recipes, user accounts, price alerts, over MySQL and Redis.

| Component | State | Operations | Talks to | What is hard |
|---|---|---|---|---|
| Job repository (`jobs/postgres.go`) | table `platform_jobs` | Enqueue, Claim, Complete, Retry, Dead | PostgreSQL: row locks, transactions | concurrent claims, leases, fencing, lost answers |
| Job runner (`jobs/runner.go`) | registered handlers; per job a goroutine, a context, a timer | Run, RunOnce, handle, shutdown grace | repository; handlers | deadline, shutdown and result racing; writes that fail |
| Worker process (`cmd/worker`, `bootstrap/worker.go`) | worker ID, signal context | start, signal, exit | runner, schema gate | crash and restart with leases held |
| Migrations, schema gate (`platform/migrate`, `bootstrap`) | `platform_schema_migrations` | Up, CurrentVersion, requireSchemaVersion | PostgreSQL advisory lock | several migrators, failing migration, versions that change after the check |
| Gateway (`internal/gateway`) | listener, open requests | Run, livez, readyz | PostgreSQL ping, Redis ping at start | serve error against shutdown |
| Price crawler (`internal/craw/crawler`) | page counter | Run | remote price service, `prices` table | failing pages, timeout, repeated and overlapping runs |
| Cron (`internal/craw/cron.go`) | two schedules | initCronTask | crawler, daily mail | overlap, shutdown |
| Daily mail (`craw/cron`, `craw/mailer`) | none of its own | Run, SendBulkEmails | subscriptions, prices, recipes, SMTP | one recipient's failure stops the others |
| Recipes (`internal/ai/doubao`) | none | GenerateRecipe | language-model service | retry loop whose attempts share a variable |
| Alert engine (`internal/pkg/alert`) | last alert per key, price history | evaluateCycle, processAlert, UpdatePrice | SMTP | flood control, concurrent saves |
| Craw server, graceful shutdown (`craw/server.go`, `internal/pkg/server`, `pkg/shutdown`) | servers, callbacks | PrepareRun, Run, StartShutdown | all of the above | concurrent callbacks, start order |
| Users and sign-in (`craw/auth.go`, `service`, `store/mysql`) | `users`, tokens | sign in, update, change password, delete | MySQL | whole rows written back after being read earlier |
| Subscriptions (`store/mysql/subscribe.go`) | `subscribes` | create, delete, list | MySQL | few |
| MySQL factory (`store/mysql/mysql.go`) | one handle | GetMySQLFactoryOr, Close | MySQL | an error only the first caller sees |
| Redis storage (`pkg/storage`) | two pools, up flag | ConnectToRedis, keys, counters, lists, sets, windows, scans | Redis | flags set from partial results, methods of several commands |
| In-memory store (`store/fake`) | three slices under a lock | the store's interface | nothing imports it | long sequences of calls |

What makes each correct:

- *jobs*: at most one handler of a job at a time; every attempt counted; an
  outcome recorded only for the attempt it belongs to; a settled job stays
  settled; every job is settled in the end; a signalled worker stops.
- *migrations*: each applied once and in order, all or none; a process starts
  only after finding exactly the schema it was built for. It looks once: a later
  migration may be added under it while it runs.
- *gateway*: Run returns after shutdown, with nil only if nothing failed.
- *crawler*: a run reported a success stored every page it could get, and a run
  past its deadline stores no more.
- *mail*: a send reported a success has mailed every subscriber once, a recipe
  made for that subscriber from prices of the day before.
- *alerts*: one alert of a key per window, and not none; no record lost as long
  as savers do not overlap.
- *craw server*: a clean exit follows a whole shutdown, and a signal ends it.
- *users*: a stored password is one that was chosen for that name; what saves
  over newer rows is confined to requests that overlap, and to the accounts that
  share an ID; instance IDs stay with their names, unless a client has an account
  made with a given ID. An update changes only its fields and makes no account:
  neither holds.
- *Redis storage*: an answer belongs to the name asked for; counters expire;
  drained values go to one caller; windows keep their hits; the up flag tells
  the truth in the end.

`PROJECT.json` lists every hazard at its line with the properties that cover it.
A `note` beside the properties says where they cover it in part only: an
assumption it rests on, or a loss that the code accepts and they delimit.

## 2. Modules

| Module | Models | Extends |
|---|---|---|
| `JobPolicy` | `handlerTimeout`, `shutdownGrace`, `retryDelay` (`jobs/runner.go:198-226`) | |
| `JobTable` | every statement of `jobs/postgres.go` on `platform_jobs`, as operators from tables to tables | |
| `JobLifecycle` | what the platform promises about one job: the abstract specification | |
| `JobRunner` | worker processes over the shared table | `JobTable`, `JobPolicy` |
| `PlatformConfig` | what `config.Load` accepts, as a function of the environment | |
| `SchemaVersion` | what readers of the database may rely on: the abstract specification of the schema | |
| `SchemaMigration` | migrators of any builds over one database | |
| `Gateway` | the gateway process beside the migrators | `SchemaMigration`, `PlatformConfig` |
| `DailyJobs` | clock, context, table of prices that the daily jobs share | |
| `PriceCrawler`, `PriceSend` | a crawl; a send with its recipes and its mailer | `DailyJobs` |
| `DailyCron` | the two schedules, shutdown and exit over both | `PriceCrawler`, `PriceSend` |
| `AlertRules` | the evaluators, as functions of prices | `Lists` |
| `PriceHistory` | the historians and their concurrent savers | `Lists` |
| `AlertEngine` | rounds, flood control, mails in flight, counters | `AlertRules`, `PriceHistory` |
| `GracefulShutdown` | the signal manager and its callbacks | |
| `CrawServer` | the server process from creation to exit | `GracefulShutdown` |
| `UserTable` | tables `user` and `subscribe`, as the ORM reads and writes them | |
| `UserAccounts` | the requests of several clients over them | `UserTable` |
| `Lists` | loops over lists, as functions that proofs can unfold | |
| `RedisCommands` | the commands sent to Redis (external) | `Lists` |
| `RedisConnection` | the monitor of the connection and its switches | |
| `RedisStorage` | the storage handler and its clients | both |
| `MC*` | instances for TLC | the module they are named after |
| `ListProofs` | facts about lists and about loops over them | `Lists` |
| `JobRunnerProofs` | theorems of `JobTable`'s statements and of `JobRunner` | `JobRunner`, `ListProofs` |
| `GatewayProofs`, `CrawServerProofs`, `DailyCronProofs`, `AlertEngineProofs`, `UserAccountsProofs`, `RedisStorageProofs` | theorems | the module they are named after; those of alerts and Redis also `ListProofs` |

An operator whose name ends in `_Bug`, before the definition it is named after,
is that definition with a plausible fault. `PROJECT.json` pairs each property of
a passing run with one that breaks it: it is how we know that a property looks at
the code it is about. Nothing else uses these operators.

### Jobs

A row of `JobTable` holds the columns that statements read; the unique
constraint is the function from keys to rows. A claim is two statements in one
transaction; on a row locked by another transaction they skip (`SKIP LOCKED`), so
`LockRows` takes the free rows and `ClaimCommits` applies both statements to
exactly these. The lifecycle updates do not skip: they wait (`Unlocked`). A batch
never changes between the two steps, because whoever else writes one of its rows
must first lock it.

A worker process is in `proc[w]` where `Run` and `RunOnce` are: *polling*,
*claiming* (`now` has been read), *locked* (in the open transaction), *handling*
(waiting for the goroutines) or *down*. `task[w][k]` is the goroutine that
handles `k`: *claimed*, *running* (the first select), *grace*
(`waitForShutdownGrace`), *writing* (`updateLifecycle`). Actions have the names
of the events the two selects wait for. `finish` and `interrupt` choose the
update (`FinishWrite`, `InterruptWrite`); `ctxDone` is the signal context. A
crash forgets everything but the table. Time is explicit: a worker reads
`clock + Skew[w]` when it polls - its lease's start and the base of its
retries - and measures durations in real time, as Go's timers do.

Assumptions and simplifications:

- A handler stops when its context is done, as `jobs/runner.go:19` asks.
- The worker ID survives a restart. This is so for a container with a fixed
  host name, whose process always has the same PID, and it is the harder case.
- `RunWorker` registers no handler yet. The model takes the kinds with a handler
  as a constant (`Registered`).
- `MaxClaimLatency` and `MaxSkew` are assumptions about the database and the
  clocks: without a bound on both, no lease excludes anything.
- `Backoff` is a constant so that theorems hold for every back-off; the runs
  give it `RetryDelay`, whose closed form is in `RetryDelayIsCappedShift`.
- `LateWrites`: may an update its worker has given up still be run by the
  database? Where it is FALSE, an update has ended by then, applied
  (`WriteLifecycle`) or not (`WriteFails`).
- `Urgent` is TRUE in the liveness run alone: a step that is due is taken before
  time passes, and polls that find nothing are left out. Without it the bounded
  clock could run out while a worker is slow, which says nothing.

### Platform

`mig[m]` is one call of `Up`: transaction begun, lock taken, then file by file
skipped (`SkipApplied`) or found missing, applied and recorded, and a commit
whose answer may be lost. What a transaction has done is in its record (`ddl`,
`rows`) until `Commits` adds it to `schema` and `tracked`; the SQL of a migration
that another transaction has run conflicts (`Conflict`). A migrator is a build,
which embeds a first part of the history (`BuildLength`).

`gw` follows `RunGateway` and `Server.Run`: a configuration that `Loads`, the
pool, the gate, the listener, the select between serve error and context, the
shutdown that waits for open requests or ten seconds, and the exit code.
Redis is pinged at start; a failure is logged, the gateway goes on
(`bootstrap/gateway.go:31-35`), and nothing uses Redis later: it is left out.

### Daily jobs

A run is named by the time its schedule fired. `crawls[t]` follows the page loop:
sleep, fetch, save; `missed` are the pages it could not get, `late` counts what it
stored past its deadline. `sends[t]` follows the loop over cities and
recipients, `draft` is the variable the attempts of one recipe share. `DailyCron`
puts the two together: runs overlap, shutdown cancels their context, the exit
waits for none of them, and the panic of a nil answer ends the process. The order
of recipients is any order, as the map's iteration is. A day is `DayLength` steps
of the clock; the time zone of `createdAt` against that of the query is not
modelled, both are one clock.

### Craw server

`pc` is the main goroutine from `createCRAWServer` to `eg.Wait`; `listener` the
goroutine of each protocol; `drain` the callback that PrepareRun registers
(gRPC, store, HTTPS, HTTP, alert), in its order; `manager` and `running` the
signal manager and the callbacks it has spawned. `exit` is what the process ends
with, whoever ends it: the return of main, `os.Exit` of the manager, `log.Fatal`
or a panic. `GetMySQLFactoryOr` is the once: the later callers get the
factory and no error.

### Accounts

A request is one record of `call`; each action is one statement, so that other
requests come in between. Sign-in, update and password change read a row and save
the whole of it later. Deletion removes the row, the table has no deletion time.

A new account has the ID that the body of its request names (`metadata.id`, bound in
`controller/user/create.go:23` and inserted as it is), and the next free one when it
names none (`NewID`); its instance ID is made from that ID in the same
transaction. The ID may be one that a deleted account had. Name, ID and instance ID
are unique keys, so that an insert may be refused.

A save (`Save`) updates the row of its ID. When there is none, GORM inserts the row
with `ON DUPLICATE KEY UPDATE`, and a row that has the name or the instance ID by
now is the one that is overwritten; a save that meets a unique key all the same
is refused (`Target`). A late save of a deleted row thus inserts it again, or lands
on the account that shares its ID, its name or its instance ID.

`raced` holds the names for which a save has overwritten a newer row, their own or that
of a name whose row it landed on; `claimed` the IDs that clients have had accounts
made with; `chosen`, `password` and `issued` what requests have asked for and been
given.

### Alerts

`engine` follows `Run`: select, round, and mail (sending takes time, and the round
waits for it). **As shipped, the evaluators are given no prices
(`alert.go:102`) and no engine raises an alert.** The constant `Feeds` gives what
evaluators would see: the run has the empty feed of the shipped engine and two
others. The historians are likewise complete in the code and not called by it;
`PriceHistory` models them as their interface lets them be used.

### Redis storage

A method that sends one command or one transaction is one step; others are
several, with what their frames hold in `call[c]`. `ListExpiries` are the
values of `analytics.storage-expiration-time`, in seconds as `EXPIRE` gets them;
0 is that of a key which is not configured and deletes the list. The two masters of a cluster
are scanned by goroutines that share two variables. A name is prefix, key and
whether it is hashed, so that prefixing and hashing are told apart without strings. Monitor
and clients have only `redisUp` in common: the monitor's rounds run where there
are no clients, and with clients `redisUp` changes by `DisableRedis`. The
servers use the connection only; the methods are modelled for the callers the
interface invites.

## 3. Runs

With two workers every run takes TLC less than two and a half minutes.

| Run | Instance | Shows |
|---|---|---|
| `lease` | default configuration in ticks of 30s: lease 10, back-off from 2; 1 job, 2 workers, skew 1, claim latency 1, one disruption, 13 ticks; attempt limits 0 and 11 (refused) and 2 | `TypeOK`, `OneLiveHandler`, `NoStrandedPending`, `TimeoutInsideLease`, `RetryDelayIsCappedShift`. 13 ticks reach past a first lease into the second attempt of the other worker; latency and skew just fit the margin of 2; the back-off passes its cap at attempt 7. |
| `fencing` | 1 job, 2 workers, lease 5, late writes, one disruption, 8 ticks | `DistinctAttempts`, `FencedByAttempt`, `TerminalIsFinal` with updates that land at any later time |
| `settling` | 2 jobs, one without handler, 2 workers, one with room for one job and one for two, lease 3, one disruption, 12 ticks, fair | `EventuallySettled`, `ShutdownEnds`, and `ImplementsLifecycle`: `JobTable` under `JobRunner` implements `JobLifecycle`. The smaller batch passes over one of two jobs that are ready. |
| `backoff` | lease 5m, back-off 1m | `RetryBacksOff` is violated |
| `platform` | 3 migrations, builds of 2 and 3, two runs of each migrator, gateway of the older build, 2 requests, 2 failures, 2 signals; texts at and beside each limit of the configuration | `ImplementsSchemaVersion` (the migrators implement `SchemaVersion`), `GateFindsItsSchema`, `CleanExitIsClean`, `MigratorsEnd`, `SignalledExits`. A migrator of the newer build may commit before the gate, between gate and listener, and while the gateway serves. |
| `daily` | days of 3 steps, deadline 2; crawls at 0 and 2, send at 3; 3 records in pages of 2, two cities, 2 subscribers, 2 attempts | `NothingMissedButFailures`, `StopsStoringAtDeadline`, `SuccessfulSendReachedAll`, `RecipesAreTheirs`, `JobsEnd`. The second crawl overlaps the first, midnight and the send. |
| `alerts` | two breeds, window 2, interval 1, clock to 4; every historian, 2 writers | `FloodControl`, `HistoryServesSaves`. A mail may outlast two rounds and a window. |
| `server` | 2 requests over 3 protocols, one fault anywhere, signal at any time, with and without TLS | `SecureRequestsDrain`, `CleanExitFollowsShutdown`, `ShutdownEnds` |
| `grace` | the same | `RequestsGetTheirGrace` is violated |
| `accounts` | 2 clients, 2 names, IDs up to 3, given or chosen by the client, 3 requests, 2 passwords, one failing statement; symmetric in names and clients | `PasswordsWereChosen`, `QuietAccountsKeepPasswords`, `InstanceIDsStayWithNames` |
| `lost_update` | 2 requests, no failure | `UpdateSavesChangedFields` is violated |
| `redis` | 2 clients (a prefix and hashed keys; raw names), single or cluster, 2 to 4 calls on each kind of key, expiry 1, list expiries unset, 0 and 1, clock to 2, one failing command; without clients, 2 outages and 2 switches | `AnswersMatch`, `CounterHasDeadline`, `DrainedOnce`, `WindowKeepsHits`, `StatusFollowsRedis` |

**Bounds.** Constants whose name begins with `Max` bound a run - clocks,
failures, disruptions, requests, rows - and occur in guards only. One job shows
what concerns leases and fences, because no statement relates two rows but the
claim's order and limit; `settling` has two. Two attempts are enough for a first,
a last and an exhausted one. Two clients and three requests are enough for a
read, a whole other request and a late save; two clients of Redis for a method
with another one's commands between its own.

**Deadlock** is checked where nothing ends; each configuration that
switches the check off says what ends.

**Fairness.**

- Jobs (`FairSpec`): every worker's own work is weakly fair, since goroutines are
  scheduled, timers fire and the database answers. The tick is strongly fair: a
  worker's steps may forbid it for a moment, not for ever. A handler need never
  return, an update may fail every time, a process that is down need not come
  back. `EventuallySettled` therefore assumes that some worker stays up.
- Platform: steps of `Up`, of the gateway and of requests. `MigratorsEnd` relies
  on PostgreSQL giving the advisory lock to some waiter; `SignalledExits` on its
  answering pings, since the close of the pool waits for them without a limit.
- Craw server: main, callbacks, listeners, and the clients of the server end
  their requests. The last is an assumption about clients and not about the code:
  nothing in `GracefulStop` bounds the wait for a stream that stays open.
- Daily jobs: time, schedule and runs. The upstream is bounded by its client's
  timeout and the model by the context; that the database and the mail server
  answer is assumed.
- Alerts: the engine's own steps. Redis: the monitor's; nothing about clients.

### The three disagreements

- `backoff`: a retry is due `retryDelay` after the *poll* (`jobs/runner.go:167`),
  which the plan (`docs/superpowers/plans`, Task 4) also asks for. With the
  default lease an attempt may take four minutes and the first two back-offs are
  one and two, so that the exponential back-off of the design document
  (`docs/superpowers/specs`, line 126) does not take place after a slow failure.
- `grace`: `GenericCrawServer.Close` gives requests ten seconds. But the callback
  closes the store before it shuts the HTTP servers down (`craw/server.go:121`),
  so that a request under way fails for want of a store; and `ListenAndServe`
  returns as soon as `Shutdown` is called, so that main returns, and the process
  exits 0, while `Shutdown` still waits for a plain HTTP request. `server` shows
  what holds all the same: requests over gRPC do drain, and a clean exit does not
  cut those over HTTPS within their time.
- `lost_update`: the update of a profile sets four fields of the row it has read and
  means to "save changed fields" (`controller/user/update.go:38`), but the store saves
  with `db.Save` (`store/mysql/user.go:28`): every column, and the row itself when its
  ID is gone. An account that is deleted between the two statements is there again,
  although its deletion was answered as done; a password that is changed in between
  goes back to the old one. A sign-in does the same to save its time
  (`craw/auth.go:124`). `accounts` shows how far both may go.

Seen while modelling, and not runs of their own:

- A handler's timeout starts after the claim has returned, its lease before it
  (`jobs/runner.go:89,113`). `OneLiveHandler` holds as long as claim latency and
  skew fit the margin (`TimingMargin`).
- Updates are fenced by worker ID alone. An update that outlives its time-out
  and a lease is applied to a later attempt of the same worker;
  `FencedByAttempt` shows that updates a goroutine still waits for are safe.
- A crawl whose first page fails knows of no other page and reports success
  (`price_crawler.go:66`); `NothingMissedButFailures` says so.
- An account can be made with the ID of a deleted one (`controller/user/create.go:23`).
  It then has the instance ID, and with it what is left of the subscriptions, of
  another name; and a save that has read the deleted account lands on the new one,
  name and password included. `QuietAccountsKeepPasswords` and
  `InstanceIDsStayWithNames` say what holds all the same.
- `AppendToSetPipelined` multiplies the configured expiry, already a duration, by a
  second (`redis_cluster.go:1078`). A key that is not configured gives `EXPIRE 0`, which
  deletes the list just appended to; one with a unit (`60s`) overflows.
- `IncrememntWithExpire` does not look at the answer of `EXPIRE`
  (`redis_cluster.go:582`): when it fails, the counter never expires.
  `CounterHasDeadline` excuses runs with a failed command.
- In the in-memory store the batch deletion of accounts empties the table and never
  puts back those it was not asked to delete (`store/fake/user.go:88`); `Update` of a row
  with times panics through `CopyObj`, the date filter of `hnprices.List` is inverted,
  and a batch saved gets one ID.

## 4. Proofs

TLAPS checks the following for every value of the constants that the named
assumptions allow: any number of workers, clients, names and requests, any period,
and any value of the bounds that the runs need. Each inductive invariant was an
invariant of a TLC run before it was proved.

### Jobs (`JobRunnerProofs`)

Under `PolicyAssumption`, `TableAssumption` and `RunnerAssumption`. The steps are
cut down once to what a step can do to a row (`RowOrigin`: nothing, creation,
claim, recovery, a write) and to a goroutine (`TaskOrigin`); everything else is
proved over these, not over the actions.

- `TypeCorrect`: `Spec => [](TypeOK /\ AttemptsCounted)`. A row's lock columns
  are set exactly while it runs. The strengthening says that no goroutine
  holds an attempt its row has not counted; it is needed because the next claim
  hands out the row's count plus one, which must then be new.
- `DistinctAttemptsHold` and `FencedByAttemptHolds`. Both come from an
  invariant about who holds which attempt: attempts only grow, a claim creates
  the only goroutine with the newest one, and a row owned by a worker carries
  that worker's latest attempt or one whose goroutine is gone.
- `TerminalIsFinalHolds`: an action property, from `RowOrigin` alone, late
  updates included.
- `NoStrandedPendingHolds`: `~LateWrites => (Spec => []NoStrandedPending)`. The
  invariant (`RightWrites`) is about the write a goroutine has decided on: it is a
  retry only for an attempt before the last. It reaches the table as that only if
  the row still carries this attempt. A retry that lands late may find its worker's
  *last* attempt, and strand the job; the hypothesis excludes just this.
- `ImplementsLifecycleHolds`: under the same hypothesis every step of `JobRunner`
  is, for each job, a step of `JobLifecycle` or none. The refinement mapping is
  `LifecycleRow`; the two invariants above say that a claim and a retry are what the
  abstract life cycle allows. (`settling` checks the same with fairness.)
- `OneLiveHandlerHolds`: `TimingMargin /\ ~LateWrites => (Spec => []OneLiveHandler)`.
  The invariant gives each live handler a horizon, the real time at which its
  lease can first be taken over, and says that the deadline is not behind it and
  that the row is still locked by it until then. Late writes must be excluded: one
  that puts a running row back to pending invites a second handler.
- `TimeoutInsideLeaseHolds`: for every lease, however short, the handler's
  timeout and the shutdown's grace end inside it.
- `RetryDelayIsCappedShiftHolds`: the doubling loop of `retryDelay` against
  `base << (attempts - 1)`, capped, for every attempt. The induction is by least
  counterexample (`NatSetInduction` of `ListProofs`, from `WFMin`), as no prover can instantiate
  an induction theorem's predicate; powers of two are counted as subsets
  (`TwoToThe`), since `^` has no other facts to use.

### Migrations and gateway (`GatewayProofs`)

Under `MigrationAssumption`, `GatewayAssumption` and `ConfigAssumption`:
`TypeCorrect`, `SchemaIsHistoryPrefixHolds`, `GateFindsItsSchemaHolds` (an action
property), `CleanExitIsCleanHolds`. The invariant of the migrations: the committed
schema is an initial part of `History`, `tracked` names its members, only the
holder of the lock has done anything uncommitted, and that continues the schema
without a gap, the versions it has skipped all being in the schema. From this the
highest version recorded determines the schema (`VersionTellsSchema`), which is what
makes a gate that looks at the highest version alone right. What comes after the gate
is in an invariant of its own (`GateInv`): past the gate the schema is at least as long
as the gateway's, and so begins with it, being a first part of `History`; a commit
keeps it, since a transaction only continues the schema it found.

`ImplementsSchemaVersionHolds`: every step of the system is, for who reads schema and
recorded versions, a step of `SchemaVersion` or none. Only the commit shows anything
(an answer lost or not): a run that has something to commit has gone through its build's
files to the end, so that the schema then is its build's, and was shorter. What a
failing run has done is never seen. It says more than `SchemaIsHistoryPrefix`, which is
a theorem only.

The lemma `LoadedWorkerConfig` says that what `Load` lets through satisfies what
`RunnerAssumption` asks of the lease and the batch.

### Craw server (`CrawServerProofs`)

Under `CrawServerAssumption`: `TypeCorrect`, `SecureRequestsDrainHolds`,
`CleanExitFollowsShutdownHolds`. The two ways to exit 0 are the shutdown's
`os.Exit` and the return of main. The invariant (`ProgressInv`, `DrainInv`) ties what
each waits for to how far the main callback has come: past the gRPC server nothing is open
on gRPC, past the store it is closed, and past HTTPS nothing is open there or the
ten seconds are over.

### Daily jobs (`DailyCronProofs`)

Under `JobsAssumption`, `CrawlerAssumption` and `SendAssumption`: `TypeCorrect`,
`NothingMissedButFailuresHolds`, `StopsStoringAtDeadlineHolds`,
`SuccessfulSendReachedAllHolds`, `RecipesAreTheirsHolds`. A crawl's invariant: each
page before its own is stored or among those missed; since prices are never removed
it survives the steps of other runs. A send's: the recipients listed are those
mailed once and those left, and the shared draft is nobody's or its recipient's own.

### Alerts (`AlertEngineProofs`)

Under `AlertAssumption` and `HistoryAssumption`: `TypeCorrect`, `FloodControlHolds`
and `HistoryServesSavesHolds`.

- Flood control: `lastAlerts` holds for each key the newest processed alert, and none
  processed is later than the clock or the one in hand; so what is a window away
  from the newest is a window away from all.
- Counters: an alert that goes out is new, because a processed one of its key would
  have suppressed it for as long as the window, which must not be empty
  (`Window > 0`; it is five minutes). With an empty one the same alert goes out
  twice, and the counter is ahead of the alerts.
- History: while no two writers have overlapped at most one is between its two
  steps, and it has seen the history as it is (a saver), or all of it that still
  survives (who clears). That nothing is lost follows, for every historian; the
  length is bounded because each record has had its writer.
- Readers: what `GetLatest` and the snapshot find are facts about loops over
  histories of any length (`LoopExists`, `Extremes` of `ListProofs`), by
  least counterexample.

### Accounts (`UserAccountsProofs`)

Under `AccountsAssumption`: `TypeCorrect`, `PasswordsWereChosenHolds`,
`QuietAccountsKeepPasswordsHolds`, `InstanceIDsStayWithNamesHolds`. The invariant
says of each row, stored or read earlier by a request under way, that it is
*sound*: its instance ID was issued to its name and its password was chosen for its
name. Without the rows in the requests it is not inductive, because a request saves
what it has read, and inserts it again if it is gone. Nothing is assumed of the IDs
that clients name: `IssuedInv` says that two names have in common only IDs that
are `claimed`, since an ID that nobody named is above all issued before. A save
may land on the row of another name; `SaveFits` and `PutRows` say that it then gives
its own name the one row and takes at most that other name's, and both are in
`raced`.

### Redis storage (`RedisStorageProofs`)

Under `StorageAssumption` and `ConnectionAssumption`: `TypeCorrect`,
`AnswersMatchHolds`, `DrainedOnceHolds`, `CounterHasDeadlineHolds` and
`WindowKeepsHitsHolds`, from two invariants.

- `Inv`, for the counter and the window. Nearly every method is quiet for both keys:
  it does not touch them or deletes them (`CounterQuiet`, `WindowQuiet`). For the
  window it adds what calls under way hold: their time is not after now, and the
  member that one is to add is in no hit and is no other's; and of the key,
  that it never expires before the last period of its hits is over. A pipeline
  with an older clock removes only what is older, and sets an expiry that is
  later than any hit's.
- `Sound`, for answers and lists. Every value under a name was written under that
  name by a call already numbered (`Holds`), every name that a scan has gathered is
  one of the handle's own, and no value of a list is handed out and still there. The
  numbers make each value new when it is pushed; the frames are needed because a
  scan reads names in one step and their values in others, with the writes
  of everybody between. What `LREM` leaves of a list is `Keep`: `KeepFacts`
  (`ListProofs`) says for lists of any length what it keeps.

### Only model-checked

- Liveness (`EventuallySettled`, the two `ShutdownEnds`, `MigratorsEnd`, `SignalledExits`,
  `JobsEnd`, `StatusFollowsRedis`), which is beyond the prover.
- The three disagreements, which are violations.

## 5. Plan

Every safety property of the passing runs, every action property and both
refinements are theorems; what is left to the runs is beyond the prover. What would
add to it:

1. An abstract register for an account without overlapping requests.
2. An abstract queue for the lists of the Redis storage, which `GetAndDeleteSet` drains.

## 6. Not modelled

- The command-line framework, options, logging, error codes: no state that two
  steps share. The generated protocol code and mocks; the vendored hash function.
- The outbox: a table without code. The in-memory store: nothing imports it.
- Requests that only read (get, list, the gRPC price list); publish and
  subscribe, `Exists` and `GetKeyTTL` of the Redis storage.
- Formatting: HTML of mails and prompts, the signature of the crawler's
  requests, the conversion of a record's columns, metrics' exposition.
- Time zones.
