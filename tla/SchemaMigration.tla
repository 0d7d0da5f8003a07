--------------------------- MODULE SchemaMigration ---------------------------
(***************************************************************************)
(* Forward-only migrations of the platform's PostgreSQL schema             *)
(* (internal/platform/migrate/migrate.go), run by any number of migrator   *)
(* processes (internal/bootstrap/migrate.go, cmd/migrate).                 *)
(*                                                                         *)
(* A migrator is a build of the repository: the files it embeds are an     *)
(* initial part of the repository's History.  It applies what is missing   *)
(* in one transaction, under an advisory lock that ends with it.           *)
(***************************************************************************)
EXTENDS Integers, Sequences, FiniteSets

CONSTANTS
    Migrators,
    NoMigrator,      \* nobody holds the advisory lock
    History,         \* the versions of the repository's migrations, oldest first
    BuildLength,     \* how many of them each migrator's build embeds
    MaxRuns,         \* bound: runs of each migrator
    MaxFailures      \* bound: statements, commits and connections that fail

ASSUME MigrationAssumption ==
    /\ NoMigrator \notin Migrators
    /\ History \in Seq(Nat \ {0})
    /\ \A i, j \in DOMAIN History : i < j => History[i] < History[j]
    /\ BuildLength \in [Migrators -> 1 .. Len(History)]
    /\ MaxRuns \in Nat
    /\ MaxFailures \in Nat

VARIABLES
    tracked,    \* the committed rows of platform_schema_migrations
    hasTable,   \* is that table there?
    schema,     \* the migrations whose SQL has been committed, in that order
    locker,     \* the holder of the advisory lock
    mig,        \* the run of Up of each migrator
    failures    \* failures so far

migVars == <<tracked, hasTable, schema, locker, mig, failures>>

Versions == {History[i] : i \in DOMAIN History}

Up == [pc   : {"idle", "begun", "locked", "missing", "applied", "done", "failed"},
       at   : Nat,                  \* the migration the loop is at
       ddl  : Seq(Versions),        \* SQL run by the open transaction
       rows : SUBSET Versions,      \* rows inserted by it
       runs : 0 .. MaxRuns]

\* A run of Up whose transaction has done nothing.
NewUp(pc, runs) == [pc |-> pc, at |-> 1, ddl |-> <<>>, rows |-> {}, runs |-> runs]

Ended(pc) == pc \in {"idle", "done", "failed"}

\* The lock is held by whoever is past it in Up.
MigrationTypeOK ==
    /\ tracked \subseteq Versions
    /\ hasTable \in BOOLEAN
    /\ schema \in Seq(Versions)
    /\ locker \in Migrators \cup {NoMigrator}
    /\ mig \in [Migrators -> Up]
    /\ failures \in 0 .. MaxFailures
    /\ \A m \in Migrators : locker = m <=> mig[m].pc \in {"locked", "missing", "applied"}

MigrationInit ==
    /\ tracked = {}
    /\ hasTable = FALSE
    /\ schema = <<>>
    /\ locker = NoMigrator
    /\ mig = [m \in Migrators |-> NewUp("idle", 0)]
    /\ failures = 0

-------------------------------------------------------------------------------
(* Up *)

SetUp(m, pc) == mig' = [mig EXCEPT ![m].pc = pc]

\* The version of the migration m is at; loadMigrations has sorted the files.
Version(m) == History[mig[m].at]

Fails == failures < MaxFailures /\ failures' = failures + 1

Begin(m) ==
    /\ Ended(mig[m].pc) /\ mig[m].runs < MaxRuns
    /\ mig' = [mig EXCEPT ![m] = NewUp("begun", @.runs + 1)]
    /\ UNCHANGED <<tracked, hasTable, schema, locker, failures>>

\* (Fault: the lock is not taken.)
AcquireLock_Bug(m) ==
    /\ mig[m].pc = "begun"
    /\ SetUp(m, "locked")
    /\ UNCHANGED <<tracked, hasTable, schema, locker, failures>>

\* pg_advisory_xact_lock waits; the tracking table is created if need be, for
\* others to see when the transaction commits.
AcquireLock(m) ==
    /\ mig[m].pc = "begun" /\ locker = NoMigrator
    /\ locker' = m
    /\ SetUp(m, "locked")
    /\ UNCHANGED <<tracked, hasTable, schema, failures>>

More(m) == mig[m].pc = "locked" /\ mig[m].at <= BuildLength[m]

\* SELECT EXISTS: what has been committed by now, and the rows of its own.
IsApplied(m) == Version(m) \in tracked \cup mig[m].rows

SkipApplied(m) ==
    /\ More(m) /\ IsApplied(m)
    /\ mig' = [mig EXCEPT ![m].at = @ + 1]
    /\ UNCHANGED <<tracked, hasTable, schema, locker, failures>>

FindMissing(m) ==
    /\ More(m) /\ ~IsApplied(m)
    /\ SetUp(m, "missing")
    /\ UNCHANGED <<tracked, hasTable, schema, locker, failures>>

\* A relation cannot be created twice (CREATE TABLE, CREATE INDEX), nor a row
\* inserted twice: the statement waits for another transaction that does the
\* same, and fails once that has committed.
RunBy(v) == {m \in Migrators : v \in {mig[m].ddl[i] : i \in DOMAIN mig[m].ddl}}
Conflict(m) == mig[m].pc = "missing" /\ \E i \in DOMAIN schema : schema[i] = Version(m)

ApplySQL(m) ==
    /\ mig[m].pc = "missing" /\ ~Conflict(m) /\ RunBy(Version(m)) = {}
    /\ mig' = [mig EXCEPT ![m].pc = "applied", ![m].ddl = Append(@, Version(m))]
    /\ UNCHANGED <<tracked, hasTable, schema, locker, failures>>

Record(m) ==
    /\ mig[m].pc = "applied"
    /\ mig' = [mig EXCEPT ![m].pc = "locked", ![m].at = @ + 1,
                          ![m].rows = @ \cup {Version(m)}]
    /\ UNCHANGED <<tracked, hasTable, schema, locker, failures>>

\* The database commits the transaction: everything in it becomes visible and
\* the lock is free.
Commits(m) ==
    /\ tracked' = tracked \cup mig[m].rows
    /\ hasTable' = TRUE
    /\ schema' = schema \o mig[m].ddl

\* (Fault: a lock of the session, which outlives the transaction.)
Ends_Bug(m, pc) ==
    /\ mig' = [mig EXCEPT ![m] = NewUp(pc, @.runs)]
    /\ UNCHANGED locker

Ends(m, pc) ==
    /\ mig' = [mig EXCEPT ![m] = NewUp(pc, @.runs)]
    /\ locker' = IF locker = m THEN NoMigrator ELSE locker

AtEnd(m) == mig[m].pc = "locked" /\ mig[m].at > BuildLength[m]

Commit(m) == AtEnd(m) /\ Commits(m) /\ Ends(m, "done") /\ UNCHANGED failures

\* Commit returns an error although the database has committed.
CommitAnswerLost(m) == AtEnd(m) /\ Fails /\ Commits(m) /\ Ends(m, "failed")

\* (Fault: every migration commits by itself; those before the failure stay.)
Rollback_Bug(m) ==
    /\ ~Ended(mig[m].pc)
    /\ IF Conflict(m) THEN UNCHANGED failures ELSE Fails
    /\ tracked' = tracked \cup mig[m].rows
    /\ schema' = schema \o SubSeq(mig[m].ddl, 1, Cardinality(mig[m].rows))
    /\ Ends(m, "failed")
    /\ UNCHANGED hasTable

\* A statement or the commit fails, the context is cancelled, the process dies:
\* the transaction is rolled back, by the deferred call or by the database.
Rollback(m) ==
    /\ ~Ended(mig[m].pc)
    /\ IF Conflict(m) THEN UNCHANGED failures ELSE Fails
    /\ Ends(m, "failed")
    /\ UNCHANGED <<tracked, hasTable, schema>>

UpStep(m) ==
    \/ AcquireLock(m) \/ SkipApplied(m) \/ FindMissing(m)
    \/ ApplySQL(m) \/ Record(m) \/ Commit(m)

MigrationNext(m) == UpStep(m) \/ Begin(m) \/ CommitAnswerLost(m) \/ Rollback(m)

-------------------------------------------------------------------------------
(* CurrentVersion *)

\* COALESCE(MAX(version), 0); an error without the table.
CurrentVersion == IF tracked = {} THEN 0 ELSE CHOOSE v \in tracked : \A u \in tracked : u <= v

-------------------------------------------------------------------------------
(* Properties *)

\* Whatever migrators of whatever builds run together, fail half-way or lose an
\* answer: the SQL of every migration is run once, in the order of History, and
\* the tracking table says exactly what has been run.
SchemaIsHistoryPrefix ==
    /\ schema = SubSeq(History, 1, Len(schema))
    /\ tracked = {schema[i] : i \in DOMAIN schema}

\* To all who read committed rows a run of Up (migrate.go:28-76) is one step:
\* it applies all that its build has and the database has not, or nothing,
\* whatever other migrators do, fail at or lose.
Versioned == INSTANCE SchemaVersion WITH Builds <- {BuildLength[m] : m \in Migrators}

ImplementsSchemaVersion == Versioned!Spec
===============================================================================
