---------------------------- MODULE GatewayProofs -----------------------------
(***************************************************************************)
(* Proofs about the migrators and the gateway, for every history of        *)
(* migrations, every number of migrators, of whatever builds, and every    *)
(* set of requests.                                                        *)
(*                                                                         *)
(* The argument of the migrations: the committed schema is an initial part *)
(* of History and tracked names its members.  Only the holder of the lock  *)
(* has an open transaction; its SQL continues that part without a gap,     *)
(* because what a loop over the sorted files misses first is the next      *)
(* migration after the committed ones.                                     *)
(***************************************************************************)
EXTENDS Gateway, TLAPS

\* The first n versions, and the next ones after them.
First(n) == {History[i] : i \in 1 .. n}
Between(n, k) == {History[i] : i \in n + 1 .. k}

\* What is committed.
Committed ==
    /\ Len(schema) \in 0 .. Len(History)
    /\ \A i \in 1 .. Len(schema) : schema[i] = History[i]
    /\ tracked = First(Len(schema))

\* A run of Up, over the first length migrations and on top of n committed ones,
\* in its transaction: where its loop is, what it has run and recorded.
Transaction(u, n, length) ==
    LET done == n + Len(u.ddl)
    IN  /\ u.at \in 1 .. length + 1
        /\ \A i \in 1 .. Len(u.ddl) : u.ddl[i] = History[n + i]
        /\ u.pc \in {"locked", "missing"} =>
              /\ u.rows = Between(n, done)
              /\ u.at <= done + 1
              /\ u.ddl # <<>> => u.at = done + 1
        /\ u.pc = "missing" => u.at = done + 1 /\ u.at <= length
        /\ u.pc = "applied" =>
              /\ u.rows = Between(n, u.at - 1)
              /\ u.at = done /\ u.at <= length /\ u.ddl # <<>>

\* Without the lock a run has done nothing.
NoTransaction(u) == u.at = 1 /\ u.ddl = <<>> /\ u.rows = {}

MigrationInv ==
    /\ Committed
    /\ \A m \in Migrators :
         IF locker = m THEN Transaction(mig[m], Len(schema), BuildLength[m])
                       ELSE NoTransaction(mig[m])

\* The versions of the history are distinct, and positive.
LEMMA HistoryVersions ==
    /\ Len(History) \in Nat
    /\ DOMAIN History = 1 .. Len(History)
    /\ \A i \in 1 .. Len(History) : History[i] \in Versions /\ History[i] \in Nat \ {0}
    /\ \A i, j \in 1 .. Len(History) : i < j => History[i] < History[j]
    /\ \A i, j \in 1 .. Len(History) : History[i] = History[j] => i = j
<1>1. /\ Len(History) \in Nat
      /\ DOMAIN History = 1 .. Len(History)
      /\ \A i \in 1 .. Len(History) : History[i] \in Nat \ {0}
  BY MigrationAssumption
<1>2. \A i, j \in 1 .. Len(History) : i < j => History[i] < History[j]
  BY <1>1, MigrationAssumption
<1>3. ASSUME NEW i \in 1 .. Len(History), NEW j \in 1 .. Len(History), History[i] = History[j]
      PROVE  i = j
  <2>1. ~(i < j) /\ ~(j < i)
    BY <1>1, <1>2, <1>3
  <2> QED BY <1>1, <2>1
<1> QED BY <1>1, <1>2, <1>3 DEF Versions

\* What the actions of a run start from.
LEMMA RunTypes ==
    ASSUME MigrationTypeOK, MigrationInv, NEW m \in Migrators
    PROVE  /\ Len(schema) \in 0 .. Len(History)
           /\ mig[m] \in Up
           /\ mig[m].at \in Nat /\ mig[m].at >= 1
           /\ mig[m].ddl \in Seq(Versions) /\ Len(mig[m].ddl) \in Nat
           /\ BuildLength[m] \in 1 .. Len(History)
           /\ mig[m].at <= BuildLength[m] =>
                 mig[m].at \in 1 .. Len(History) /\ Version(m) \in Versions
           /\ mig[m].pc \in {"locked", "missing", "applied"} => 
                 locker = m /\ Transaction(mig[m], Len(schema), BuildLength[m])
<1>1. mig[m] \in Up /\ BuildLength[m] \in 1 .. Len(History) /\ Len(schema) \in 0 .. Len(History)
  BY MigrationAssumption DEF MigrationTypeOK, MigrationInv, Committed
<1>2. mig[m].at \in Nat /\ mig[m].ddl \in Seq(Versions) /\ Len(mig[m].ddl) \in Nat
  BY <1>1 DEF Up
<1>3. mig[m].at >= 1
  BY <1>1 DEF MigrationInv, Transaction, NoTransaction
<1>4. mig[m].at <= BuildLength[m] => 
           mig[m].at \in 1 .. Len(History) /\ Version(m) \in Versions
  BY <1>1, <1>2, <1>3, HistoryVersions DEF Version
<1>5. mig[m].pc \in {"locked", "missing", "applied"} => 
           locker = m /\ Transaction(mig[m], Len(schema), BuildLength[m])
  BY DEF MigrationTypeOK, MigrationInv
<1> QED BY <1>1, <1>2, <1>3, <1>4, <1>5

\* A step that changes the run of m alone, keeps what is committed and the lock
\* as the run's place says, preserves the types and the invariant if the new run
\* is right.
RunEffect(m, u) ==
    /\ mig' = [mig EXCEPT ![m] = u]
    /\ u \in Up
    /\ UNCHANGED <<tracked, schema>>
    /\ IF u.pc \in {"locked", "missing", "applied"}
       THEN locker \in {m, NoMigrator} /\ locker' = m
            /\ Transaction(u, Len(schema), BuildLength[m])
       ELSE locker' = (IF locker = m THEN NoMigrator ELSE locker) /\ NoTransaction(u)

\* A step of one migrator that commits nothing keeps the invariant when its
\* record is one the invariant allows.
LEMMA RunEffectStep ==
    ASSUME MigrationTypeOK, MigrationInv, NEW m \in Migrators, NEW u, RunEffect(m, u),
           hasTable' \in BOOLEAN, failures' \in 0 .. MaxFailures
    PROVE  MigrationTypeOK' /\ MigrationInv'
<1>1. /\ mig' \in [Migrators -> Up] /\ mig'[m] = u
      /\ \A v \in Migrators : v # m => mig'[v] = mig[v]
  BY DEF RunEffect, MigrationTypeOK
<1>2. Committed'
  BY DEF RunEffect, MigrationInv, Committed
<1>3. schema' = schema /\ tracked' = tracked
  BY DEF RunEffect
<1>4. NoMigrator \notin Migrators
  BY MigrationAssumption
<1>5. CASE u.pc \in {"locked", "missing", "applied"}
  <2>1. /\ locker \in {m, NoMigrator} /\ locker' = m
        /\ Transaction(u, Len(schema), BuildLength[m])
    BY <1>5 DEF RunEffect
  <2>2. ASSUME NEW v \in Migrators, v # m
        PROVE  /\ ~(mig'[v].pc \in {"locked", "missing", "applied"})
               /\ NoTransaction(mig'[v])
    <3>1. locker # v /\ mig'[v] = mig[v]
      BY <1>1, <1>4, <2>1, <2>2
    <3> QED BY <3>1 DEF MigrationTypeOK, MigrationInv
  <2>3. MigrationTypeOK'
    BY <1>1, <1>3, <1>5, <2>1, <2>2 DEF MigrationTypeOK
  <2>4. MigrationInv'
    BY <1>1, <1>2, <1>3, <2>1, <2>2 DEF MigrationInv
  <2> QED BY <2>3, <2>4
<1>6. CASE ~(u.pc \in {"locked", "missing", "applied"})
  <2>1. locker' = (IF locker = m THEN NoMigrator ELSE locker) /\ NoTransaction(u)
    BY <1>6 DEF RunEffect
  <2>2. ASSUME NEW v \in Migrators, v # m
        PROVE  (locker' = v <=> locker = v) /\ mig'[v] = mig[v]
    BY <1>1, <1>4, <2>1, <2>2
  <2>3. locker' # m
    BY <1>4, <2>1
  <2>4. MigrationTypeOK'
    BY <1>1, <1>3, <1>4, <1>6, <2>1, <2>2, <2>3 DEF MigrationTypeOK
  <2>5. MigrationInv'
    BY <1>1, <1>2, <1>3, <2>1, <2>2, <2>3 DEF MigrationInv
  <2> QED BY <2>4, <2>5
<1> QED BY <1>5, <1>6

\* A new run has done nothing.
LEMMA NewUpFacts ==
    ASSUME NEW pc \in {"idle", "begun", "done", "failed"}, NEW runs \in 0 .. MaxRuns
    PROVE  /\ NewUp(pc, runs) \in Up
           /\ NewUp(pc, runs).pc = pc
           /\ NoTransaction(NewUp(pc, runs))
BY DEF NewUp, Up, NoTransaction

\* A run starts, and takes the lock: its transaction is empty.
LEMMA BeginStep ==
    ASSUME MigrationTypeOK, MigrationInv, NEW m \in Migrators, Begin(m)
    PROVE  MigrationTypeOK' /\ MigrationInv'
<1>1. mig[m].runs + 1 \in 0 .. MaxRuns
  BY RunTypes, MigrationAssumption DEF Begin, Up
<1>2. locker # m
  BY DEF Begin, Ended, MigrationTypeOK
<1>3. RunEffect(m, NewUp("begun", mig[m].runs + 1))
  BY <1>1, <1>2, NewUpFacts DEF Begin, RunEffect
<1> QED BY <1>3, RunEffectStep DEF Begin, MigrationTypeOK

\* The lock is free, so no other migrator has anything uncommitted, and this
\* one starts from the schema there is.
LEMMA AcquireLockStep ==
    ASSUME MigrationTypeOK, MigrationInv, NEW m \in Migrators, AcquireLock(m)
    PROVE  MigrationTypeOK' /\ MigrationInv'
<1> DEFINE u == [mig[m] EXCEPT !.pc = "locked"]
<1>1. u \in Up /\ u.pc = "locked" /\ u.at = mig[m].at /\ u.ddl = mig[m].ddl /\ u.rows = mig[m].rows
  BY RunTypes DEF Up
<1>2. NoTransaction(mig[m])
  BY MigrationAssumption DEF AcquireLock, MigrationInv
<1>3. Len(<<>>) = 0 /\ Len(schema) \in Nat /\ Between(Len(schema), Len(schema)) = {}
  BY DEF MigrationInv, Committed, Between
<1>4. Transaction(u, Len(schema), BuildLength[m])
  <2>1. u.at = 1 /\ u.ddl = <<>> /\ u.rows = {} /\ u.pc = "locked"
    BY <1>1, <1>2 DEF NoTransaction
  <2>2. BuildLength[m] \in Nat /\ 1 \in 1 .. BuildLength[m] + 1
    BY RunTypes, HistoryVersions
  <2> HIDE DEF u
  <2> QED BY <1>3, <2>1, <2>2 DEF Transaction
<1>5. mig' = [mig EXCEPT ![m] = u] /\ locker = NoMigrator /\ locker' = m
  BY DEF AcquireLock, SetUp, MigrationTypeOK
<1>6. RunEffect(m, u)
  BY <1>1, <1>4, <1>5 DEF AcquireLock, RunEffect
<1> QED BY <1>6, RunEffectStep DEF AcquireLock, MigrationTypeOK

\* What the loop finds missing is the next migration after all that have been
\* committed or run; what it skips is committed.
LEMMA LoopIsAtNext ==
    ASSUME MigrationTypeOK, MigrationInv, NEW m \in Migrators, More(m)
    PROVE  LET done == Len(schema) + Len(mig[m].ddl)
           IN  IF IsApplied(m) THEN mig[m].at <= done /\ mig[m].ddl = <<>>
                               ELSE mig[m].at = done + 1
<1> DEFINE n == Len(schema)
           done == n + Len(mig[m].ddl)
           at == mig[m].at
<1>1. /\ n \in Nat /\ done \in Nat /\ n <= done /\ at \in 1 .. Len(History)
      /\ n \in 0 .. Len(History)
      /\ at <= done + 1
      /\ mig[m].ddl # <<>> => at = done + 1
      /\ mig[m].rows = Between(n, done)
      /\ tracked = First(n)
  BY RunTypes, HistoryVersions DEF More, Transaction, MigrationInv, Committed
<1>2. Version(m) = History[at]
  BY DEF Version
<1>3. CASE IsApplied(m)
  <2>1. at <= done
    <3>1. CASE at <= n
      BY <1>1, <3>1
    <3>2. CASE History[at] \in First(n)
      <4>1. PICK i \in 1 .. n : History[i] = History[at]
        BY <3>2 DEF First
      <4>2. i = at
        BY <4>1, <1>1, HistoryVersions
      <4> QED BY <4>2, <1>1
    <3>3. CASE History[at] \in Between(n, done)
      <4>1. PICK i \in n + 1 .. done : History[i] = History[at]
        BY <3>3 DEF Between
      <4>2. CASE at = done + 1
        <5>1. i < at /\ i \in 1 .. Len(History)
          BY <1>1, <4>1, <4>2, HistoryVersions
        <5> QED BY <4>1, <5>1, <1>1, HistoryVersions
      <4> QED BY <4>2, <1>1
    <3> QED BY <1>1, <1>2, <1>3, <3>1, <3>2, <3>3 DEF IsApplied
  <2> QED BY <1>1, <1>3, <2>1
<1>4. CASE ~IsApplied(m)
  <2>1. ~(at <= n)
    BY <1>1, <1>2, <1>4 DEF IsApplied, First
  <2>2. ~(n < at /\ at <= done)
    BY <1>1, <1>2, <1>4 DEF IsApplied, Between
  <2> QED BY <1>1, <1>4, <2>1, <2>2
<1> QED BY <1>3, <1>4

\* The loop goes past an applied migration, or stops at a missing one.
LEMMA LoopSteps ==
    ASSUME MigrationTypeOK, MigrationInv, NEW m \in Migrators, SkipApplied(m) \/ FindMissing(m)
    PROVE  MigrationTypeOK' /\ MigrationInv'
<1>1. /\ mig[m] \in Up /\ mig[m].pc = "locked" /\ locker = m
      /\ mig[m].at \in Nat /\ Len(schema) \in Nat /\ Len(mig[m].ddl) \in Nat
      /\ BuildLength[m] \in Nat /\ mig[m].at <= BuildLength[m]
      /\ Transaction(mig[m], Len(schema), BuildLength[m])
  BY RunTypes, HistoryVersions DEF SkipApplied, FindMissing, More
<1>2. CASE SkipApplied(m)
  <2> DEFINE u == [mig[m] EXCEPT !.at = @ + 1]
  <2>1. mig[m].at <= Len(schema) + Len(mig[m].ddl) /\ mig[m].ddl = <<>>
    BY <1>2, LoopIsAtNext DEF SkipApplied
  <2>2. u \in Up /\ u.pc = "locked" /\ u.at = mig[m].at + 1 /\ u.ddl = <<>>
        /\ u.rows = mig[m].rows /\ u.ddl = mig[m].ddl
    BY <1>1, <2>1 DEF Up
  <2>3. Transaction(u, Len(schema), BuildLength[m])
    <3> HIDE DEF u
    <3> QED BY <1>1, <2>1, <2>2 DEF Transaction
  <2>4. mig' = [mig EXCEPT ![m] = u]
    BY <1>2 DEF SkipApplied, MigrationTypeOK
  <2>5. RunEffect(m, u)
    BY <1>1, <1>2, <2>2, <2>3, <2>4 DEF SkipApplied, RunEffect
  <2> QED BY <1>2, <2>5, RunEffectStep DEF SkipApplied, MigrationTypeOK
<1>3. CASE FindMissing(m)
  <2> DEFINE u == [mig[m] EXCEPT !.pc = "missing"]
  <2>1. mig[m].at = Len(schema) + Len(mig[m].ddl) + 1
    BY <1>3, LoopIsAtNext DEF FindMissing
  <2>2. u \in Up /\ u.pc = "missing" /\ u.at = mig[m].at /\ u.ddl = mig[m].ddl
        /\ u.rows = mig[m].rows
    BY <1>1 DEF Up
  <2>3. Transaction(u, Len(schema), BuildLength[m])
    <3> HIDE DEF u
    <3> QED BY <1>1, <2>1, <2>2 DEF Transaction
  <2>4. mig' = [mig EXCEPT ![m] = u]
    BY <1>3 DEF FindMissing, SetUp, MigrationTypeOK
  <2>5. RunEffect(m, u)
    BY <1>1, <1>3, <2>2, <2>3, <2>4 DEF FindMissing, RunEffect
  <2> QED BY <1>3, <2>5, RunEffectStep DEF FindMissing, MigrationTypeOK
<1> QED BY <1>2, <1>3

\* A missing migration is run, and then recorded.
LEMMA ApplySteps ==
    ASSUME MigrationTypeOK, MigrationInv, NEW m \in Migrators, ApplySQL(m) \/ Record(m)
    PROVE  MigrationTypeOK' /\ MigrationInv'
<1> DEFINE n == Len(schema)
           at == mig[m].at
           ddl == mig[m].ddl
<1>1. /\ mig[m] \in Up /\ locker = m
      /\ at \in Nat /\ at >= 1 /\ n \in Nat
      /\ ddl \in Seq(Versions) /\ Len(ddl) \in Nat
      /\ BuildLength[m] \in Nat /\ BuildLength[m] <= Len(History)
      /\ Transaction(mig[m], n, BuildLength[m])
  BY RunTypes, HistoryVersions DEF ApplySQL, Record
<1>2. at <= BuildLength[m] /\ Version(m) \in Versions /\ Version(m) = History[at]
  BY <1>1, RunTypes DEF ApplySQL, Record, Transaction, Version
<1>3. CASE ApplySQL(m)
  <2> DEFINE longer == Append(ddl, Version(m))
             u == [mig[m] EXCEPT !.pc = "applied", !.ddl = Append(@, Version(m))]
  <2>1. /\ longer \in Seq(Versions) /\ Len(longer) = Len(ddl) + 1 /\ longer # <<>>
        /\ \A i \in 1 .. Len(ddl) : longer[i] = ddl[i]
        /\ longer[Len(ddl) + 1] = Version(m)
    <3>1. ddl \in Seq(Versions) /\ Version(m) \in Versions
      BY <1>1, <1>2
    <3> HIDE DEF ddl
    <3> QED BY <3>1
  <2>2. u \in Up /\ u.pc = "applied" /\ u.at = at /\ u.ddl = longer /\ u.rows = mig[m].rows
    BY <1>1, <2>1 DEF Up
  <2>3. /\ at = n + Len(ddl) + 1 /\ mig[m].rows = Between(n, n + Len(ddl))
        /\ \A i \in 1 .. Len(ddl) : ddl[i] = History[n + i]
    BY <1>1, <1>3 DEF ApplySQL, Transaction
  <2>4. \A i \in 1 .. Len(ddl) + 1 : longer[i] = History[n + i]
    <3>1. ASSUME NEW i \in 1 .. Len(ddl) + 1, i # Len(ddl) + 1 PROVE i \in 1 .. Len(ddl)
      BY <1>1, <3>1
    <3>2. n + (Len(ddl) + 1) = at
      BY <1>1, <2>3
    <3> HIDE DEF longer
    <3> QED BY <1>2, <2>1, <2>3, <3>1, <3>2
  <2>5. Transaction(u, n, BuildLength[m])
    <3>1. n + Len(ddl) = at - 1 /\ n + Len(longer) = at /\ at \in 1 .. BuildLength[m] + 1
      BY <1>1, <1>2, <2>1, <2>3
    <3> HIDE DEF u, longer
    <3> QED BY <1>2, <2>1, <2>2, <2>3, <2>4, <3>1 DEF Transaction
  <2>6. mig' = [mig EXCEPT ![m] = u]
    BY <1>3 DEF ApplySQL, MigrationTypeOK
  <2>7. RunEffect(m, u)
    <3> HIDE DEF u, longer
    <3> QED BY <1>1, <1>3, <2>2, <2>5, <2>6 DEF ApplySQL, RunEffect
  <2> QED BY <1>3, <2>7, RunEffectStep DEF ApplySQL, MigrationTypeOK
<1>4. CASE Record(m)
  <2> DEFINE more == mig[m].rows \cup {Version(m)}
             u == [mig[m] EXCEPT !.pc = "locked", !.at = @ + 1, !.rows = @ \cup {Version(m)}]
  <2>1. u \in Up /\ u.pc = "locked" /\ u.at = at + 1 /\ u.ddl = ddl /\ u.rows = more
    <3>1. ASSUME NEW a \in Nat, NEW r \in SUBSET Versions
          PROVE  LET v == [mig[m] EXCEPT !.pc = "locked", !.at = a, !.rows = r]
                 IN  v \in Up /\ v.pc = "locked" /\ v.at = a /\ v.ddl = ddl /\ v.rows = r
      BY <1>1 DEF Up
    <3>2. at + 1 \in Nat /\ more \in SUBSET Versions
      BY <1>1, <1>2 DEF Up
    <3> QED BY <3>1, <3>2
  <2>2. /\ mig[m].rows = Between(n, at - 1) /\ at = n + Len(ddl) /\ ddl # <<>>
        /\ \A i \in 1 .. Len(ddl) : ddl[i] = History[n + i]
    BY <1>1, <1>4 DEF Record, Transaction
  <2>3. Len(ddl) # 0
    BY <1>1, <2>2
  <2>4. more = Between(n, at)
    <3>1. n \in Nat /\ at \in Nat /\ n + 1 <= at
      BY <1>1, <2>2, <2>3
    <3>2. n + 1 .. at = (n + 1 .. at - 1) \cup {at}
      <4> HIDE DEF n, at
      <4> QED BY <3>1
    <3> QED BY <1>2, <2>2, <3>2 DEF Between
  <2>5. Transaction(u, n, BuildLength[m])
    <3>1. at + 1 \in 1 .. BuildLength[m] + 1 /\ at + 1 = n + Len(ddl) + 1
      BY <1>1, <1>2, <2>2
    <3> HIDE DEF u, more
    <3> QED BY <1>1, <2>1, <2>2, <2>4, <3>1 DEF Transaction
  <2>6. mig' = [mig EXCEPT ![m] = u]
    BY <1>4 DEF Record, MigrationTypeOK
  <2>7. RunEffect(m, u)
    <3> HIDE DEF u, more
    <3> QED BY <1>1, <1>4, <2>1, <2>5, <2>6 DEF Record, RunEffect
  <2> QED BY <1>4, <2>7, RunEffectStep DEF Record, MigrationTypeOK
<1> QED BY <1>3, <1>4

\* A run that ends leaves no transaction and no lock.
LEMMA EndedRun ==
    ASSUME MigrationTypeOK, MigrationInv, NEW m \in Migrators, ~Ended(mig[m].pc),
           NEW pc \in {"done", "failed"}, Ends(m, pc)
    PROVE  \E u : /\ mig' = [mig EXCEPT ![m] = u]
                  /\ u \in Up /\ u.pc = pc /\ NoTransaction(u)
                  /\ locker' = IF locker = m THEN NoMigrator ELSE locker
<1>1. mig[m].runs \in 0 .. MaxRuns
  BY RunTypes DEF Up
<1>2. mig' = [mig EXCEPT ![m] = NewUp(pc, mig[m].runs)]
  BY DEF Ends
<1> QED BY <1>1, <1>2, NewUpFacts DEF Ends

\* What a rolled-back transaction has done is forgotten.
LEMMA RollbackStep ==
    ASSUME MigrationTypeOK, MigrationInv, NEW m \in Migrators, Rollback(m)
    PROVE  MigrationTypeOK' /\ MigrationInv'
<1>1. PICK u : /\ mig' = [mig EXCEPT ![m] = u]
               /\ u \in Up /\ u.pc = "failed" /\ NoTransaction(u)
               /\ locker' = IF locker = m THEN NoMigrator ELSE locker
  BY EndedRun DEF Rollback
<1>2. RunEffect(m, u)
  BY <1>1 DEF Rollback, RunEffect
<1>3. hasTable' \in BOOLEAN /\ failures' \in 0 .. MaxFailures
  BY MigrationAssumption DEF Rollback, Fails, MigrationTypeOK
<1> QED BY <1>2, <1>3, RunEffectStep

\* A transaction that has come to the end of its files extends the schema without
\* a gap; it belongs to the holder of the lock, nobody else has one open.
LEMMA CommitStep ==
    ASSUME MigrationTypeOK, MigrationInv, NEW m \in Migrators, Commit(m) \/ CommitAnswerLost(m)
    PROVE  MigrationTypeOK' /\ MigrationInv'
<1> DEFINE n == Len(schema)
           ddl == mig[m].ddl
<1>1. /\ locker = m /\ mig[m].pc = "locked"
      /\ ddl \in Seq(Versions) /\ Len(ddl) \in Nat /\ n \in Nat /\ n <= Len(History)
      /\ schema \in Seq(Versions)
      /\ \A i \in 1 .. Len(ddl) : ddl[i] = History[n + i]
      /\ \A i \in 1 .. n : schema[i] = History[i]
      /\ tracked = First(n) /\ mig[m].rows = Between(n, n + Len(ddl))
  <2>1. mig[m].pc = "locked" /\ locker = m /\ Transaction(mig[m], n, BuildLength[m])
    BY RunTypes DEF Commit, CommitAnswerLost, AtEnd
  <2>2. ddl \in Seq(Versions) /\ Len(ddl) \in Nat /\ n \in Nat /\ n <= Len(History)
    BY RunTypes, HistoryVersions
  <2>3. /\ schema \in Seq(Versions)
        /\ \A i \in 1 .. n : schema[i] = History[i]
        /\ tracked = First(n)
    BY DEF MigrationTypeOK, MigrationInv, Committed
  <2> QED BY <2>1, <2>2, <2>3 DEF Transaction
<1>2. n + Len(ddl) <= Len(History)
  <2>1. mig[m].at \in 1 .. BuildLength[m] + 1 /\ BuildLength[m] \in 1 .. Len(History)
    BY <1>1, RunTypes DEF Transaction
  <2>2. CASE ddl = <<>>
    BY <1>1, <2>2
  <2>3. CASE ddl # <<>>
    <3>1. mig[m].at = n + Len(ddl) + 1
      BY <1>1, <2>3, RunTypes DEF Transaction
    <3> QED BY <1>1, <2>1, <3>1, HistoryVersions
  <2> QED BY <2>2, <2>3
<1>3. /\ tracked' = tracked \cup mig[m].rows /\ hasTable' = TRUE
      /\ schema' = schema \o ddl
  BY DEF Commit, CommitAnswerLost, Commits
<1>4. PICK u : /\ mig' = [mig EXCEPT ![m] = u]
               /\ u \in Up /\ u.pc \in {"done", "failed"} /\ NoTransaction(u)
               /\ locker' = NoMigrator
  BY <1>1, EndedRun DEF Commit, CommitAnswerLost, Ended
<1>5. /\ schema' \in Seq(Versions) /\ Len(schema') = n + Len(ddl)
      /\ \A i \in 1 .. n + Len(ddl) : schema'[i] = IF i <= n THEN schema[i] ELSE ddl[i - n]
  BY <1>1, <1>3
<1>6. ASSUME NEW i \in 1 .. n + Len(ddl)
      PROVE  schema'[i] = History[i]
  <2>1. CASE i <= n
    <3>1. i \in 1 .. n
      BY <1>1, <2>1
    <3>2. schema'[i] = schema[i] /\ schema[i] = History[i]
      BY <1>1, <1>5, <2>1, <3>1
    <3> QED BY <3>2
  <2>2. CASE ~(i <= n)
    <3>1. i - n \in 1 .. Len(ddl) /\ n + (i - n) = i
      BY <1>1, <2>2
    <3>2. schema'[i] = ddl[i - n] /\ ddl[i - n] = History[n + (i - n)]
      BY <1>1, <1>5, <2>2, <3>1
    <3> QED BY <3>1, <3>2
  <2> QED BY <2>1, <2>2
<1>7. tracked' = First(n + Len(ddl))
  <2>1. 1 .. n + Len(ddl) = (1 .. n) \cup (n + 1 .. n + Len(ddl))
    BY <1>1
  <2> QED BY <1>1, <1>3, <2>1 DEF First, Between
<1>8. Committed'
  <2>1. n + Len(ddl) \in 0 .. Len(History)
    BY <1>1, <1>2, HistoryVersions
  <2> QED BY <1>5, <1>6, <1>7, <2>1 DEF Committed
<1>9. ASSUME NEW v \in Migrators
      PROVE  /\ mig'[v] \in Up /\ NoTransaction(mig'[v])
             /\ ~(mig'[v].pc \in {"locked", "missing", "applied"})
  <2>1. CASE v = m
    BY <1>4, <2>1 DEF MigrationTypeOK
  <2>2. CASE v # m
    BY <1>1, <1>4, <2>2 DEF MigrationTypeOK, MigrationInv
  <2> QED BY <2>1, <2>2
<1>10. MigrationTypeOK'
  <2>1. tracked' \subseteq Versions
    BY <1>1, <1>2, <1>7, HistoryVersions DEF First
  <2>2. failures' \in 0 .. MaxFailures
    BY MigrationAssumption DEF Commit, CommitAnswerLost, Fails, MigrationTypeOK
  <2>3. mig' \in [Migrators -> Up]
    BY <1>4 DEF MigrationTypeOK
  <2>4. \A v \in Migrators : locker' # v
    BY <1>4, MigrationAssumption
  <2> QED BY <1>3, <1>4, <1>5, <1>9, <2>1, <2>2, <2>3, <2>4 DEF MigrationTypeOK
<1>11. MigrationInv'
  <2>1. \A v \in Migrators : locker' # v
    BY <1>4, MigrationAssumption
  <2> QED BY <1>8, <1>9, <2>1 DEF MigrationInv
<1> QED BY <1>10, <1>11

\* Every step of a migrator preserves types and invariant, and so does a step
\* elsewhere: it can only be a failure more.
LEMMA MigrationSteps ==
    ASSUME MigrationTypeOK, MigrationInv, NEW m \in Migrators, MigrationNext(m)
    PROVE  MigrationTypeOK' /\ MigrationInv'
BY BeginStep, AcquireLockStep, LoopSteps, ApplySteps, CommitStep, RollbackStep
   DEF MigrationNext, UpStep

\* Steps of the gateway leave the migrations alone; one of its statements may
\* fail.
LEMMA MigrationRest ==
    ASSUME MigrationTypeOK, MigrationInv,
           UNCHANGED <<tracked, hasTable, schema, locker, mig>>,
           UNCHANGED failures \/ Fails
    PROVE  MigrationTypeOK' /\ MigrationInv'
<1>1. failures' \in 0 .. MaxFailures
  BY MigrationAssumption DEF Fails, MigrationTypeOK
<1> QED BY <1>1 DEF MigrationTypeOK, MigrationInv, Committed

\* An empty database is what no migration has been applied to.
LEMMA MigrationStart == MigrationInit => MigrationTypeOK /\ MigrationInv
<1> SUFFICES ASSUME MigrationInit PROVE MigrationTypeOK /\ MigrationInv
  OBVIOUS
<1>1. ASSUME NEW m \in Migrators
      PROVE  mig[m] \in Up /\ mig[m].pc = "idle" /\ NoTransaction(mig[m])
  <2>1. 0 \in 0 .. MaxRuns
    BY MigrationAssumption
  <2> QED BY <2>1, NewUpFacts DEF MigrationInit
<1>2. locker = NoMigrator /\ \A m \in Migrators : locker # m
  BY MigrationAssumption DEF MigrationInit
<1>3. MigrationTypeOK
  <2>1. mig \in [Migrators -> Up]
    BY <1>1 DEF MigrationInit
  <2>2. 0 \in 0 .. MaxFailures /\ <<>> \in Seq(Versions)
    BY MigrationAssumption
  <2> QED BY <1>1, <1>2, <2>1, <2>2 DEF MigrationInit, MigrationTypeOK
<1>4. Committed
  BY HistoryVersions DEF MigrationInit, Committed, First
<1> QED BY <1>1, <1>2, <1>3, <1>4 DEF MigrationInv

\* The invariant says of the schema what the property says.
LEMMA SchemaSoFar == MigrationTypeOK /\ MigrationInv => SchemaIsHistoryPrefix
<1> SUFFICES ASSUME MigrationTypeOK, MigrationInv PROVE SchemaIsHistoryPrefix
  OBVIOUS
<1>1. /\ schema \in Seq(Versions) /\ Len(schema) \in 0 .. Len(History)
      /\ \A i \in 1 .. Len(schema) : schema[i] = History[i]
      /\ tracked = First(Len(schema))
  BY DEF MigrationTypeOK, MigrationInv, Committed
<1>2. schema = SubSeq(History, 1, Len(schema))
  <2>1. SubSeq(History, 1, Len(schema)) = [i \in 1 .. Len(schema) |-> History[i]]
    BY <1>1, HistoryVersions, MigrationAssumption
  <2>2. schema = [i \in 1 .. Len(schema) |-> schema[i]]
    BY <1>1
  <2> QED BY <1>1, <2>1, <2>2
<1>3. tracked = {schema[i] : i \in DOMAIN schema}
  BY <1>1 DEF First
<1> QED BY <1>2, <1>3 DEF SchemaIsHistoryPrefix

\* The highest tracked version tells the whole schema.
LEMMA VersionTellsSchema ==
    ASSUME MigrationTypeOK, MigrationInv, NEW k \in 1 .. Len(History),
           CurrentVersion = History[k]
    PROVE  schema = SubSeq(History, 1, k)
<1> DEFINE n == Len(schema)
<1>1. n \in 0 .. Len(History) /\ tracked = First(n) /\ k \in Nat
  BY HistoryVersions DEF MigrationInv, Committed
<1>2. n # 0
  <2>1. n = 0 => tracked = {}
    BY <1>1 DEF First
  <2> QED BY <2>1, HistoryVersions DEF CurrentVersion
<1>3. n \in 1 .. Len(History)
  BY <1>1, <1>2, HistoryVersions
<1>4. tracked # {} /\ History[n] \in tracked /\ \A u \in tracked : u <= History[n]
  <2>1. \A i \in 1 .. n : i \in 1 .. Len(History) /\ (i = n \/ i < n)
    BY <1>3, HistoryVersions
  <2>2. \A i \in 1 .. n : History[i] <= History[n]
    BY <1>3, <2>1, HistoryVersions
  <2>3. n \in 1 .. n
    BY <1>3, HistoryVersions
  <2> QED BY <1>1, <2>2, <2>3 DEF First
<1>5. CurrentVersion \in tracked /\ \A u \in tracked : u <= CurrentVersion
  BY <1>4 DEF CurrentVersion
<1>6. History[k] = History[n]
  BY <1>3, <1>4, <1>5, HistoryVersions
<1>7. k = n
  BY <1>3, <1>6, HistoryVersions
<1> QED BY <1>7, SchemaSoFar DEF SchemaIsHistoryPrefix

-------------------------------------------------------------------------------
(* The abstract schema *)

\* A commit brings the schema to what the migrator's build embeds, unless there
\* was nothing to do.
LEMMA CommitUpgrades ==
    ASSUME MigrationTypeOK, MigrationInv, NEW m \in Migrators, Commit(m) \/ CommitAnswerLost(m)
    PROVE  \/ UNCHANGED <<schema, tracked>>
           \/ Len(schema) < BuildLength[m] /\ Len(schema') = BuildLength[m]
<1> DEFINE n == Len(schema)
           ddl == mig[m].ddl
<1>1. /\ ddl \in Seq(Versions) /\ Len(ddl) \in Nat /\ n \in Nat /\ schema \in Seq(Versions)
      /\ BuildLength[m] \in Nat
      /\ mig[m].rows = Between(n, n + Len(ddl))
      /\ ddl # <<>> => mig[m].at = n + Len(ddl) + 1
      /\ mig[m].at \in 1 .. BuildLength[m] + 1 /\ mig[m].at > BuildLength[m]
  BY RunTypes, HistoryVersions DEF Commit, CommitAnswerLost, AtEnd, Transaction, MigrationTypeOK
<1>2. schema' = schema \o ddl /\ tracked' = tracked \cup mig[m].rows
  BY DEF Commit, CommitAnswerLost, Commits
<1>3. CASE ddl = <<>>
  <2>1. Len(ddl) = 0 /\ schema \o ddl = schema
    BY <1>1, <1>3
  <2>2. Between(n, n + Len(ddl)) = {}
    BY <1>1, <2>1 DEF Between
  <2> QED BY <1>1, <1>2, <2>1, <2>2
<1>4. CASE ddl # <<>>
  <2>1. Len(ddl) # 0 /\ Len(schema \o ddl) = n + Len(ddl)
    BY <1>1, <1>4
  <2>2. n + Len(ddl) = BuildLength[m] /\ n < BuildLength[m]
    BY <1>1, <1>4, <2>1
  <2> QED BY <1>2, <2>1, <2>2
<1> QED BY <1>3, <1>4

\* A step of a migrator that is not a commit shows nobody anything.
LEMMA OthersUpgradeNothing ==
    ASSUME NEW m \in Migrators, MigrationNext(m), ~Commit(m), ~CommitAnswerLost(m)
    PROVE  UNCHANGED <<schema, tracked>>
BY DEF MigrationNext, UpStep, Begin, AcquireLock, SkipApplied, FindMissing, ApplySQL, Record, Rollback

\* A step of a migrator is an upgrade, or one that readers do not see.
LEMMA MigratorsUpgrade ==
    ASSUME MigrationTypeOK, MigrationInv, NEW m \in Migrators, MigrationNext(m)
    PROVE  Versioned!Next \/ UNCHANGED <<schema, tracked>>
<1>1. CASE Len(schema) < BuildLength[m] /\ Len(schema') = BuildLength[m]
  <2>1. MigrationTypeOK' /\ MigrationInv'
    BY MigrationSteps
  <2>2. (MigrationTypeOK /\ MigrationInv => SchemaIsHistoryPrefix)'
    BY SchemaSoFar, PTL
  <2>3. schema' = SubSeq(History, 1, BuildLength[m])
    BY <1>1, <2>1, <2>2 DEF SchemaIsHistoryPrefix
  <2>4. tracked' = {History[i] : i \in 1 .. BuildLength[m]}
    BY <1>1, <2>1 DEF MigrationInv, Committed, First
  <2> QED BY <1>1, <2>3, <2>4 DEF Versioned!Next, Versioned!Upgrade
<1> QED BY <1>1, CommitUpgrades, OthersUpgradeNothing

-------------------------------------------------------------------------------
(* The gateway *)

\* How far Run has come says what the context, the server and the requests are at.
GatewayInv ==
    /\ gw = "serving" => serve \in {"running", "failed"}
    /\ gw \in {"shutdown", "collecting"} => ctxDone
    /\ gw = "collecting" => Quiet
    /\ gw = "closing" /\ result = "nil" => ctxDone /\ serve = "closed" /\ Quiet
    /\ CleanExitIsClean

GatewayTypeOK ==
    /\ gw \in {"opening", "gating", "listening", "serving", "shutdown", "collecting",
               "closing"} \cup Exited
    /\ ctxDone \in BOOLEAN
    /\ serve \in {"none", "running", "failed", "closed"}
    /\ result \in {"nil", "error"}
    /\ pool \in {"none", "open", "closing"}
    /\ req \in [Requests -> {"none", "handling", "pinging"}]
    /\ cut \in BOOLEAN
    /\ signals \in 0 .. MaxSignals

\* A step is one of a migrator, or of the gateway or its environment.
GatewaySide ==
    \/ Start \/ GatewayStep \/ OpenFails \/ ListenFails \/ ServeFails \/ Signal
    \/ \E r \in Requests : Accept(r) \/ RequestStep(r)

\* The gateway only reads the database; a failure of it is counted.
LEMMA GatewayOnlyReads ==
    ASSUME GatewaySide
    PROVE  UNCHANGED <<tracked, hasTable, schema, locker, mig>> /\ (UNCHANGED failures \/ Fails)
<1>1. ASSUME Start \/ OpenPostgres \/ PassGate \/ Listen \/ ServeCloses \/ SelectServeErr
             \/ SelectCtxDone \/ ShutdownReturns \/ ShutdownTimesOut \/ CollectServeErr
             \/ Exit \/ Signal
      PROVE  UNCHANGED migVars
  BY <1>1 DEF Start, OpenPostgres, PassGate, Listen, ServeCloses, SelectServeErr, SelectCtxDone,
              ShutdownReturns, ShutdownTimesOut, CollectServeErr, Exit, Signal
<1>2. ASSUME NEW r \in Requests, Accept(r) \/ RequestStep(r)
      PROVE  UNCHANGED migVars
  BY <1>2 DEF Accept, RequestStep, StartPing, AnswerAtOnce, PingReturns, SetRequest
<1>3. ASSUME FailGate \/ OpenFails \/ ListenFails \/ ServeFails
      PROVE  UNCHANGED <<tracked, hasTable, schema, locker, mig>> /\ (UNCHANGED failures \/ Fails)
  BY <1>3 DEF FailGate, OpenFails, ListenFails, ServeFails
<1> QED BY <1>1, <1>2, <1>3 DEF GatewaySide, GatewayStep, migVars

\* Every step preserves what the place of Run says.
LEMMA GatewayInvStep ==
    ASSUME GatewayTypeOK, GatewayInv, GatewaySide
    PROVE  GatewayTypeOK' /\ GatewayInv'
<1> USE DEF GatewayTypeOK, GatewayInv, CleanExitIsClean, Exited
<1>1. CASE Start
  BY <1>1 DEF Start
<1>2. CASE OpenPostgres \/ OpenFails
  BY <1>2 DEF OpenPostgres, OpenFails
<1>3. CASE PassGate \/ FailGate
  BY <1>3 DEF PassGate, FailGate, ReturnFrom
<1>4. CASE Listen \/ ListenFails
  BY <1>4 DEF Listen, ListenFails, ReturnFrom
<1>5. CASE ServeFails \/ ServeCloses
  BY <1>5 DEF ServeFails, ServeCloses, Quiet
<1>6. CASE SelectServeErr \/ SelectCtxDone
  BY <1>6 DEF SelectServeErr, SelectCtxDone, ReturnFrom, ServeError
<1>7. CASE ShutdownReturns \/ ShutdownTimesOut
  BY <1>7 DEF ShutdownReturns, ShutdownTimesOut, ReturnFrom, Quiet
<1>8. CASE CollectServeErr
  BY <1>8 DEF CollectServeErr, ReturnFrom, ServeError, Quiet
<1>9. CASE Exit
  BY <1>9 DEF Exit
<1>10. CASE Signal
  <2>1. signals' \in 0 .. MaxSignals
    BY <1>10, GatewayAssumption DEF Signal
  <2> QED BY <1>10, <2>1 DEF Signal, Quiet
<1>11. ASSUME NEW r \in Requests, Accept(r) \/ RequestStep(r)
       PROVE  GatewayTypeOK' /\ GatewayInv'
  <2>1. PICK from, to \in {"none", "handling", "pinging"} :
            /\ SetRequest(r, from, to)
            /\ from = "none" => gw = "serving"
    BY <1>11 DEF Accept, RequestStep, StartPing, AnswerAtOnce, PingReturns
  <2>2. Quiet => from = "none"
    BY <2>1 DEF Quiet, SetRequest
  <2> QED BY <2>1, <2>2 DEF SetRequest, Quiet
<1> QED BY <1>1, <1>2, <1>3, <1>4, <1>5, <1>6, <1>7, <1>8, <1>9, <1>10, <1>11
        DEF GatewaySide, GatewayStep

\* Run gets past the gate only through it.
LEMMA EntersByGate ==
    ASSUME GatewaySide, gw \notin PastGate, gw' \in PastGate
    PROVE  PassGate
<1>1. ~\E r \in Requests : Accept(r) \/ RequestStep(r)
  BY DEF Accept, RequestStep, StartPing, AnswerAtOnce, PingReturns, SetRequest
<1> QED BY <1>1
       DEF GatewaySide, PastGate, Start, Exited, GatewayStep, OpenPostgres, FailGate, ReturnFrom,
           Listen, ServeCloses, SelectServeErr, SelectCtxDone, ShutdownReturns, ShutdownTimesOut,
           CollectServeErr, Exit, OpenFails, ListenFails, ServeFails, Signal

-------------------------------------------------------------------------------
(* The theorems *)

\* What the gate has found is not lost.
GateInv == gw \in PastGate => Len(schema) >= RequiredLength

Inv == MigrationTypeOK /\ MigrationInv /\ GatewayTypeOK /\ GatewayInv /\ GateInv

\* What the gate finds.
LEMMA GateFinds ==
    ASSUME Inv, PassGate
    PROVE  schema = ItsSchema /\ Len(schema) = RequiredLength
<1>1. schema = ItsSchema
  BY VersionTellsSchema, GatewayAssumption DEF PassGate, RequiredSchema, Inv, ItsSchema
<1>2. RequiredLength \in Nat /\ RequiredLength <= Len(History)
  BY HistoryVersions, GatewayAssumption
<1> QED BY <1>1, <1>2, HistoryVersions, MigrationAssumption DEF ItsSchema

\* The schema past the gate begins with that of the gateway's build.
LEMMA KeepsIts ==
    ASSUME Inv, gw \in PastGate
    PROVE  BeginsWithIts(schema)
<1>1. Len(schema) >= RequiredLength /\ Len(schema) \in 0 .. Len(History)
  BY DEF Inv, GateInv, MigrationInv, Committed
<1>2. schema = SubSeq(History, 1, Len(schema))
  BY SchemaSoFar DEF Inv, SchemaIsHistoryPrefix
<1>3. RequiredLength \in Nat /\ Len(schema) \in Nat /\ Len(schema) <= Len(History)
  BY <1>1, HistoryVersions, GatewayAssumption
<1>4. \A i \in 1 .. RequiredLength : schema[i] = History[i]
  BY <1>1, <1>2, <1>3, HistoryVersions, MigrationAssumption
<1>5. SubSeq(schema, 1, RequiredLength) = [i \in 1 .. RequiredLength |-> schema[i]]
  BY <1>3 DEF Inv, MigrationTypeOK
<1>6. SubSeq(History, 1, RequiredLength) = [i \in 1 .. RequiredLength |-> History[i]]
  BY <1>3, MigrationAssumption
<1> QED BY <1>1, <1>4, <1>5, <1>6 DEF BeginsWithIts, ItsSchema

\* The gateway starts beside them with nothing checked.
LEMMA InitInv == Init => Inv
<1> SUFFICES ASSUME Init PROVE Inv
  OBVIOUS
<1>1. MigrationTypeOK /\ MigrationInv
  BY MigrationStart DEF Init
<1>2. 0 \in 0 .. MaxSignals
  BY GatewayAssumption
<1> QED BY <1>1, <1>2 DEF Init, Inv, GatewayTypeOK, GatewayInv, CleanExitIsClean, Exited,
                          GateInv, PastGate

\* No step takes from the schema what the gate has found.
LEMMA GateStep == Inv /\ [Next]_vars => GateInv'
<1> SUFFICES ASSUME Inv, [Next]_vars, gw' \in PastGate PROVE Len(schema') >= RequiredLength
  BY DEF GateInv
<1>1. RequiredLength \in Nat /\ Len(schema) \in Nat
  BY HistoryVersions, GatewayAssumption DEF Inv, MigrationTypeOK
<1>2. CASE GatewaySide
  <2>1. schema' = schema
    BY <1>2, GatewayOnlyReads
  <2>2. CASE gw \in PastGate
    BY <2>1, <2>2 DEF Inv, GateInv
  <2>3. CASE gw \notin PastGate
    BY <1>1, <1>2, <2>1, <2>3, EntersByGate, GateFinds
  <2> QED BY <2>2, <2>3
<1>3. ASSUME NEW m \in Migrators, MigrationNext(m), UNCHANGED gwVars
      PROVE  Len(schema') >= RequiredLength
  <2>1. Len(schema) >= RequiredLength
    BY <1>3 DEF Inv, GateInv, gwVars
  <2>2. schema' = schema \/ (Len(schema) < BuildLength[m] /\ Len(schema') = BuildLength[m])
    BY <1>3, CommitUpgrades, OthersUpgradeNothing DEF Inv
  <2>3. BuildLength[m] \in Nat
    BY HistoryVersions, MigrationAssumption
  <2> QED BY <1>1, <2>1, <2>2, <2>3
<1>4. CASE UNCHANGED vars
  BY <1>4 DEF Inv, GateInv, vars
<1> QED BY <1>2, <1>3, <1>4 DEF Next, GatewaySide

\* Every step of either keeps it, and so does none.
LEMMA StepInv == Inv /\ [Next]_vars => Inv'
<1> SUFFICES ASSUME Inv, [Next]_vars PROVE Inv'
  OBVIOUS
<1>1. GateInv'
  BY GateStep
<1>2. CASE GatewaySide
  BY <1>1, <1>2, GatewayOnlyReads, MigrationRest, GatewayInvStep DEF Inv
<1>3. ASSUME NEW m \in Migrators, MigrationNext(m), UNCHANGED gwVars PROVE Inv'
  BY <1>1, <1>3, MigrationSteps
     DEF Inv, gwVars, GatewayTypeOK, GatewayInv, Quiet, CleanExitIsClean
<1>4. CASE UNCHANGED vars
  BY <1>1, <1>4, MigrationRest
     DEF Inv, vars, GatewayTypeOK, GatewayInv, Quiet, CleanExitIsClean
<1> QED BY <1>2, <1>3, <1>4 DEF Next, GatewaySide

\* The invariant holds in every reachable state.
LEMMA InvHolds == Spec => []Inv
BY InitInv, StepInv, PTL DEF Spec

\* Migrators and gateway are well typed; the advisory lock is held by the run
\* that is past it in Up, and by no other.
THEOREM TypeCorrect == Spec => []TypeOK
<1>1. Inv => TypeOK
  BY DEF Inv, TypeOK, GatewayTypeOK
<1> QED BY <1>1, InvHolds, PTL

\* Migrators of whatever builds, in whatever number, together and failing
\* half-way, run each migration once and in order, and record just those.
THEOREM SchemaIsHistoryPrefixHolds == Spec => []SchemaIsHistoryPrefix
<1>1. Inv => SchemaIsHistoryPrefix
  BY SchemaSoFar DEF Inv
<1> QED BY <1>1, InvHolds, PTL

\* Readers of the database see migrators of whatever builds as atomic upgrades
\* from the schema of one build to that of a longer one.
THEOREM ImplementsSchemaVersionHolds == Spec => ImplementsSchemaVersion
<1>1. Init => Versioned!Init
  BY DEF Init, MigrationInit, Versioned!Init
<1>2. Inv /\ [Next]_vars => [Versioned!Next]_<<schema, tracked>>
  <2> SUFFICES ASSUME Inv, [Next]_vars
               PROVE  Versioned!Next \/ UNCHANGED <<schema, tracked>>
    OBVIOUS
  <2>1. CASE GatewaySide
    BY <2>1, GatewayOnlyReads
  <2>2. ASSUME NEW m \in Migrators, MigrationNext(m)
        PROVE  Versioned!Next \/ UNCHANGED <<schema, tracked>>
    BY <2>2, MigratorsUpgrade DEF Inv
  <2>3. CASE UNCHANGED vars
    BY <2>3 DEF vars, migVars
  <2> QED BY <2>1, <2>2, <2>3 DEF Next, GatewaySide
<1> QED BY <1>1, <1>2, InvHolds, PTL DEF Spec, ImplementsSchemaVersion, Versioned!Spec

\* The highest version is enough for the gate: it finds exactly the schema of the
\* gateway's build, and what the database has after it begins with that.
THEOREM GateFindsItsSchemaHolds == Spec => GateFindsItsSchema
<1>1. Inv /\ [Next]_vars /\ ~UNCHANGED vars =>
        (gw = "gating" /\ gw' = "listening" => schema = ItsSchema)
  <2> SUFFICES ASSUME Inv, Next, gw = "gating", gw' = "listening" PROVE schema = ItsSchema
    OBVIOUS
  <2>1. GatewaySide
    BY DEF Next, GatewaySide, gwVars
  <2> QED BY <2>1, EntersByGate, GateFinds DEF PastGate
<1>2. Inv' => (gw' \in PastGate => BeginsWithIts(schema'))
  <2>1. (Inv => (gw \in PastGate => BeginsWithIts(schema)))'
    BY KeepsIts, PTL
  <2> QED BY <2>1 DEF BeginsWithIts
<1>3. Inv /\ Inv' /\ [Next]_vars =>
        [/\ gw = "gating" /\ gw' = "listening" => schema = ItsSchema
         /\ gw' \in PastGate => BeginsWithIts(schema')]_vars
  BY <1>1, <1>2
<1> QED BY <1>3, InvHolds, PTL DEF Spec, GateFindsItsSchema

\* A gateway that exits with 0 was signalled, did not fail and cut no request.
THEOREM CleanExitIsCleanHolds == Spec => []CleanExitIsClean
<1>1. Inv => CleanExitIsClean
  BY DEF Inv, GatewayInv
<1> QED BY <1>1, InvHolds, PTL
-------------------------------------------------------------------------------
(* The configuration *)

\* What JobRunner assumes of Lease and Limit is what Load lets through.
LEMMA LoadedWorkerConfig ==
    ASSUME NEW env \in Environments, Loads(env)
    PROVE  /\ LeaseDuration(env).value \in Nat \ {0}
           /\ PollInterval(env).value \in Nat \ {0}
           /\ BatchSize(env).value \in 1 .. 100
<1>1. ASSUME NEW name \in EnvNames, NEW default \in Int, NEW parser \in [Texts -> Parsed]
      PROVE  ParsedEnv(env, name, parser, default).value \in Int
    <2>1. env[name] \in Texts
        BY ConfigAssumption
    <2>2. parser[env[name]] \in Parsed
        BY <2>1, <1>1
    <2> QED BY <2>2, <1>1 DEF ParsedEnv, Parsed
<1>2. /\ LeaseDuration(env).value \in Int
      /\ PollInterval(env).value \in Int
    BY <1>1, ConfigAssumption DEF LeaseDuration, PollInterval, EnvNames
<1>3. /\ LeaseDuration(env).value > 0
      /\ PollInterval(env).value > 0
      /\ BatchSize(env).value \in 1 .. 100
    BY DEF Loads
<1> QED BY <1>2, <1>3
===============================================================================
