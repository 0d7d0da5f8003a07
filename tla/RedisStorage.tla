---------------------------- MODULE RedisStorage -----------------------------
(***************************************************************************)
(* The storage handler over Redis (pkg/storage/redis_cluster.go), called   *)
(* by concurrent clients, each through a handle of its own (a RedisCluster *)
(* with its KeyPrefix and HashKeys).                                       *)
(*                                                                         *)
(* A method is one step when it sends one command or one transaction; a    *)
(* method that sends several is several steps, and others come in between. *)
(* RedisConnection maintains redisUp, all that the two have in common.  So *)
(* the rounds of its monitor are run while there are no clients, and with  *)
(* clients redisUp changes by DisableRedis.                                *)
(* A key holds one kind of value, as in every caller of such an interface. *)
(***************************************************************************)
EXTENDS RedisCommands, RedisConnection

CONSTANTS
    Clients,
    HandleOf,     \* the handle of each client: [prefix, hashed]
    StringKeys,
    Workloads,    \* the sets of keys that the clients of one run use; {} for no clients
    Switched,     \* those in which DisableRedis is called
    MaxCalls,     \* bound: calls of all clients, for each of them
    Ttl,          \* the expiry callers ask for, and the period of a window
    ListExpiries, \* the seconds analytics.storage-expiration-time comes to; Never for none
    MaxTime,      \* bound: the clock
    MaxFailures   \* bound: commands that fail

ASSUME StorageAssumption ==
    /\ \A c \in Clients : HandleOf[c].hashed \in BOOLEAN
    /\ StringKeys \cap {"counter", "list", "set", "sorted", "window"} = {}
    /\ Workloads \subseteq SUBSET (StringKeys \cup {"counter", "list", "set", "sorted", "window"})
    /\ Switched \subseteq Workloads
    /\ Ttl \in Nat \ {0}
    /\ ListExpiries \subseteq Int
    /\ MaxTime \in Nat /\ MaxFailures \in Nat
    /\ MaxCalls \in [Workloads -> Nat]

Keys == StringKeys \cup {"counter", "list", "set", "sorted", "window"}

VARIABLES
    used,       \* the keys this run uses
    cluster,    \* is the client a ClusterClient, with two masters?
    db,
    now,
    call,       \* what each client is in the middle of
    answer,     \* the pairs of name and value the last call answered with
    drained,    \* the list values GetAndDeleteSet has handed out, in order
    hits,       \* the members SetRollingWindow has added
    erased,     \* has a method deleted the window?
    issued,     \* calls so far; it also numbers the values written
    failures

storageVars == <<used, cluster, db, now, call, answer, drained, hits, erased, issued, failures>>
vars == <<storageVars, redisVars>>

KeyPrefixes == {HandleOf[c].prefix : c \in Clients} \cup {""}
Names == [prefix : KeyPrefixes, key : Keys, hashed : BOOLEAN]
NoName == [prefix |-> "", key |-> "", hashed |-> FALSE]
Values == [of : Names, n : Nat]
NoValue == [of |-> NoName, n |-> 0]    \* a missing value, the empty string

\* The rest of a call: the command to send next, and what its frame holds.
Call == [op     : {"idle", "expire", "getexp", "setexp", "window", "scan", "keys", "fetch", "delete"},
         from   : 0 .. MaxTime,         \* window: the time it took at its start
         value  : Values \cup {NoValue}, \* window: the member to add
         pipe   : Seq({"zrem", "zrange", "zadd", "expire"}),
         tx     : BOOLEAN,
         for    : {"keys", "fetch", "delete"},  \* scan: what the names are for
         filter : Keys \cup {""},
         todo   : SUBSET {1, 2},        \* scan: masters not scanned yet
         ready  : SUBSET {1, 2},        \* scan: masters scanned, names not sent yet
         shared : SUBSET Names,         \* scan: the captured variable values
         err    : BOOLEAN,
         names  : SUBSET Names]         \* the names or members gathered

IdleCall == [op |-> "idle", from |-> 0, value |-> NoValue, pipe |-> <<>>, tx |-> FALSE,
             for |-> "keys", filter |-> "", todo |-> {}, ready |-> {}, shared |-> {},
             err |-> FALSE, names |-> {}]

-------------------------------------------------------------------------------
(* Names *)

Raw(k) == [prefix |-> "", key |-> k, hashed |-> FALSE]

fixKey(c, k) == [prefix |-> HandleOf[c].prefix, key |-> k, hashed |-> HandleOf[c].hashed]

\* strings.Replace of the first occurrence, which starts the name.
cleanKey(c, n) == IF n.prefix = HandleOf[c].prefix THEN [n EXCEPT !.prefix = ""] ELSE n

\* KeyPrefix + v.
Prefixed(c, n) == IF HandleOf[c].prefix = "" THEN n ELSE [n EXCEPT !.prefix = HandleOf[c].prefix]

\* KeyPrefix + hashKey(filter) + "*"; the filter "" is not hashed.
Matches(c, filter, n) ==
    /\ HandleOf[c].prefix \in {"", n.prefix}
    /\ filter # "" => /\ n.key = filter
                      /\ n.prefix = HandleOf[c].prefix
                      /\ n.hashed = HandleOf[c].hashed

\* The master a name is on.
MasterOf(n) == IF n.hashed THEN 1 ELSE 2
Masters == IF cluster THEN {1, 2} ELSE {1}
OnMaster(m) == {n \in DOMAIN db : ~cluster \/ MasterOf(n) = m}

-------------------------------------------------------------------------------
(* Calls *)

Value(n) == [of |-> n, n |-> issued + 1]

\* A method starts: most of them look at redisUp first.
Starts(c) ==
    /\ call[c].op = "idle" /\ redisUp
    /\ issued < MaxCalls[used] /\ issued' = issued + 1

StartsUnchecked(c) ==
    /\ call[c].op = "idle"
    /\ issued < MaxCalls[used] /\ issued' = issued + 1

Fails == failures < MaxFailures /\ failures' = failures + 1

\* The command is answered, or fails: before Redis ran it or after.
Sends(d) ==
    \/ db' = d /\ UNCHANGED failures
    \/ Fails /\ db' \in {db, d}

Begins(c, frame) == call' = [call EXCEPT ![c] = frame]
Goto(c, op) == call' = [call EXCEPT ![c].op = op]
Return(c) == call' = [call EXCEPT ![c] = IdleCall]

\* A method of one command whose answer nobody keeps.
OneCommand(c, d) ==
    /\ Starts(c)
    /\ Sends(d)
    /\ answer' = {}
    /\ UNCHANGED <<used, cluster, now, call, drained, hits, erased>>

\* (Fault: the timeout 0 is taken as it is.)
Expiry_Bug(ttl) == now + ttl
\* A timeout of 0 is none.
Expiry(ttl) == IF ttl = 0 THEN Never ELSE now + ttl

SetKey(c, k, ttl) == LET n == fixKey(c, k) IN OneCommand(c, Set(db, n, Value(n), Expiry(ttl)))
SetRawKey(c, k, ttl) == LET n == Raw(k) IN OneCommand(c, Set(db, n, Value(n), Expiry(ttl)))
SetExp(c, k) == OneCommand(c, Expire(db, fixKey(c, k), now + Ttl))
Decrement(c) == OneCommand(c, Incr(db, fixKey(c, "counter"), -1))
AppendToSet(c) == LET n == fixKey(c, "list") IN OneCommand(c, RPush(db, n, <<Value(n)>>))
AddToSet(c) == LET n == fixKey(c, "set") IN OneCommand(c, SAdd(db, n, Value(n)))
RemoveFromSet(c, v) == OneCommand(c, SRem(db, fixKey(c, "set"), v))
AddToSortedSet(c) ==
    LET n == fixKey(c, "sorted") IN
    OneCommand(c, ZAdd(db, n, [member |-> Value(n), score |-> now]))

Unchecked(c, d) ==
    /\ StartsUnchecked(c)
    /\ Sends(d)
    /\ answer' = {}
    /\ UNCHANGED <<used, cluster, now, call, drained, hits, erased>>

RemoveFromList(c, v) == Unchecked(c, LRem(db, fixKey(c, "list"), v))
RemoveSortedSetRange(c) == Unchecked(c, ZRemUpTo(db, fixKey(c, "sorted"), now))

\* A deletion by name, of several names in one command or pipeline.
Deletes(c, names) ==
    /\ Starts(c)
    /\ Sends(Del(db, names))
    /\ erased' = (erased \/ Raw("window") \in names)
    /\ answer' = {}
    /\ UNCHANGED <<used, cluster, now, call, drained, hits>>

DeleteKey(c, k) == Deletes(c, {fixKey(c, k)})
DeleteRawKey(c, k) == Deletes(c, {Raw(k)})
DeleteKeys(c) == Deletes(c, {fixKey(c, k) : k \in StringKeys})
DeleteAllKeys(c) == Deletes(c, Names)

-------------------------------------------------------------------------------
(* Methods of several commands *)

Rest == <<used, cluster, now, drained, hits, erased>>

\* (Fault: a fresh counter is told by the value 0.)
IncrememntWithExpire_Bug(c) ==
    /\ Starts(c)
    /\ Sends(Incr(db, Raw("counter"), 1))
    /\ IF failures' = failures /\ Content(db', Raw("counter"), "int") = 0
       THEN Goto(c, "expire") ELSE UNCHANGED call
    /\ answer' = {}
    /\ UNCHANGED Rest

\* INCR of the raw key; the value 1 tells a fresh counter, which gets its expiry
\* by a second command.
IncrememntWithExpire(c) ==
    /\ Starts(c)
    /\ Sends(Incr(db, Raw("counter"), 1))
    /\ IF failures' = failures /\ Content(db', Raw("counter"), "int") = 1
       THEN Goto(c, "expire") ELSE UNCHANGED call
    /\ answer' = {}
    /\ UNCHANGED Rest

ExpireCounter(c) ==
    /\ call[c].op = "expire"
    /\ Sends(Expire(db, Raw("counter"), now + Ttl))
    /\ Return(c)
    /\ UNCHANGED <<issued, answer>> /\ UNCHANGED Rest

AppendToSetPipelined(c) ==
    /\ Starts(c)
    /\ LET n == fixKey(c, "list") IN Sends(RPush(db, n, <<Value(n)>>))
    /\ Goto(c, "getexp")
    /\ answer' = {}
    /\ UNCHANGED Rest

\* The answer for a list without expiry is -1 when the client library keeps
\* Redis's -1 in seconds; in nanoseconds it truncates to 0.
GetExp(c) ==
    IF ~redisUp \/ ~Stored(db, fixKey(c, "list")) THEN {0, -2}
    ELSE IF db[fixKey(c, "list")].exp = Never THEN {-1, 0}
    ELSE {db[fixKey(c, "list")].exp - now}

CheckExp(c) ==
    /\ call[c].op = "getexp"
    /\ \/ Never \in ListExpiries /\ Return(c)
       \/ /\ ListExpiries \ {Never} # {}
          /\ \E exp \in GetExp(c) : IF exp = -1 THEN Goto(c, "setexp") ELSE Return(c)
    /\ UNCHANGED <<db, issued, answer, failures>> /\ UNCHANGED Rest

\* The configured duration is multiplied by a second: a bare number of seconds is
\* right, a text with a unit overflows to some number, 0 or less too, and a
\* setting that is missing is 0.
SetListExp(c) ==
    /\ call[c].op = "setexp"
    /\ IF redisUp
       THEN \E seconds \in ListExpiries \ {Never} :
                Sends(ExpireIn(db, fixKey(c, "list"), now, seconds))
       ELSE UNCHANGED <<db, failures>>
    /\ Return(c)
    /\ UNCHANGED <<issued, answer>> /\ UNCHANGED Rest

\* (Fault: the list is read and left in place.)
GetAndDeleteSet_Bug(c) ==
    /\ Starts(c)
    /\ drained' = drained \o Content(db, fixKey(c, "list"), "list")
    /\ answer' = {}
    /\ UNCHANGED <<used, cluster, db, failures, now, call, hits, erased>>

\* One transaction.  When its answer is lost the values are lost with it.
GetAndDeleteSet(c) ==
    /\ Starts(c)
    /\ Sends(Del(db, {fixKey(c, "list")}))
    /\ drained' = IF failures' = failures
                  THEN drained \o Content(db, fixKey(c, "list"), "list") ELSE drained
    /\ answer' = {}
    /\ UNCHANGED <<used, cluster, now, call, hits, erased>>

-------------------------------------------------------------------------------
(* Rolling windows, over raw keys *)

\* The member is the time, unique to the nanosecond, or the caller's own.
SetRollingWindow(c, own, tx) ==
    /\ Starts(c)
    /\ Begins(c, [IdleCall EXCEPT !.op = "window", !.from = now, !.tx = tx,
                     !.pipe = <<"zrem", "zrange", "zadd", "expire">>,
                     !.value = [of |-> Raw("window"), n |-> IF own THEN 1 ELSE issued + 1]])
    /\ answer' = {}
    /\ UNCHANGED <<db, failures>> /\ UNCHANGED Rest

GetRollingWindow(c, tx) ==
    /\ Starts(c)
    /\ Begins(c, [IdleCall EXCEPT !.op = "window", !.from = now, !.tx = tx,
                     !.pipe = <<"zrem", "zrange">>])
    /\ answer' = {}
    /\ UNCHANGED <<db, failures>> /\ UNCHANGED Rest

\* (Fault: the period is not subtracted.)
onePeriodAgo_Bug(c) == call[c].from
onePeriodAgo(c) == call[c].from - Ttl

WindowCommand(c, d, cmd) ==
    LET w == Raw("window") IN
    CASE cmd = "zrem"   -> ZRemUpTo(d, w, onePeriodAgo(c))
      [] cmd = "zrange" -> d
      [] cmd = "zadd"   -> ZAdd(d, w, [member |-> call[c].value, score |-> call[c].from])
      [] cmd = "expire" -> Expire(d, w, now + Ttl)

\* MULTI ... EXEC: all the commands, at most four, at once.  hits keeps the members
\* no other call adds again.
Exec(c) ==
    LET Run(d, i) == IF i <= Len(call[c].pipe) THEN WindowCommand(c, d, call[c].pipe[i]) ELSE d
    IN  Run(Run(Run(Run(db, 1), 2), 3), 4)

Transaction(c) ==
    /\ call[c].op = "window" /\ call[c].tx
    /\ Sends(Exec(c))
    /\ hits' = IF failures' = failures /\ call[c].value.n > 1
               THEN hits \cup {[member |-> call[c].value, at |-> call[c].from]} ELSE hits
    /\ Return(c)
    /\ UNCHANGED <<used, cluster, now, answer, drained, erased, issued>>

\* A pipeline: one command after the other, others' in between; after a failure
\* the rest is not run.
PipelineStep(c) ==
    /\ call[c].op = "window" /\ ~call[c].tx
    /\ Sends(WindowCommand(c, db, Head(call[c].pipe)))
    /\ IF failures' # failures \/ Len(call[c].pipe) = 1 THEN Return(c)
       ELSE call' = [call EXCEPT ![c].pipe = Tail(@)]
    /\ UNCHANGED <<issued, answer>> /\ UNCHANGED Rest

-------------------------------------------------------------------------------
(* Scans.  A ClusterClient runs one goroutine per master, and all of them    *)
(* assign the variables values and err of the method.                        *)

Scan(c, for, filter) ==
    /\ Starts(c)
    /\ Begins(c, [IdleCall EXCEPT !.op = "scan", !.for = for, !.filter = filter, !.todo = Masters])
    /\ answer' = {}
    /\ UNCHANGED <<db, failures>> /\ UNCHANGED Rest

GetKeys(c, filter) == Scan(c, "keys", filter)
GetKeysAndValuesWithFilter(c, filter) == Scan(c, "fetch", filter)
DeleteScanMatch(c) == Scan(c, "delete", "")

\* fnFetchKeys, fnScan: values, err = ...  A master that fails leaves err set,
\* unless another goroutine sets it to nil before it is looked at.
ScanMaster(c, m) ==
    /\ call[c].op = "scan" /\ m \in call[c].todo
    /\ \/ /\ call' = [call EXCEPT ![c].todo = @ \ {m}, ![c].ready = @ \cup {m},
                ![c].shared = {n \in OnMaster(m) : Matches(c, call[c].filter, n)}]
          /\ UNCHANGED failures
       \/ /\ Fails
          /\ call' = [call EXCEPT ![c].todo = @ \ {m}, ![c].shared = {}, ![c].err = TRUE]
       \/ /\ Fails /\ call[c].ready # {}
          /\ call' = [call EXCEPT ![c].todo = @ \ {m}, ![c].shared = {}, ![c].ready = @ \cup {m}]
    /\ UNCHANGED <<db, issued, answer>> /\ UNCHANGED Rest

\* ch <- values
SendNames(c, m) ==
    /\ call[c].op = "scan" /\ m \in call[c].ready
    /\ call' = [call EXCEPT ![c].ready = @ \ {m}, ![c].names = @ \cup call[c].shared]
    /\ UNCHANGED <<db, issued, answer, failures>> /\ UNCHANGED Rest

\* The channel is closed.
ScanEnds(c) ==
    /\ call[c].op = "scan" /\ call[c].todo = {} /\ call[c].ready = {}
    /\ IF call[c].err \/ call[c].names = {} THEN Return(c) ELSE Goto(c, call[c].for)
    /\ UNCHANGED <<db, issued, answer, failures>> /\ UNCHANGED Rest

AnswerKeys(c) ==
    /\ call[c].op = "keys"
    /\ answer' = {[name |-> n, val |-> NoValue] : n \in call[c].names}
    /\ Return(c)
    /\ UNCHANGED <<db, issued, failures>> /\ UNCHANGED Rest

\* What GET or MGET shows of a name.
Shown(n) ==
    IF ~Stored(db, n) \/ db[n].kind \notin {"str", "int"} THEN NoValue
    ELSE IF db[n].kind = "int" THEN [of |-> n, n |-> db[n].val] ELSE db[n].val

\* (Fault: the names are asked for as GetKeys returns them, without the prefix.)
Asked_Bug(c, n) == cleanKey(c, n)
Asked(c, n) == Prefixed(c, cleanKey(c, n))

\* A GET of another kind of value fails the whole pipeline of a ClusterClient.
WrongType(c) == cluster /\ \E n \in call[c].names :
    Stored(db, Asked(c, n)) /\ db[Asked(c, n)].kind \notin {"str", "int"}

FetchValues(c) ==
    /\ call[c].op = "fetch"
    /\ \/ /\ ~WrongType(c)
          /\ answer' = {[name |-> n, val |-> Shown(Asked(c, n))] : n \in call[c].names}
          /\ UNCHANGED failures
       \/ WrongType(c) /\ answer' = {} /\ UNCHANGED failures
       \/ Fails /\ answer' = {}
    /\ Return(c)
    /\ UNCHANGED <<db, issued>> /\ UNCHANGED Rest

\* One DEL per name; a failed one is logged and passed over.
DeleteScanned(c, n) ==
    /\ call[c].op = "delete" /\ n \in call[c].names
    /\ Sends(Del(db, {n}))
    /\ erased' = (erased \/ n = Raw("window"))
    /\ IF call[c].names = {n} THEN Return(c)
       ELSE call' = [call EXCEPT ![c].names = @ \ {n}]
    /\ UNCHANGED <<used, cluster, now, answer, drained, hits, issued>>

-------------------------------------------------------------------------------
(* Readers: the pairs they answer with, none for an error or a missing key *)

Pairs(n, vals) == {[name |-> n, val |-> v] : v \in vals}

GetKey(c, k) == IF Stored(db, fixKey(c, k)) THEN Pairs(fixKey(c, k), {Shown(fixKey(c, k))}) ELSE {}
GetRawKey(k) == IF Stored(db, Raw(k)) THEN Pairs(Raw(k), {Shown(Raw(k))}) ELSE {}

\* Not found only when every value is missing or empty.
GetMultiKey(c) ==
    LET names == {fixKey(c, k) : k \in StringKeys} IN
    IF \A n \in names : Shown(n) = NoValue THEN {}
    ELSE UNION {Pairs(n, {Shown(n)}) : n \in names}

GetListRange(c) == Pairs(fixKey(c, "list"), Members(Content(db, fixKey(c, "list"), "list")))
GetSet(c) == Pairs(fixKey(c, "set"), Content(db, fixKey(c, "set"), "set"))
IsMemberOfSet(c, v) == {p \in GetSet(c) : p.val = v}
GetSortedSetRange(c, from, to) ==
    LET n == fixKey(c, "sorted") IN
    Pairs(n, {m.member : m \in {x \in Content(db, n, "zset") : x.score \in from .. to}})

Answers(c, pairs) ==
    /\ pairs # {} /\ answer' = pairs
    /\ UNCHANGED <<db, call, failures>> /\ UNCHANGED Rest

Read(c) == Starts(c) /\
    \/ \E k \in StringKeys : Answers(c, GetKey(c, k)) \/ Answers(c, GetRawKey(k))
    \/ Answers(c, GetMultiKey(c))
    \/ Answers(c, GetSet(c))
    \/ \E v \in Content(db, fixKey(c, "set"), "set") : Answers(c, IsMemberOfSet(c, v))

ReadUnchecked(c) == StartsUnchecked(c) /\
    \/ Answers(c, GetListRange(c))
    \/ \E from, to \in 0 .. MaxTime : Answers(c, GetSortedSetRange(c, from, to))

-------------------------------------------------------------------------------
(* The world *)

Tick ==
    /\ issued > 0 /\ now < MaxTime /\ now' = now + 1
    /\ db' = Evict(db, now + 1)
    /\ UNCHANGED <<used, cluster, call, answer, drained, hits, erased, issued, failures>>

\* Strings may be there from earlier.
Init ==
    /\ used \in Workloads
    /\ cluster \in BOOLEAN
    /\ RedisInit
    /\ db \in {[n \in names |-> [kind |-> "str", val |-> [of |-> n, n |-> 0], exp |-> Never]] :
                   names \in {{}, {n \in Names : n.key \in StringKeys \cap used}}}
    /\ now = 0
    /\ call = [c \in Clients |-> IdleCall]
    /\ answer = {} /\ drained = <<>> /\ hits = {} /\ erased = FALSE
    /\ issued = 0 /\ failures = 0

UsedStrings == StringKeys \cap used

Writes(c) ==
    \/ \E k \in UsedStrings, ttl \in {0, Ttl} : SetKey(c, k, ttl) \/ SetRawKey(c, k, ttl)
    \/ \E k \in used \ {"window"} : SetExp(c, k) \/ DeleteKey(c, k)
    \/ \E k \in used : DeleteRawKey(c, k)
    \/ "counter" \in used /\ (Decrement(c) \/ IncrememntWithExpire(c))
    \/ "list" \in used /\ (AppendToSet(c) \/ AppendToSetPipelined(c) \/ GetAndDeleteSet(c))
    \/ "set" \in used /\ AddToSet(c)
    \/ "sorted" \in used /\ (AddToSortedSet(c) \/ RemoveSortedSetRange(c))
    \/ "window" \in used /\ \E own, tx \in BOOLEAN : SetRollingWindow(c, own, tx)
    \/ \E v \in Members(Content(db, fixKey(c, "list"), "list")) : RemoveFromList(c, v)
    \/ \E v \in Content(db, fixKey(c, "set"), "set") : RemoveFromSet(c, v)
    \/ UsedStrings # {} /\ DeleteKeys(c)
    \/ used # {} /\ DeleteAllKeys(c)

Continues(c) ==
    \/ ExpireCounter(c) \/ CheckExp(c) \/ SetListExp(c)
    \/ Transaction(c) \/ PipelineStep(c)
    \/ \E m \in Masters : ScanMaster(c, m) \/ SendNames(c, m)
    \/ ScanEnds(c) \/ AnswerKeys(c) \/ FetchValues(c)
    \/ \E n \in call[c].names : DeleteScanned(c, n)

Reads(c) ==
    \/ Read(c) \/ ReadUnchecked(c)
    \/ "window" \in used /\ \E tx \in BOOLEAN : GetRollingWindow(c, tx)
    \/ UsedStrings # {} /\ \E filter \in UsedStrings \cup {""} :
           GetKeys(c, filter) \/ GetKeysAndValuesWithFilter(c, filter)
    \/ UsedStrings # {} /\ DeleteScanMatch(c)

Monitored == used = {}

Monitor == Monitored /\ MonitorSteps /\ UNCHANGED storageVars

\* With clients, Redis has been found by the first round before they come.
Connection ==
    /\ \/ monitor.pc = "off" /\ ConnectToRedis
       \/ ~Monitored /\ monitor.first /\ (ProbeSucceeds \/ Publish)
       \/ DisableRedisReturns
       \/ \E ok \in BOOLEAN : used \in Switched /\ (issued > 0 => ok) /\ DisableRedis(ok)
       \/ Monitored /\ (RedisGoesAway \/ RedisComesBack \/ MonitorStops)
    /\ UNCHANGED storageVars

Next ==
    \/ \E c \in Clients : (Writes(c) \/ Continues(c) \/ Reads(c)) /\ UNCHANGED redisVars
    \/ Tick /\ UNCHANGED redisVars
    \/ Monitor \/ Connection

Spec == Init /\ [][Next]_vars /\ WF_vars(Monitor)

-------------------------------------------------------------------------------

\* TypeOK: the variables hold values of their types.
TypeOK ==
    /\ RedisTypeOK
    /\ used \in Workloads /\ cluster \in BOOLEAN
    /\ DOMAIN db \subseteq Names
    /\ \A n \in DOMAIN db : /\ db[n].kind \in {"int", "str", "list", "set", "zset"}
                            /\ db[n].exp = Never \/ db[n].exp > now
    /\ now \in 0 .. MaxTime
    /\ call \in [Clients -> Call]
    /\ answer \subseteq [name : Names, val : [of : Names, n : Int] \cup {NoValue}]
    /\ drained \in Seq(Values)
    /\ issued \in 0 .. MaxCalls[used] /\ failures \in 0 .. MaxFailures

\* What a method answers for a name was written under that name: through the
\* prefix, the hash and the way back from a scan to the values (redis_cluster.go
\* fixKey, cleanKey, GetKeysAndValuesWithFilter), also when names come and go
\* between the scan and the values.
AnswersMatch == \A p \in answer : p.val = NoValue \/ p.val.of = p.name

\* A counter that IncrememntWithExpire has brought above zero expires, or the
\* call that is to set its expiry is still under way: decrements and deletions
\* in between do not leave a counter that limits its caller for ever.
CounterHasDeadline ==
    LET n == Raw("counter") IN
    Stored(db, n) /\ db[n].val > 0 /\ db[n].exp = Never
        => failures > 0 \/ \E c \in Clients : call[c].op = "expire"

\* GetAndDeleteSet hands every appended value to one caller at most.
DrainedOnce ==
    /\ IsInjective(drained)
    /\ \A n \in DOMAIN db : db[n].kind = "list" => ToSet(drained) \cap Members(db[n].val) = {}

\* A hit that a transactional SetRollingWindow has added stays in its window for
\* the whole period, whatever calls with older clocks, pipelines and expiries do
\* in between, unless its key is deleted.
WindowKeepsHits ==
    LET w == Raw("window") IN
    erased \/ \A h \in hits :
        h.at + Ttl > now => \E m \in Content(db, w, "zset") : m.member = h.member

\* redisUp ends up telling whether Redis answers once it neither comes nor goes,
\* nobody switches it off, and the monitor is not stopped (redis_cluster.go
\* ConnectToRedis), whatever DisableRedis has stored before.
StatusFollowsRedis ==
    LET watched == Monitored /\ monitor.pc \notin {"off", "stopped"} /\ ~disabled /\ switching = "no"
    IN  /\ <>[](watched /\ reachable) => <>[]redisUp
        /\ <>[](watched /\ ~reachable) => <>[]~redisUp
==============================================================================
