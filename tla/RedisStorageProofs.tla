------------------------- MODULE RedisStorageProofs --------------------------
(***************************************************************************)
(* Proofs about the storage handler, for any clients, handles, keys and    *)
(* expiries, in a cluster or not, and without the bounds of the runs: what *)
(* counters and rolling windows promise although a method is several       *)
(* commands and the commands of others come in between.                    *)
(*                                                                         *)
(* Most methods touch neither the counter nor the window: each of the two  *)
(* arguments says so once for all of them (CounterQuiet, WindowQuiet), and *)
(* then goes through the few that do.                                      *)
(***************************************************************************)
EXTENDS RedisStorage, ListProofs, TLAPS

Counter == Raw("counter")
Window == Raw("window")

-------------------------------------------------------------------------------
(* What a command does to the name it is about, and to the others *)

Same(d, e, n) == (Stored(e, n) <=> Stored(d, n)) /\ (Stored(d, n) => e[n] = d[n])
Fewer(d, e, n) == Stored(e, n) => Stored(d, n) /\ e[n] = d[n]

\* What a name holds has all it takes.
Entry(x) == {"kind", "val", "exp"} \subseteq DOMAIN x

\* A name that is written holds what is written, and no other name changes.
LEMMA PutEffect ==
    ASSUME NEW d, NEW n, NEW kind, NEW val, NEW exp
    PROVE  /\ Stored(Put(d, n, kind, val, exp), n)
           /\ Entry(Put(d, n, kind, val, exp)[n])
           /\ Put(d, n, kind, val, exp)[n].kind = kind
           /\ Put(d, n, kind, val, exp)[n].val = val
           /\ Put(d, n, kind, val, exp)[n].exp = exp
           /\ \A m : m # n => Same(d, Put(d, n, kind, val, exp), m)
  BY DEF Put, Stored, Same, Entry

\* A name that is deleted is gone, and no other name changes.
LEMMA DelEffect ==
    ASSUME NEW d, NEW names
    PROVE  \A m : /\ m \in names => ~Stored(Del(d, names), m)
                  /\ m \notin names => Same(d, Del(d, names), m)
                  /\ Fewer(d, Del(d, names), m)
  BY DEF Del, Stored, Same, Fewer

\* A value that changes keeps its expiry, unless nothing is left of it.
LEMMA ChangeEffect ==
    ASSUME NEW d, NEW n, NEW kind, NEW val
    PROVE  /\ \A m : m # n => Same(d, Change(d, n, kind, val), m)
           /\ kind = "int" \/ val # Empty[kind] => Stored(Change(d, n, kind, val), n)
           /\ Stored(Change(d, n, kind, val), n) =>
                /\ Entry(Change(d, n, kind, val)[n])
                /\ Change(d, n, kind, val)[n].kind = kind
                /\ Change(d, n, kind, val)[n].val = val
                /\ Change(d, n, kind, val)[n].exp = IF Stored(d, n) THEN d[n].exp ELSE Never
<1>1. CASE kind # "int" /\ val = Empty[kind]
  <2>1. Change(d, n, kind, val) = Del(d, {n})
    BY <1>1 DEF Change
  <2> QED BY <1>1, <2>1, DelEffect
<1>2. CASE ~(kind # "int" /\ val = Empty[kind])
  <2> DEFINE exp == IF Stored(d, n) THEN d[n].exp ELSE Never
  <2>1. Change(d, n, kind, val) = Put(d, n, kind, val, exp)
    BY <1>2 DEF Change
  <2> HIDE DEF exp
  <2>2. /\ \A m : m # n => Same(d, Change(d, n, kind, val), m)
        /\ Stored(Change(d, n, kind, val), n)
        /\ Entry(Change(d, n, kind, val)[n])
        /\ Change(d, n, kind, val)[n].kind = kind
        /\ Change(d, n, kind, val)[n].val = val
        /\ Change(d, n, kind, val)[n].exp = exp
    BY <2>1, PutEffect
  <2> QED BY <2>2 DEF exp
<1> QED BY <1>1, <1>2

\* EXPIRE changes the expiry of a key that there is, and nothing else.
LEMMA ExpireEffect ==
    ASSUME NEW d, NEW n, NEW exp, Stored(d, n) => Entry(d[n])
    PROVE  /\ \A m : m # n => Same(d, Expire(d, n, exp), m)
           /\ Stored(Expire(d, n, exp), n) <=> Stored(d, n)
           /\ Stored(d, n) => /\ Entry(Expire(d, n, exp)[n])
                              /\ Expire(d, n, exp)[n].kind = d[n].kind
                              /\ Expire(d, n, exp)[n].val = d[n].val
                              /\ Expire(d, n, exp)[n].exp = exp
  BY DEF Expire, Stored, Same, Entry

\* Redis may run a command and lose its answer, or not run it.
LEMMA SendsEffect ==
    ASSUME NEW d, Sends(d), failures \in Nat
    PROVE  /\ db' = d \/ db' = db
           /\ failures' \in Nat /\ failures' >= failures
           /\ failures' = failures => db' = d
  BY DEF Sends, Fails

-------------------------------------------------------------------------------
(* The invariants *)

\* The calls have their frames, and a scan is for names, values or a deletion.
CallsInv ==
    /\ DOMAIN call = Clients
    /\ \A c \in Clients : /\ DOMAIN call[c] = DOMAIN IdleCall
                          /\ call[c].for \in {"keys", "fetch", "delete"}

\* The counter holds a number, and expires or is about to.
CounterInv ==
    /\ now \in Nat /\ failures \in Nat
    /\ Stored(db, Counter) => Entry(db[Counter]) /\ db[Counter].val \in Int
    /\ CounterHasDeadline

\* The window holds a hit at its time, and does not expire before the hit does.
Kept(d, h) ==
    /\ Stored(d, Window) /\ Entry(d[Window])
    /\ [member |-> h.member, score |-> h.at] \in d[Window].val
    /\ d[Window].exp = Never \/ (d[Window].exp \in Nat /\ d[Window].exp >= h.at + Ttl)

Adding == <<"zrem", "zrange", "zadd", "expire">>
Looking == <<"zrem", "zrange">>

Windowing(c) == call[c].op = "window"

\* A call about a window took its time before now; a member of its own that it
\* is to add is nobody else's, and not in a hit.
WindowInv ==
    /\ now \in Nat /\ issued \in Nat
    /\ Stored(db, Window) => Entry(db[Window])
    /\ \A h \in hits :
         /\ h.at \in 0 .. now
         /\ h.member.n \in 2 .. issued
         /\ ~erased /\ h.at + Ttl > now => Kept(db, h)
    /\ \A c \in Clients : Windowing(c) =>
         /\ call[c].from \in 0 .. now
         /\ call[c].value.n \in 0 .. issued
         /\ call[c].pipe \in Seq({"zrem", "zrange", "zadd", "expire"})
         /\ call[c].pipe # <<>>
         /\ call[c].tx => call[c].pipe = Adding \/ (call[c].pipe = Looking /\ call[c].value.n = 0)
         /\ \A h \in hits : call[c].value.n # h.member.n
         /\ \A d \in Clients : d # c /\ Windowing(d) /\ call[c].value.n > 1
                                 => call[c].value.n # call[d].value.n

Inv == CallsInv /\ CounterInv /\ WindowInv

\* A step of c that leaves the counter alone or deletes it, while c is not about
\* to set its expiry.
CounterQuiet(c) ==
    /\ Fewer(db, db', Counter)
    /\ failures' \in Nat /\ failures' >= failures
    /\ now' = now
    /\ call[c].op # "expire"
    /\ \A d \in Clients \ {c} : call'[d] = call[d]

\* A step of c that leaves the window alone or erases it, after which c is not in
\* a call about it.
WindowQuiet(c) ==
    /\ Fewer(db, db', Window)
    /\ erased => erased'
    /\ ~erased' => Same(db, db', Window)
    /\ now' = now /\ hits' = hits
    /\ issued' \in Nat /\ issued' >= issued
    /\ call'[c].op # "window"
    /\ \A d \in Clients \ {c} : call'[d] = call[d]

\* What is so quiet keeps what is said of the counter ...
LEMMA CounterQuietInv ==
    ASSUME CounterInv, NEW c \in Clients, CounterQuiet(c)
    PROVE  CounterInv'
  BY DEF CounterInv, CounterHasDeadline, CounterQuiet, Counter, Fewer, Stored

\* ... and of the window.
LEMMA WindowQuietInv ==
    ASSUME WindowInv, NEW c \in Clients, WindowQuiet(c)
    PROVE  WindowInv'
<1>1. now' \in Nat /\ issued' \in Nat /\ (Stored(db, Window) => Entry(db[Window]))'
  BY DEF WindowInv, WindowQuiet, Fewer, Stored
<1>2. ASSUME NEW h \in hits'
      PROVE  /\ h.at \in 0 .. now'
             /\ h.member.n \in 2 .. issued'
             /\ ~erased' /\ h.at + Ttl > now' => Kept(db', h)
  <2>1. h \in hits /\ now' = now
    BY <1>2 DEF WindowQuiet
  <2>2. h.at \in 0 .. now' /\ h.member.n \in 2 .. issued'
    BY <2>1 DEF WindowInv, WindowQuiet
  <2>3. ASSUME ~erased', h.at + Ttl > now' PROVE Kept(db', h)
    <3>1. Kept(db, h) /\ Same(db, db', Window)
      BY <2>1, <2>3 DEF WindowInv, WindowQuiet
    <3> QED BY <3>1 DEF Kept, Same, Stored
  <2> QED BY <2>2, <2>3
<1>3. ASSUME NEW d \in Clients, Windowing(d)'
      PROVE  d # c /\ Windowing(d) /\ call'[d] = call[d]
  <2>1. d # c
    BY <1>3 DEF Windowing, WindowQuiet
  <2>2. call'[d] = call[d]
    BY <2>1 DEF WindowQuiet
  <2> QED BY <1>3, <2>1, <2>2 DEF Windowing
<1>4. ASSUME NEW d \in Clients, Windowing(d)'
      PROVE  /\ call'[d].from \in 0 .. now'
             /\ call'[d].value.n \in 0 .. issued'
             /\ call'[d].pipe \in Seq({"zrem", "zrange", "zadd", "expire"})
             /\ call'[d].pipe # <<>>
             /\ call'[d].tx => call'[d].pipe = Adding \/ (call'[d].pipe = Looking /\ call'[d].value.n = 0)
             /\ \A h \in hits' : call'[d].value.n # h.member.n
             /\ \A e \in Clients : e # d /\ Windowing(e)' /\ call'[d].value.n > 1
                                     => call'[d].value.n # call'[e].value.n
  BY <1>3, <1>4 DEF WindowInv, WindowQuiet
<1> QED BY <1>1, <1>2, <1>4 DEF WindowInv, Windowing, Kept

-------------------------------------------------------------------------------
(* Methods that touch neither *)

\* A name with another key is another name.
LEMMA OtherNames ==
    ASSUME NEW c, NEW k
    PROVE  /\ k # "counter" => fixKey(c, k) # Counter /\ Raw(k) # Counter
           /\ k # "window" => fixKey(c, k) # Window /\ Raw(k) # Window
           /\ Counter # Window
  BY DEF fixKey, Raw, Counter, Window

\* A string key is none of the keys of other kinds.
LEMMA StringKeysApart ==
    ASSUME NEW k \in UsedStrings
    PROVE  k \notin {"counter", "list", "set", "sorted", "window"}
  BY StorageAssumption DEF UsedStrings

\* A method of one command, or the first command of several, away from the counter ...
LEMMA CommandAwayFromCounter ==
    ASSUME Inv, NEW c \in Clients, NEW d,
           Starts(c) \/ StartsUnchecked(c), Sends(d), now' = now,
           Fewer(db, d, Counter), \A e \in Clients \ {c} : call'[e] = call[e]
    PROVE  CounterQuiet(c)
<1>1. call[c].op = "idle"
  BY DEF Starts, StartsUnchecked
<1>2. db' \in {db, d} /\ failures' \in Nat /\ failures' >= failures
  BY SendsEffect DEF Inv, CounterInv
<1>3. Fewer(db, db', Counter)
  BY <1>2 DEF Fewer
<1> QED BY <1>1, <1>2, <1>3 DEF CounterQuiet

\* ... and away from the window, or erasing it.
LEMMA CommandAwayFromWindow ==
    ASSUME Inv, NEW c \in Clients, NEW d,
           Starts(c) \/ StartsUnchecked(c), Sends(d), now' = now,
           Fewer(db, d, Window), erased => erased', ~erased' => Same(db, d, Window), hits' = hits,
           call'[c].op # "window", \A e \in Clients \ {c} : call'[e] = call[e]
    PROVE  WindowQuiet(c)
<1>1. issued' \in Nat /\ issued' >= issued
  BY DEF Starts, StartsUnchecked, Inv, WindowInv
<1>2. db' \in {db, d}
  BY SendsEffect DEF Inv, CounterInv
<1>3. Fewer(db, db', Window) /\ (~erased' => Same(db, db', Window))
  BY <1>2 DEF Fewer, Same
<1> QED BY <1>1, <1>3 DEF WindowQuiet

Quiet(c) == CallsInv' /\ CounterQuiet(c) /\ WindowQuiet(c)

\* A step that is quiet for both keeps the invariant.
LEMMA QuietInv == ASSUME Inv, NEW c \in Clients, Quiet(c) PROVE Inv'
  BY CounterQuietInv, WindowQuietInv DEF Inv, Quiet

\* No command changes a name that it is not about.
LEMMA CommandsElsewhere ==
    ASSUME NEW d, NEW n, NEW m, m # n, NEW v, NEW e
    PROVE  /\ Same(d, Set(d, n, v, e), m)
           /\ Same(d, Incr(d, n, v), m)
           /\ Same(d, RPush(d, n, v), m)
           /\ Same(d, LRem(d, n, v), m)
           /\ Same(d, SAdd(d, n, v), m) /\ Same(d, SRem(d, n, v), m)
           /\ Same(d, ZAdd(d, n, v), m) /\ Same(d, ZRemUpTo(d, n, v), m)
           /\ Same(d, Expire(d, n, e), m)
<1>1. Same(d, Set(d, n, v, e), m)
  BY PutEffect DEF Set
<1>2. \A kind, val : Same(d, Change(d, n, kind, val), m)
  BY ChangeEffect
<1>3. Same(d, Expire(d, n, e), m)
  BY DEF Expire, Same, Stored
<1> QED BY <1>1, <1>2, <1>3 DEF Incr, RPush, LRem, SAdd, SRem, ZAdd, ZRemUpTo

\* A name that stays the same is not written.
LEMMA SameIsFewer == \A d, e, n : Same(d, e, n) => Fewer(d, e, n)
  BY DEF Same, Fewer

\* A method of one command is about one name.
LEMMA OneCommandQuiet ==
    ASSUME Inv, NEW c \in Clients, NEW d, OneCommand(c, d) \/ Unchecked(c, d)
    PROVE  /\ CallsInv'
           /\ Fewer(db, d, Counter) => CounterQuiet(c)
           /\ Same(db, d, Window) => WindowQuiet(c)
<1>1. /\ Starts(c) \/ StartsUnchecked(c)
      /\ Sends(d) /\ now' = now /\ call' = call /\ hits' = hits /\ erased' = erased
  BY DEF OneCommand, Unchecked
<1>2. call[c].op # "window"
  BY <1>1 DEF Starts, StartsUnchecked
<1>3. CallsInv'
  BY <1>1 DEF Inv, CallsInv
<1>4. ASSUME Fewer(db, d, Counter) PROVE CounterQuiet(c)
  BY <1>1, <1>4, CommandAwayFromCounter
<1>5. ASSUME Same(db, d, Window) PROVE WindowQuiet(c)
  BY <1>1, <1>2, <1>5, CommandAwayFromWindow, SameIsFewer
<1> QED BY <1>3, <1>4, <1>5

\* Strings.
LEMMA SetQuiet ==
    ASSUME Inv, NEW c \in Clients, NEW k \in UsedStrings, NEW ttl,
           SetKey(c, k, ttl) \/ SetRawKey(c, k, ttl)
    PROVE  Quiet(c)
<1>1. k # "counter" /\ k # "window"
  BY StringKeysApart
<1>2. PICK n \in {fixKey(c, k), Raw(k)} : OneCommand(c, Set(db, n, Value(n), Expiry(ttl)))
  BY DEF SetKey, SetRawKey
<1>3. n # Counter /\ n # Window
  BY <1>1, OtherNames
<1>4. /\ Same(db, Set(db, n, Value(n), Expiry(ttl)), Counter)
      /\ Same(db, Set(db, n, Value(n), Expiry(ttl)), Window)
  BY <1>3, CommandsElsewhere
<1> QED BY <1>2, <1>4, OneCommandQuiet, SameIsFewer DEF Quiet

\* Of lists, sets and sorted sets.
LEMMA CollectionQuiet ==
    ASSUME Inv, NEW c \in Clients, NEW v,
           \/ AppendToSet(c) \/ AddToSet(c) \/ AddToSortedSet(c) \/ RemoveSortedSetRange(c)
           \/ RemoveFromList(c, v) \/ RemoveFromSet(c, v)
    PROVE  Quiet(c)
<1>1. \A k \in {"list", "set", "sorted"} : fixKey(c, k) # Counter /\ fixKey(c, k) # Window
  BY OtherNames
<1> DEFINE Results(k, x) ==
             {RPush(db, fixKey(c, k), x), SAdd(db, fixKey(c, k), x), SRem(db, fixKey(c, k), x),
              LRem(db, fixKey(c, k), x), ZAdd(db, fixKey(c, k), x), ZRemUpTo(db, fixKey(c, k), x)}
<1>2. \E k \in {"list", "set", "sorted"} : \E x :
         \E d \in Results(k, x) : OneCommand(c, d) \/ Unchecked(c, d)
  BY Zenon DEF AppendToSet, AddToSet, AddToSortedSet, RemoveSortedSetRange, RemoveFromList, RemoveFromSet
<1>3. PICK k \in {"list", "set", "sorted"} : \E x :
         \E d \in Results(k, x) : OneCommand(c, d) \/ Unchecked(c, d)
  BY <1>2
<1>4. PICK d : /\ OneCommand(c, d) \/ Unchecked(c, d)
               /\ Same(db, d, Counter) /\ Same(db, d, Window)
  BY <1>1, <1>3, CommandsElsewhere
<1> QED BY <1>4, OneCommandQuiet, SameIsFewer DEF Quiet

\* What deletes the window says so.
LEMMA DeletesQuiet ==
    ASSUME Inv, NEW c \in Clients, NEW names, Deletes(c, names)
    PROVE  Quiet(c)
<1>1. /\ Starts(c) /\ Sends(Del(db, names)) /\ now' = now /\ call' = call /\ hits' = hits
      /\ erased' = (erased \/ Window \in names)
  BY DEF Deletes, Window
<1>2. call[c].op # "window"
  BY <1>1 DEF Starts
<1>3. CallsInv'
  BY <1>1 DEF Inv, CallsInv
<1>4. /\ Fewer(db, Del(db, names), Counter) /\ Fewer(db, Del(db, names), Window)
      /\ Window \notin names => Same(db, Del(db, names), Window)
  BY DelEffect
<1>5. CounterQuiet(c)
  BY <1>1, <1>4, CommandAwayFromCounter
<1>6. WindowQuiet(c)
  BY <1>1, <1>2, <1>4, CommandAwayFromWindow
<1> QED BY <1>3, <1>5, <1>6 DEF Quiet

\* A call whose frame changes has a frame again, and the others keep theirs.
LEMMA FrameKept ==
    ASSUME CallsInv, NEW c \in Clients, NEW frame, call' = [call EXCEPT ![c] = frame],
           DOMAIN frame = DOMAIN IdleCall, frame.for \in {"keys", "fetch", "delete"}
    PROVE  /\ CallsInv'
           /\ call'[c] = frame
           /\ \A e \in Clients \ {c} : call'[e] = call[e]
<1>1. call'[c] = frame /\ \A e \in Clients \ {c} : call'[e] = call[e]
  BY DEF CallsInv
<1>2. DOMAIN call' = Clients
  BY DEF CallsInv
<1> QED BY <1>1, <1>2 DEF CallsInv

\* A call that returns is idle.
LEMMA ReturnFrame ==
    ASSUME CallsInv, NEW c \in Clients, Return(c)
    PROVE  /\ CallsInv'
           /\ call'[c] = IdleCall /\ call'[c].op = "idle"
           /\ \A e \in Clients \ {c} : call'[e] = call[e]
<1>1. IdleCall.op = "idle" /\ IdleCall.for = "keys"
  BY DEF IdleCall
<1> QED BY <1>1, FrameKept DEF Return

\* A call that goes on sends its next command.
LEMMA GotoFrame ==
    ASSUME CallsInv, NEW c \in Clients, NEW op, Goto(c, op)
    PROVE  /\ CallsInv'
           /\ call'[c].op = op
           /\ \A e \in Clients \ {c} : call'[e] = call[e]
<1> DEFINE frame == [call[c] EXCEPT !.op = op]
<1>1. call' = [call EXCEPT ![c] = frame]
  BY DEF Goto
<1>2. DOMAIN frame = DOMAIN IdleCall /\ frame.for = call[c].for /\ frame.op = op
  BY DEF CallsInv, IdleCall
<1>3. frame.for \in {"keys", "fetch", "delete"}
  BY <1>2 DEF CallsInv
<1> HIDE DEF frame
<1> QED BY <1>1, <1>2, <1>3, FrameKept

\* Steps of a call that send no command, or whose command fails.
LEMMA SilentQuiet ==
    ASSUME Inv, NEW c \in Clients, CallsInv',
           UNCHANGED <<db, now, hits, erased>>,
           failures' = failures \/ Fails,
           issued' = issued \/ Starts(c) \/ StartsUnchecked(c),
           call[c].op # "expire", call'[c].op # "window",
           \A e \in Clients \ {c} : call'[e] = call[e]
    PROVE  Quiet(c)
<1>1. failures' \in Nat /\ failures' >= failures /\ issued' \in Nat /\ issued' >= issued
  BY DEF Inv, CounterInv, WindowInv, Fails, Starts, StartsUnchecked
<1>2. \A n : Same(db, db', n) /\ Fewer(db, db', n)
  BY DEF Same, Fewer
<1> QED BY <1>1, <1>2 DEF Quiet, CounterQuiet, WindowQuiet

\* The list's methods.
LEMMA ListQuiet ==
    ASSUME Inv, NEW c \in Clients,
           AppendToSetPipelined(c) \/ CheckExp(c) \/ SetListExp(c) \/ GetAndDeleteSet(c)
    PROVE  Quiet(c)
<1> DEFINE n == fixKey(c, "list")
<1>1. n # Counter /\ n # Window
  BY OtherNames
<1>2. \A v, e : /\ Same(db, RPush(db, n, v), Counter) /\ Same(db, RPush(db, n, v), Window)
                /\ Same(db, Expire(db, n, e), Counter) /\ Same(db, Expire(db, n, e), Window)
                /\ Same(db, Del(db, {n}), Counter) /\ Same(db, Del(db, {n}), Window)
  BY <1>1, CommandsElsewhere, DelEffect
<1>3. CallsInv
  BY DEF Inv
<1>4. CASE AppendToSetPipelined(c)
  <2>1. PICK v : Sends(RPush(db, n, v))
    BY <1>4 DEF AppendToSetPipelined
  <2>2. /\ Starts(c) /\ Goto(c, "getexp") /\ UNCHANGED <<now, hits, erased>>
    BY <1>4 DEF AppendToSetPipelined, Rest
  <2>3. CallsInv' /\ call'[c].op = "getexp" /\ \A e \in Clients \ {c} : call'[e] = call[e]
    BY <1>3, <2>2, GotoFrame
  <2> HIDE DEF n
  <2> QED BY <1>2, <2>1, <2>2, <2>3, CommandAwayFromCounter, CommandAwayFromWindow, SameIsFewer DEF Quiet
<1>5. CASE CheckExp(c)
  <2>1. /\ Goto(c, "setexp") \/ Return(c)
        /\ call[c].op = "getexp" /\ UNCHANGED <<db, now, hits, erased, failures, issued>>
    BY <1>5 DEF CheckExp, Rest
  <2>2. CallsInv' /\ call'[c].op # "window" /\ \A e \in Clients \ {c} : call'[e] = call[e]
    BY <1>3, <2>1, ReturnFrame, GotoFrame
  <2> QED BY <2>1, <2>2, SilentQuiet
<1>6. CASE SetListExp(c)
  <2>1. /\ Return(c) /\ call[c].op = "setexp" /\ UNCHANGED <<now, hits, erased, issued>>
        /\ \/ \E seconds : Sends(ExpireIn(db, n, now, seconds))
           \/ UNCHANGED <<db, failures>>
    BY <1>6 DEF SetListExp, Rest
  <2>2. CallsInv' /\ call'[c].op # "window" /\ \A e \in Clients \ {c} : call'[e] = call[e]
    BY <1>3, <2>1, ReturnFrame, GotoFrame
  <2> HIDE DEF n
  <2>3. /\ failures' \in Nat /\ failures' >= failures
        /\ db' = db \/ db' = Del(db, {n}) \/ \E e : db' = Expire(db, n, e)
    BY <2>1, SendsEffect DEF Inv, CounterInv, ExpireIn
  <2>4. Same(db, db', Counter) /\ Same(db, db', Window)
    BY <2>3, <1>2 DEF Same
  <2>5. issued \in Nat
    BY DEF Inv, WindowInv
  <2> QED BY <2>1, <2>2, <2>3, <2>4, <2>5, SameIsFewer DEF Quiet, CounterQuiet, WindowQuiet
<1>7. CASE GetAndDeleteSet(c)
  <2>1. /\ Starts(c) /\ Sends(Del(db, {n})) /\ UNCHANGED <<now, call, hits, erased>>
    BY <1>7 DEF GetAndDeleteSet
  <2>2. CallsInv' /\ call'[c].op # "window"
    BY <1>3, <2>1 DEF CallsInv, Starts
  <2> HIDE DEF n
  <2> QED BY <1>2, <2>1, <2>2, CommandAwayFromCounter, CommandAwayFromWindow, SameIsFewer DEF Quiet
<1> QED BY <1>4, <1>5, <1>6, <1>7

\* Reading changes nothing.
LEMMA ReadQuiet ==
    ASSUME Inv, NEW c \in Clients, Read(c) \/ ReadUnchecked(c)
    PROVE  Quiet(c)
<1>1. /\ Starts(c) \/ StartsUnchecked(c)
      /\ UNCHANGED <<db, now, call, hits, erased, failures>>
  BY DEF Read, ReadUnchecked, Answers, Rest
<1>2. call[c].op = "idle" /\ CallsInv'
  BY <1>1 DEF Starts, StartsUnchecked, Inv, CallsInv
<1> QED BY <1>1, <1>2, SilentQuiet

\* The scans, whose goroutines share their variables.
LEMMA ScanQuiet ==
    ASSUME Inv, NEW c \in Clients,
           \/ \E filter : GetKeys(c, filter) \/ GetKeysAndValuesWithFilter(c, filter)
           \/ DeleteScanMatch(c)
           \/ \E m : ScanMaster(c, m) \/ SendNames(c, m)
           \/ ScanEnds(c) \/ AnswerKeys(c) \/ FetchValues(c)
    PROVE  Quiet(c)
<1>1. CallsInv
  BY DEF Inv
<1>2. CASE (\E filter : GetKeys(c, filter) \/ GetKeysAndValuesWithFilter(c, filter)) \/ DeleteScanMatch(c)
  <2>1. \E for \in {"keys", "fetch", "delete"} : \E filter : Scan(c, for, filter)
    BY <1>2 DEF GetKeys, GetKeysAndValuesWithFilter, DeleteScanMatch
  <2>2. PICK for \in {"keys", "fetch", "delete"} : \E filter : Scan(c, for, filter)
    BY <2>1
  <2>3. PICK filter : Scan(c, for, filter)
    BY <2>2
  <2> DEFINE frame ==
               [IdleCall EXCEPT !.op = "scan", !.for = for, !.filter = filter, !.todo = Masters]
  <2>4. /\ Starts(c) /\ call' = [call EXCEPT ![c] = frame]
        /\ UNCHANGED <<db, now, hits, erased, failures>>
    BY <2>3 DEF Scan, Begins, Rest
  <2>5. DOMAIN frame = DOMAIN IdleCall /\ frame.for = for /\ frame.op = "scan"
    BY DEF IdleCall
  <2> HIDE DEF frame
  <2>6. CallsInv' /\ call'[c].op = "scan" /\ \A e \in Clients \ {c} : call'[e] = call[e]
    BY <1>1, <2>4, <2>5, FrameKept
  <2>7. call[c].op # "expire"
    BY <2>4 DEF Starts
  <2> QED BY <2>4, <2>6, <2>7, SilentQuiet
<1>3. CASE \E m : ScanMaster(c, m) \/ SendNames(c, m)
  <2>1. PICK frame : /\ call' = [call EXCEPT ![c] = frame]
                     /\ DOMAIN frame = DOMAIN call[c]
                     /\ frame.op = call[c].op /\ frame.for = call[c].for
    <3>1. PICK m : ScanMaster(c, m) \/ SendNames(c, m)
      BY <1>3
    <3>2. DOMAIN call[c] = DOMAIN IdleCall
      BY <1>1 DEF CallsInv
    <3>3. CASE SendNames(c, m)
      <4> WITNESS [call[c] EXCEPT !.ready = @ \ {m}, !.names = @ \cup call[c].shared]
      <4> QED BY <3>2, <3>3 DEF SendNames, IdleCall
    <3>4. CASE ScanMaster(c, m)
      <4>1. CASE call' = [call EXCEPT ![c].todo = @ \ {m}, ![c].ready = @ \cup {m},
                ![c].shared = {n \in OnMaster(m) : Matches(c, call[c].filter, n)}]
        <5> WITNESS [call[c] EXCEPT !.todo = @ \ {m}, !.ready = @ \cup {m},
                       !.shared = {n \in OnMaster(m) : Matches(c, call[c].filter, n)}]
        <5> QED BY <4>1, <3>2 DEF IdleCall
      <4>2. CASE call' = [call EXCEPT ![c].todo = @ \ {m}, ![c].shared = {}, ![c].err = TRUE]
        <5> WITNESS [call[c] EXCEPT !.todo = @ \ {m}, !.shared = {}, !.err = TRUE]
        <5> QED BY <4>2, <3>2 DEF IdleCall
      <4>3. CASE call' = [call EXCEPT ![c].todo = @ \ {m}, ![c].shared = {}, ![c].ready = @ \cup {m}]
        <5> WITNESS [call[c] EXCEPT !.todo = @ \ {m}, !.shared = {}, !.ready = @ \cup {m}]
        <5> QED BY <4>3, <3>2 DEF IdleCall
      <4> QED BY <3>4, <4>1, <4>2, <4>3 DEF ScanMaster
    <3> QED BY <3>1, <3>3, <3>4
  <2>2. /\ call[c].op = "scan" /\ UNCHANGED <<db, now, hits, erased, issued>>
        /\ failures' = failures \/ Fails
    BY <1>3 DEF ScanMaster, SendNames, Rest
  <2>3. CallsInv' /\ call'[c].op = "scan" /\ \A e \in Clients \ {c} : call'[e] = call[e]
    <3>1. DOMAIN frame = DOMAIN IdleCall /\ frame.for \in {"keys", "fetch", "delete"}
      BY <1>1, <2>1 DEF CallsInv
    <3> QED BY <1>1, <2>1, <2>2, <3>1, FrameKept
  <2> QED BY <2>2, <2>3, SilentQuiet
<1>4. CASE ScanEnds(c) \/ AnswerKeys(c) \/ FetchValues(c)
  <2>1. /\ call[c].op \in {"scan", "keys", "fetch"}
        /\ Return(c) \/ Goto(c, call[c].for)
        /\ UNCHANGED <<db, now, hits, erased, issued>>
        /\ failures' = failures \/ Fails
    BY <1>4 DEF ScanEnds, AnswerKeys, FetchValues, Rest
  <2>2. CallsInv' /\ call'[c].op # "window" /\ \A e \in Clients \ {c} : call'[e] = call[e]
    <3>1. call[c].for # "window"
      BY <1>1 DEF CallsInv
    <3> QED BY <1>1, <2>1, <3>1, ReturnFrame, GotoFrame
  <2> QED BY <2>1, <2>2, SilentQuiet
<1> QED BY <1>2, <1>3, <1>4

\* One DEL of the names a scan has found.
LEMMA DeleteScannedQuiet ==
    ASSUME Inv, NEW c \in Clients, NEW n, DeleteScanned(c, n)
    PROVE  Quiet(c)
<1>1. /\ call[c].op = "delete" /\ Sends(Del(db, {n}))
      /\ erased' = (erased \/ n = Window)
      /\ UNCHANGED <<now, hits, issued>>
      /\ Return(c) \/ call' = [call EXCEPT ![c].names = @ \ {n}]
  BY DEF DeleteScanned, Window
<1>2. CallsInv' /\ call'[c].op # "window" /\ \A e \in Clients \ {c} : call'[e] = call[e]
  <2>1. CallsInv
    BY DEF Inv
  <2>2. ASSUME call' = [call EXCEPT ![c].names = @ \ {n}]
        PROVE  CallsInv' /\ call'[c].op # "window" /\ \A e \in Clients \ {c} : call'[e] = call[e]
    <3> DEFINE frame == [call[c] EXCEPT !.names = @ \ {n}]
    <3>1. /\ DOMAIN frame = DOMAIN IdleCall /\ frame.op = call[c].op
          /\ frame.for \in {"keys", "fetch", "delete"}
      BY <2>1 DEF CallsInv, IdleCall
    <3>2. call' = [call EXCEPT ![c] = frame]
      BY <2>2
    <3> HIDE DEF frame
    <3> QED BY <1>1, <2>1, <3>1, <3>2, FrameKept
  <2> QED BY <1>1, <2>1, <2>2, ReturnFrame
<1>3. /\ failures' \in Nat /\ failures' >= failures
      /\ db' = db \/ db' = Del(db, {n})
  BY <1>1, SendsEffect DEF Inv, CounterInv
<1>4. /\ Fewer(db, db', Counter) /\ Fewer(db, db', Window)
      /\ n # Window => Same(db, db', Window)
  BY <1>3, DelEffect DEF Same, Fewer
<1>5. issued \in Nat
  BY DEF Inv, WindowInv
<1>6. (erased => erased') /\ (~erased' => n # Window)
  BY <1>1
<1>7. CounterQuiet(c)
  BY <1>1, <1>2, <1>3, <1>4 DEF CounterQuiet
<1>8. issued' \in Nat /\ issued' >= issued
  BY <1>1, <1>5
<1>9. WindowQuiet(c)
  BY <1>1, <1>2, <1>4, <1>6, <1>8 DEF WindowQuiet
<1> QED BY <1>2, <1>7, <1>9 DEF Quiet

-------------------------------------------------------------------------------
(* Methods of the counter *)

\* INCR and DECR change the number and keep the expiry.
LEMMA CounterChange ==
    ASSUME CounterInv, NEW by \in Int
    PROVE  LET d == Incr(db, Counter, by) IN
           /\ Stored(d, Counter) /\ Entry(d[Counter])
           /\ d[Counter].val \in Int
           /\ Stored(db, Counter) => /\ d[Counter].val = db[Counter].val + by
                                     /\ d[Counter].exp = db[Counter].exp
           /\ ~Stored(db, Counter) => d[Counter].val = by
           /\ Same(db, d, Window)
<1> DEFINE d == Incr(db, Counter, by)
           val == Content(db, Counter, "int") + by
<1>1. d = Change(db, Counter, "int", val)
  BY DEF Incr
<1>2. /\ Stored(db, Counter) => val = db[Counter].val + by
      /\ ~Stored(db, Counter) => val = by
      /\ val \in Int
  BY DEF Content, CounterInv, Empty
<1> HIDE DEF d, val
<1>3. /\ Stored(d, Counter) /\ Entry(d[Counter]) /\ d[Counter].val = val
      /\ d[Counter].exp = IF Stored(db, Counter) THEN db[Counter].exp ELSE Never
  BY <1>1, ChangeEffect
<1>4. Same(db, d, Window)
  <2>1. Window # Counter
    BY OtherNames
  <2> QED BY <1>1, <2>1, ChangeEffect
<1> QED BY <1>2, <1>3, <1>4 DEF d

\* A counter that a decrement leaves above zero was above zero.
LEMMA DecrementInv ==
    ASSUME Inv, NEW c \in Clients, Decrement(c)
    PROVE  Inv'
<1> DEFINE d == Incr(db, Counter, -1)
<1>1. \/ fixKey(c, "counter") # Counter
      \/ fixKey(c, "counter") = Counter /\ OneCommand(c, d)
  BY DEF Decrement
<1>2. CASE fixKey(c, "counter") # Counter
  <2> DEFINE n == fixKey(c, "counter")
  <2>1. n # Window
    BY OtherNames
  <2>2. OneCommand(c, Incr(db, n, -1))
    BY DEF Decrement
  <2> HIDE DEF n
  <2>3. Same(db, Incr(db, n, -1), Counter) /\ Same(db, Incr(db, n, -1), Window)
    BY <1>2, <2>1, CommandsElsewhere DEF n
  <2>4. Quiet(c)
    BY <2>2, <2>3, OneCommandQuiet, SameIsFewer DEF Quiet
  <2> QED BY <2>4, QuietInv
<1>3. CASE OneCommand(c, d)
  <2>1. /\ Sends(d) /\ call' = call /\ now' = now
    BY <1>3 DEF OneCommand
  <2>2. CounterInv /\ CallsInv /\ WindowInv
    BY DEF Inv
  <2>3. /\ Stored(d, Counter) /\ Entry(d[Counter]) /\ d[Counter].val \in Int
        /\ Stored(db, Counter) => /\ d[Counter].val = db[Counter].val - 1
                                  /\ d[Counter].exp = db[Counter].exp
        /\ ~Stored(db, Counter) => d[Counter].val = -1
        /\ Same(db, d, Window)
    <3> DEFINE by == -1
    <3>1. by \in Int /\ d = Incr(db, Counter, by)
      OBVIOUS
    <3> HIDE DEF d, by
    <3>2. /\ Stored(d, Counter) /\ Entry(d[Counter]) /\ d[Counter].val \in Int
          /\ Stored(db, Counter) => /\ d[Counter].val = db[Counter].val + by
                                    /\ d[Counter].exp = db[Counter].exp
          /\ ~Stored(db, Counter) => d[Counter].val = by
          /\ Same(db, d, Window)
      BY <2>2, <3>1, CounterChange
    <3>3. \A x \in Int : x + by = x - 1
      BY DEF by
    <3> QED BY <2>2, <3>2, <3>3 DEF by, CounterInv
  <2> HIDE DEF d
  <2>4. failures' \in Nat /\ failures' >= failures /\ (db' = d \/ db' = db)
    BY <2>1, <2>2, SendsEffect DEF CounterInv
  <2>5. CounterInv'
    BY <2>1, <2>2, <2>3, <2>4 DEF CounterInv, CounterHasDeadline, Counter
  <2>6. CallsInv' /\ WindowQuiet(c)
    BY <1>3, <2>3, OneCommandQuiet
  <2> QED BY <2>2, <2>5, <2>6, WindowQuietInv DEF Inv
<1> QED BY <1>1, <1>2, <1>3

\* A key that gets an expiry has one.
LEMMA SetExpInv ==
    ASSUME Inv, NEW c \in Clients, NEW k, k # "window", SetExp(c, k)
    PROVE  Inv'
<1> DEFINE n == fixKey(c, k)
           d == Expire(db, n, now + Ttl)
<1>1. OneCommand(c, d)
  BY DEF SetExp
<1>2. CounterInv /\ CallsInv /\ WindowInv
  BY DEF Inv
<1>3. Same(db, d, Window)
  <2>1. n # Window
    BY OtherNames
  <2> QED BY <2>1, CommandsElsewhere
<1>4. CASE n # Counter
  <2>1. Same(db, d, Counter)
    BY <1>4, CommandsElsewhere
  <2> HIDE DEF d
  <2>2. Quiet(c)
    BY <1>1, <1>3, <2>1, OneCommandQuiet, SameIsFewer DEF Quiet
  <2> QED BY <2>2, QuietInv
<1>5. CASE n = Counter
  <2>1. now + Ttl # Never
    BY <1>2, StorageAssumption DEF CounterInv, Never
  <2>2. /\ Stored(d, Counter) <=> Stored(db, Counter)
        /\ Stored(db, Counter) => /\ Entry(d[Counter]) /\ d[Counter].val = db[Counter].val
                                  /\ d[Counter].exp = now + Ttl
    BY <1>2, <1>5, ExpireEffect DEF CounterInv
  <2> HIDE DEF d
  <2>3. Sends(d) /\ call' = call /\ now' = now
    BY <1>1 DEF OneCommand
  <2>4. failures' \in Nat /\ failures' >= failures /\ (db' = d \/ db' = db)
    BY <2>3, <1>2, SendsEffect DEF CounterInv
  <2>5. CounterInv'
    BY <2>1, <2>2, <2>3, <2>4, <1>2 DEF CounterInv, CounterHasDeadline, Counter
  <2>6. CallsInv' /\ WindowQuiet(c)
    BY <1>1, <1>3, OneCommandQuiet
  <2> QED BY <1>2, <2>5, <2>6, WindowQuietInv DEF Inv
<1> QED BY <1>4, <1>5

\* An increment that makes a counter 1 is followed by an EXPIRE; one that makes it
\* more finds it above zero already.
LEMMA IncrementInv ==
    ASSUME Inv, NEW c \in Clients, IncrememntWithExpire(c)
    PROVE  Inv'
<1> DEFINE d == Incr(db, Counter, 1)
<1>1. /\ Starts(c) /\ Sends(d) /\ UNCHANGED <<now, hits, erased>>
      /\ IF failures' = failures /\ Content(db', Counter, "int") = 1
         THEN Goto(c, "expire") ELSE UNCHANGED call
  BY DEF IncrememntWithExpire, Rest, Counter
<1>2. CounterInv /\ CallsInv /\ WindowInv
  BY DEF Inv
<1>3. /\ Stored(d, Counter) /\ Entry(d[Counter]) /\ d[Counter].val \in Int
      /\ Stored(db, Counter) => /\ d[Counter].val = db[Counter].val + 1
                                /\ d[Counter].exp = db[Counter].exp
      /\ ~Stored(db, Counter) => d[Counter].val = 1
      /\ Same(db, d, Window)
  BY <1>2, CounterChange
<1> HIDE DEF d
<1>4. /\ failures' \in Nat /\ failures' >= failures
      /\ db' = d \/ db' = db
      /\ failures' = failures => db' = d
  BY <1>1, <1>2, SendsEffect DEF CounterInv
<1>5. /\ CallsInv' /\ call'[c].op \in {"idle", "expire"}
      /\ \A e \in Clients \ {c} : call'[e] = call[e]
  <2>1. CASE Goto(c, "expire")
    BY <1>2, <2>1, GotoFrame
  <2>2. CASE UNCHANGED call
    BY <1>1, <1>2, <2>2 DEF Starts, CallsInv
  <2> QED BY <1>1, <2>1, <2>2
<1>6. WindowQuiet(c)
  BY <1>1, <1>3, <1>5, CommandAwayFromWindow, SameIsFewer
<1>7. CounterInv'
  <2>1. CASE failures' # failures
    BY <1>1, <1>2, <1>3, <1>4, <2>1 DEF CounterInv, CounterHasDeadline, Counter
  <2>2. CASE failures' = failures /\ d[Counter].val = 1
    <3>1. db' = d
      BY <1>4, <2>2
    <3>2. Content(db', Counter, "int") = 1
      BY <1>3, <2>2, <3>1 DEF Content
    <3>3. call'[c].op = "expire"
      BY <1>1, <1>2, <2>2, <3>2, GotoFrame
    <3> QED BY <1>1, <1>2, <1>3, <1>4, <3>1, <3>3 DEF CounterInv, CounterHasDeadline, Counter
  <2>3. CASE failures' = failures /\ d[Counter].val # 1
    <3>1. db' = d
      BY <1>4, <2>3
    <3>2. Content(db', Counter, "int") # 1
      BY <1>3, <2>3, <3>1 DEF Content
    <3>3. call' = call
      BY <1>1, <3>2
    <3>4. d[Counter].val > 0 => Stored(db, Counter) /\ db[Counter].val > 0
      BY <1>2, <1>3, <2>3 DEF CounterInv
    <3> QED BY <1>1, <1>2, <1>3, <1>4, <3>1, <3>3, <3>4 DEF CounterInv, CounterHasDeadline, Counter
  <2> QED BY <2>1, <2>2, <2>3
<1> QED BY <1>2, <1>5, <1>6, <1>7, WindowQuietInv DEF Inv

\* The EXPIRE of a call gives whatever counter there is its deadline, or fails.
LEMMA ExpireCounterInv ==
    ASSUME Inv, NEW c \in Clients, ExpireCounter(c)
    PROVE  Inv'
<1> DEFINE d == Expire(db, Counter, now + Ttl)
<1>1. /\ call[c].op = "expire" /\ Sends(d) /\ Return(c)
      /\ UNCHANGED <<now, hits, erased, issued>>
  BY DEF ExpireCounter, Rest, Counter
<1>2. CounterInv /\ CallsInv /\ WindowInv
  BY DEF Inv
<1>3. now + Ttl # Never
  BY <1>2, StorageAssumption DEF CounterInv, Never
<1>4. /\ Stored(d, Counter) <=> Stored(db, Counter)
      /\ Stored(db, Counter) => /\ Entry(d[Counter]) /\ d[Counter].val = db[Counter].val
                                /\ d[Counter].exp = now + Ttl
      /\ Same(db, d, Window)
  <2>1. Window # Counter
    BY OtherNames
  <2> QED BY <1>2, <2>1, ExpireEffect DEF CounterInv
<1> HIDE DEF d
<1>5. /\ failures' \in Nat /\ failures' >= failures
      /\ db' = d \/ db' = db
      /\ failures' = failures => db' = d
  BY <1>1, <1>2, SendsEffect DEF CounterInv
<1>6. /\ CallsInv' /\ call'[c].op = "idle" /\ \A e \in Clients \ {c} : call'[e] = call[e]
  BY <1>1, <1>2, ReturnFrame
<1>7. CounterInv'
  <2>1. CASE failures' # failures
    BY <1>1, <1>2, <1>4, <1>5, <2>1 DEF CounterInv, CounterHasDeadline, Counter
  <2>2. CASE failures' = failures
    <3>1. db' = d
      BY <1>5, <2>2
    <3> QED BY <1>1, <1>2, <1>3, <1>4, <1>5, <3>1 DEF CounterInv, CounterHasDeadline, Counter
  <2> QED BY <2>1, <2>2
<1>8. WindowQuiet(c)
  <2>1. Same(db, db', Window)
    BY <1>4, <1>5 DEF Same
  <2>2. issued \in Nat
    BY <1>2 DEF WindowInv
  <2> QED BY <1>1, <1>6, <2>1, <2>2, SameIsFewer DEF WindowQuiet
<1> QED BY <1>2, <1>6, <1>7, <1>8, WindowQuietInv DEF Inv

-------------------------------------------------------------------------------
(* Methods of the window *)

\* What a command of a call about the window leaves of the hits of others whose
\* period is not over.
LEMMA WindowCommandKeeps ==
    ASSUME Inv, NEW c \in Clients, Windowing(c), NEW d, NEW cmd \in {"zrem", "zrange", "zadd", "expire"},
           Stored(d, Window) => Entry(d[Window])
    PROVE  LET e == WindowCommand(c, d, cmd) IN
           /\ Stored(e, Window) => Entry(e[Window])
           /\ Same(d, e, Counter)
           /\ \A h \in hits : h.at + Ttl > now /\ Kept(d, h) => Kept(e, h)
<1> DEFINE e == WindowCommand(c, d, cmd)
           content == Content(d, Window, "zset")
<1>1. /\ now \in Nat /\ Ttl \in Nat
      /\ call[c].from \in 0 .. now
      /\ \A h \in hits : h.at \in 0 .. now /\ h.member # call[c].value
  BY StorageAssumption DEF Inv, WindowInv
<1>2. Window # Counter
  BY OtherNames
<1>3. CASE cmd \in {"zrem", "zadd"}
  <2>1. PICK val : /\ e = Change(d, Window, "zset", val)
                   /\ \A h \in hits : h.at + Ttl > now /\ Kept(d, h)
                                        => [member |-> h.member, score |-> h.at] \in val
    <3>1. CASE cmd = "zrem"
      <4> DEFINE val == {x \in content : x.score > call[c].from - Ttl}
      <4>1. e = Change(d, Window, "zset", val)
        BY <3>1 DEF WindowCommand, ZRemUpTo, onePeriodAgo, Window
      <4>2. ASSUME NEW h \in hits, h.at + Ttl > now, Kept(d, h)
            PROVE  [member |-> h.member, score |-> h.at] \in val
        BY <1>1, <4>2 DEF Kept, Content
      <4> QED BY <4>1, <4>2
    <3>2. CASE cmd = "zadd"
      <4> DEFINE m == [member |-> call[c].value, score |-> call[c].from]
                 val == {x \in content : x.member # m.member} \cup {m}
      <4>1. e = Change(d, Window, "zset", val)
        BY <3>2 DEF WindowCommand, ZAdd, Window
      <4>2. ASSUME NEW h \in hits, Kept(d, h)
            PROVE  [member |-> h.member, score |-> h.at] \in val
        BY <1>1, <4>2 DEF Kept, Content
      <4> QED BY <4>1, <4>2
    <3> QED BY <1>3, <3>1, <3>2
  <2> HIDE DEF e
  <2>2. /\ Same(d, e, Counter)
        /\ Stored(e, Window) => Entry(e[Window])
        /\ val # Empty["zset"] => /\ Stored(e, Window) /\ Entry(e[Window]) /\ e[Window].val = val
                                  /\ e[Window].exp = IF Stored(d, Window) THEN d[Window].exp ELSE Never
    BY <1>2, <2>1, ChangeEffect
  <2>3. ASSUME NEW h \in hits, h.at + Ttl > now, Kept(d, h)
        PROVE  Kept(e, h)
    <3>1. val # Empty["zset"]
      BY <2>1, <2>3 DEF Empty
    <3> QED BY <2>1, <2>2, <2>3, <3>1 DEF Kept
  <2> QED BY <2>2, <2>3 DEF e
<1>4. CASE cmd = "zrange"
  BY <1>4 DEF WindowCommand, Same
<1>5. CASE cmd = "expire"
  <2>1. e = Expire(d, Window, now + Ttl)
    BY <1>5 DEF WindowCommand, Window
  <2> HIDE DEF e
  <2>2. /\ Same(d, e, Counter)
        /\ Stored(e, Window) <=> Stored(d, Window)
        /\ Stored(d, Window) => Entry(e[Window]) /\ e[Window].val = d[Window].val
                                /\ e[Window].exp = now + Ttl
    BY <1>2, <2>1, ExpireEffect
  <2>3. ASSUME NEW h \in hits, Kept(d, h)
        PROVE  Kept(e, h)
    BY <1>1, <2>2, <2>3 DEF Kept
  <2> QED BY <2>2, <2>3 DEF e
<1> QED BY <1>3, <1>4, <1>5

\* A call about the window takes its time, and numbers its member afresh unless it
\* is the caller's own or it adds none.
LEMMA BeginsWindowInv ==
    ASSUME Inv, NEW c \in Clients, NEW frame, Starts(c), Begins(c, frame),
           UNCHANGED <<db, now, hits, erased, failures>>,
           DOMAIN frame = DOMAIN IdleCall, frame.for = "keys",
           frame.op = "window", frame.from = now,
           \/ frame.pipe = Adding /\ frame.value.n \in {1, issued + 1}
           \/ frame.pipe = Looking /\ frame.value.n = 0
    PROVE  Inv'
<1>1. CounterInv /\ CallsInv /\ WindowInv
  BY DEF Inv
<1>2. /\ call[c].op = "idle" /\ issued' = issued + 1 /\ now \in Nat /\ issued \in Nat
  BY <1>1 DEF Starts, WindowInv
<1>3. CallsInv' /\ call'[c] = frame /\ \A e \in Clients \ {c} : call'[e] = call[e]
  BY <1>1, FrameKept DEF Begins
<1>4. CounterInv'
  BY <1>1, <1>2, <1>3 DEF CounterInv, CounterHasDeadline
<1>5. Adding \in Seq({"zrem", "zrange", "zadd", "expire"}) /\ Looking \in Seq({"zrem", "zrange", "zadd", "expire"})
      /\ Adding # <<>> /\ Looking # <<>>
  BY DEF Adding, Looking
<1>6. ASSUME NEW h \in hits'
      PROVE  /\ h.at \in 0 .. now'
             /\ h.member.n \in 2 .. issued'
             /\ ~erased' /\ h.at + Ttl > now' => Kept(db', h)
  BY <1>1, <1>2, <1>6 DEF WindowInv
<1>7. ASSUME NEW d \in Clients, Windowing(d)'
      PROVE  /\ call'[d].from \in 0 .. now'
             /\ call'[d].value.n \in 0 .. issued'
             /\ call'[d].pipe \in Seq({"zrem", "zrange", "zadd", "expire"})
             /\ call'[d].pipe # <<>>
             /\ call'[d].tx => call'[d].pipe = Adding \/ (call'[d].pipe = Looking /\ call'[d].value.n = 0)
             /\ \A h \in hits' : call'[d].value.n # h.member.n
  <2>1. CASE d = c
    <3>1. call'[d].value.n \in {0, 1, issued + 1}
      BY <1>3, <2>1
    <3>2. \A h \in hits' : h.member.n \in 2 .. issued
      BY <1>1 DEF WindowInv
    <3> QED BY <1>2, <1>3, <1>5, <2>1, <3>1, <3>2
  <2>2. CASE d # c
    <3>1. call'[d] = call[d] /\ Windowing(d)
      BY <1>3, <1>7, <2>2 DEF Windowing
    <3> QED BY <1>1, <1>2, <3>1 DEF WindowInv
  <2> QED BY <2>1, <2>2
<1>8. ASSUME NEW d \in Clients, Windowing(d)', NEW e \in Clients, e # d, Windowing(e)', call'[d].value.n > 1
      PROVE  call'[d].value.n # call'[e].value.n
  <2>1. \A b \in Clients \ {c} : Windowing(b)' => /\ call'[b] = call[b] /\ Windowing(b)
                                                  /\ call'[b].value.n \in 0 .. issued
    BY <1>1, <1>3 DEF Windowing, WindowInv
  <2>2. call'[c].value.n \in {0, 1, issued + 1}
    BY <1>3
  <2>3. CASE d = c
    BY <1>2, <1>8, <2>1, <2>2, <2>3
  <2>4. CASE e = c
    BY <1>2, <1>8, <2>1, <2>2, <2>4
  <2>5. CASE d # c /\ e # c
    BY <1>1, <1>8, <2>1, <2>5 DEF WindowInv
  <2> QED BY <2>3, <2>4, <2>5
<1>9. WindowInv'
  <2>1. now' \in Nat /\ issued' \in Nat /\ (Stored(db, Window) => Entry(db[Window]))'
    BY <1>1, <1>2 DEF WindowInv, Stored
  <2> QED BY <2>1, <1>6, <1>7, <1>8 DEF WindowInv, Windowing, Kept
<1> QED BY <1>3, <1>4, <1>9 DEF Inv

\* Both methods of the window start so: to add a member, or to look.
LEMMA RollingWindowInv ==
    ASSUME Inv, NEW c \in Clients, NEW own, NEW tx,
           SetRollingWindow(c, own, tx) \/ GetRollingWindow(c, tx)
    PROVE  Inv'
<1>1. CASE SetRollingWindow(c, own, tx)
  <2> DEFINE frame == [IdleCall EXCEPT !.op = "window", !.from = now, !.tx = tx,
                         !.pipe = <<"zrem", "zrange", "zadd", "expire">>,
                         !.value = [of |-> Raw("window"), n |-> IF own THEN 1 ELSE issued + 1]]
  <2>1. /\ Starts(c) /\ Begins(c, frame) /\ UNCHANGED <<db, now, hits, erased, failures>>
    BY <1>1 DEF SetRollingWindow, Rest
  <2>2. /\ DOMAIN frame = DOMAIN IdleCall /\ frame.for = "keys"
        /\ frame.op = "window" /\ frame.from = now
        /\ frame.pipe = Adding /\ frame.value.n \in {1, issued + 1}
    BY DEF IdleCall, Adding
  <2> HIDE DEF frame
  <2> QED BY <2>1, <2>2, BeginsWindowInv
<1>2. CASE GetRollingWindow(c, tx)
  <2> DEFINE frame == [IdleCall EXCEPT !.op = "window", !.from = now, !.tx = tx,
                         !.pipe = <<"zrem", "zrange">>]
  <2>1. /\ Starts(c) /\ Begins(c, frame) /\ UNCHANGED <<db, now, hits, erased, failures>>
    BY <1>2 DEF GetRollingWindow, Rest
  <2>2. /\ DOMAIN frame = DOMAIN IdleCall /\ frame.for = "keys"
        /\ frame.op = "window" /\ frame.from = now
        /\ frame.pipe = Looking /\ frame.value.n = 0
    BY DEF IdleCall, Looking, NoValue
  <2> HIDE DEF frame
  <2> QED BY <2>1, <2>2, BeginsWindowInv
<1> QED BY <1>1, <1>2

\* A step of a call about the window that keeps the hits there are: it may add one
\* hit of its own, it loses its member when it returns, and its pipeline gets shorter.
LEMMA WindowStepInv ==
    ASSUME Inv, NEW c \in Clients, Windowing(c), CallsInv', UNCHANGED <<now, issued, erased>>,
           failures' \in Nat, failures' >= failures, Same(db, db', Counter),
           Stored(db', Window) => Entry(db'[Window]),
           \A h \in hits : h.at + Ttl > now /\ Kept(db, h) => Kept(db', h),
           \A e \in Clients \ {c} : call'[e] = call[e],
           \/ /\ ~Windowing(c)'
              /\ \/ hits' = hits
                 \/ LET hit == [member |-> call[c].value, at |-> call[c].from] IN
                    hits' = hits \cup {hit} /\ hit.member.n > 1 /\ Kept(db', hit)
           \/ /\ hits' = hits
              /\ call'[c].from = call[c].from /\ call'[c].value = call[c].value /\ ~call'[c].tx
              /\ call'[c].pipe \in Seq({"zrem", "zrange", "zadd", "expire"}) /\ call'[c].pipe # <<>>
    PROVE  Inv'
<1>1. CounterInv /\ CallsInv /\ WindowInv
  BY DEF Inv
<1>2. CounterInv'
  <2>1. call[c].op # "expire"
    BY DEF Windowing
  <2> QED BY <1>1, <2>1, SameIsFewer, CounterQuietInv DEF CounterQuiet
<1> DEFINE hit == [member |-> call[c].value, at |-> call[c].from]
<1>3. \A h \in hits' : h \in hits \/ (h = hit /\ hit.member.n > 1 /\ Kept(db', hit) /\ ~Windowing(c)')
  OBVIOUS
<1>4. hit.at \in 0 .. now /\ hit.member.n \in 0 .. issued /\ now \in Nat /\ issued \in Nat
  BY <1>1 DEF WindowInv
<1>5. ASSUME NEW h \in hits'
      PROVE  /\ h.at \in 0 .. now'
             /\ h.member.n \in 2 .. issued'
             /\ ~erased' /\ h.at + Ttl > now' => Kept(db', h)
  <2>1. CASE h \in hits
    BY <1>1, <2>1 DEF WindowInv
  <2>2. CASE h = hit /\ hit.member.n > 1 /\ Kept(db', hit)
    <3> HIDE DEF hit
    <3> QED BY <1>4, <2>2
  <2> QED BY <1>3, <2>1, <2>2
<1>6. ASSUME NEW d \in Clients, Windowing(d)'
      PROVE  /\ Windowing(d)
             /\ call'[d].from = call[d].from /\ call'[d].value = call[d].value
             /\ call'[d].pipe \in Seq({"zrem", "zrange", "zadd", "expire"}) /\ call'[d].pipe # <<>>
             /\ call'[d].tx => call'[d].pipe = Adding \/ (call'[d].pipe = Looking /\ call'[d].value.n = 0)
             /\ d = c => hits' = hits
  <2>1. CASE d = c
    BY <1>6, <2>1
  <2>2. CASE d # c
    <3>1. call'[d] = call[d]
      BY <2>2
    <3>2. Windowing(d)
      BY <1>6, <3>1 DEF Windowing
    <3> QED BY <1>1, <2>2, <3>1, <3>2 DEF WindowInv
  <2> QED BY <2>1, <2>2
<1>7. ASSUME NEW d \in Clients, Windowing(d)', NEW h \in hits'
      PROVE  call'[d].value.n # h.member.n
  <2>1. CASE h \in hits
    BY <1>1, <1>6, <1>7, <2>1 DEF WindowInv
  <2>2. CASE h = hit /\ hit.member.n > 1 /\ ~Windowing(c)'
    <3>1. d # c
      BY <1>7, <2>2
    <3> QED BY <1>1, <1>6, <1>7, <2>2, <3>1 DEF WindowInv
  <2> QED BY <1>3, <2>1, <2>2
<1>8. ASSUME NEW d \in Clients, Windowing(d)', NEW e \in Clients, e # d, Windowing(e)', call'[d].value.n > 1
      PROVE  call'[d].value.n # call'[e].value.n
  BY <1>1, <1>6, <1>8 DEF WindowInv
<1>9. WindowInv'
  <2>1. \A d \in Clients : Windowing(d)' => call'[d].from \in 0 .. now' /\ call'[d].value.n \in 0 .. issued'
    BY <1>1, <1>6 DEF WindowInv
  <2> HIDE DEF hit
  <2>2. now' \in Nat /\ issued' \in Nat /\ (Stored(db, Window) => Entry(db[Window]))'
    BY <1>4 DEF Stored
  <2> QED BY <1>5, <1>6, <1>7, <1>8, <2>1, <2>2 DEF WindowInv, Windowing, Kept
<1> QED BY <1>2, <1>9 DEF Inv

\* MULTI ... EXEC: the hit it adds is there when it is done, and expires no sooner
\* than its period ends.
LEMMA TransactionInv ==
    ASSUME Inv, NEW c \in Clients, Transaction(c)
    PROVE  Inv'
<1>1. /\ Windowing(c) /\ call[c].tx /\ Sends(Exec(c)) /\ Return(c)
      /\ UNCHANGED <<now, erased, issued>>
      /\ hits' = IF failures' = failures /\ call[c].value.n > 1
                 THEN hits \cup {[member |-> call[c].value, at |-> call[c].from]} ELSE hits
  BY DEF Transaction, Windowing
<1>2. CounterInv /\ CallsInv /\ WindowInv
  BY DEF Inv
<1>3. /\ now \in Nat /\ Ttl \in Nat
      /\ call[c].from \in 0 .. now
      /\ call[c].pipe = Adding \/ (call[c].pipe = Looking /\ call[c].value.n = 0)
  BY <1>1, <1>2, StorageAssumption DEF WindowInv
<1> DEFINE hit == [member |-> call[c].value, at |-> call[c].from]
           d1 == WindowCommand(c, db, "zrem")
           d2 == WindowCommand(c, d1, "zrange")
           d3 == WindowCommand(c, d2, "zadd")
           d4 == WindowCommand(c, d3, "expire")
           Good(d) == /\ Stored(d, Window) => Entry(d[Window])
                      /\ Same(db, d, Counter)
                      /\ \A h \in hits : h.at + Ttl > now /\ Kept(db, h) => Kept(d, h)
<1>4. Good(db)
  BY <1>2 DEF WindowInv, Same
<1>5. Exec(c) = IF call[c].pipe = Adding THEN d4 ELSE d2
  <2>1. CASE call[c].pipe = Adding
    <3>1. Len(call[c].pipe) = 4 /\ call[c].pipe[1] = "zrem" /\ call[c].pipe[2] = "zrange"
          /\ call[c].pipe[3] = "zadd" /\ call[c].pipe[4] = "expire"
      BY <2>1 DEF Adding
    <3> HIDE DEF d1, d2, d3, d4
    <3> QED BY <2>1, <3>1 DEF Exec, d1, d2, d3, d4
  <2>2. CASE call[c].pipe = Looking
    <3>1. Len(call[c].pipe) = 2 /\ call[c].pipe[1] = "zrem" /\ call[c].pipe[2] = "zrange" /\ Looking # Adding
      BY <2>2 DEF Looking, Adding
    <3> QED BY <2>2, <3>1 DEF Exec
  <2> QED BY <1>3, <2>1, <2>2
<1>6. \A d, cmd : Good(d) /\ cmd \in {"zrem", "zrange", "zadd", "expire"} => Good(WindowCommand(c, d, cmd))
  <2> SUFFICES ASSUME NEW d, NEW cmd \in {"zrem", "zrange", "zadd", "expire"}, Good(d)
               PROVE  Good(WindowCommand(c, d, cmd))
    OBVIOUS
  <2> DEFINE e == WindowCommand(c, d, cmd)
  <2>1. /\ Stored(e, Window) => Entry(e[Window])
        /\ Same(d, e, Counter)
        /\ \A h \in hits : h.at + Ttl > now /\ Kept(d, h) => Kept(e, h)
    BY <1>1, WindowCommandKeeps
  <2> HIDE DEF e
  <2>2. Same(db, e, Counter)
    BY <2>1 DEF Same
  <2>3. \A h \in hits : h.at + Ttl > now /\ Kept(db, h) => Kept(e, h)
    BY <2>1
  <2> QED BY <2>1, <2>2, <2>3 DEF e
<1>7. Good(d1) /\ Good(d2) /\ Good(d3) /\ Good(d4)
  <2> HIDE DEF Good
  <2>1. Good(d1)
    BY <1>4, <1>6
  <2>2. Good(d2)
    BY <1>6, <2>1
  <2>3. Good(d3)
    BY <1>6, <2>2
  <2>4. Good(d4)
    BY <1>6, <2>3
  <2> QED BY <2>1, <2>2, <2>3, <2>4
<1>8. Kept(d4, hit)
  <2> DEFINE m == [member |-> call[c].value, score |-> call[c].from]
             val == {x \in Content(d2, Window, "zset") : x.member # m.member} \cup {m}
  <2>1. d3 = Change(d2, Window, "zset", val)
    BY DEF WindowCommand, ZAdd, Window
  <2>2. d4 = Expire(d3, Window, now + Ttl)
    BY DEF WindowCommand, Window
  <2>3. m \in val /\ val # Empty["zset"]
    BY DEF Empty
  <2> HIDE DEF d2, d3, d4, val
  <2>4. Stored(d3, Window) /\ Entry(d3[Window]) /\ d3[Window].val = val
    BY <2>1, <2>3, ChangeEffect
  <2>5. Stored(d4, Window) /\ Entry(d4[Window]) /\ d4[Window].val = val /\ d4[Window].exp = now + Ttl
    BY <2>2, <2>4, ExpireEffect
  <2> QED BY <1>3, <2>3, <2>5 DEF Kept
<1>9. /\ failures' \in Nat /\ failures' >= failures
      /\ db' = Exec(c) \/ db' = db
      /\ failures' = failures => db' = Exec(c)
  BY <1>1, <1>2, SendsEffect DEF CounterInv
<1>10. CallsInv' /\ call'[c].op = "idle" /\ \A e \in Clients \ {c} : call'[e] = call[e]
  BY <1>1, <1>2, ReturnFrame
<1>11. Good(db')
  <2> HIDE DEF Good, d2, d4
  <2> QED BY <1>4, <1>5, <1>7, <1>9
<1>12. \/ hits' = hits
       \/ hits' = hits \cup {hit} /\ hit.member.n > 1 /\ Kept(db', hit)
  <2>1. CASE failures' = failures /\ call[c].value.n > 1
    <3>1. call[c].pipe = Adding /\ db' = Exec(c)
      BY <1>3, <1>9, <2>1
    <3> HIDE DEF d4, d2
    <3>2. db' = d4
      BY <1>5, <3>1
    <3> QED BY <1>1, <1>8, <2>1, <3>2
  <2> QED BY <1>1, <2>1
<1> HIDE DEF d1, d2, d3, d4
<1> QED BY <1>1, <1>9, <1>10, <1>11, <1>12, WindowStepInv DEF Windowing

\* A pipeline sends one command, and stops at one that fails.
LEMMA PipelineInv ==
    ASSUME Inv, NEW c \in Clients, PipelineStep(c)
    PROVE  Inv'
<1> DEFINE cmd == Head(call[c].pipe)
           d == WindowCommand(c, db, cmd)
<1>1. /\ Windowing(c) /\ ~call[c].tx /\ Sends(d)
      /\ UNCHANGED <<now, erased, issued, hits>>
      /\ \/ Return(c)
         \/ Len(call[c].pipe) # 1 /\ call' = [call EXCEPT ![c].pipe = Tail(@)]
  BY DEF PipelineStep, Windowing, Rest
<1>2. CounterInv /\ CallsInv /\ WindowInv
  BY DEF Inv
<1>3. call[c].pipe \in Seq({"zrem", "zrange", "zadd", "expire"}) /\ call[c].pipe # <<>>
  BY <1>1, <1>2 DEF WindowInv
<1>4. cmd \in {"zrem", "zrange", "zadd", "expire"}
  BY <1>3
<1>5. Stored(db, Window) => Entry(db[Window])
  BY <1>2 DEF WindowInv
<1> HIDE DEF cmd
<1>6. /\ Stored(d, Window) => Entry(d[Window])
      /\ Same(db, d, Counter)
      /\ \A h \in hits : h.at + Ttl > now /\ Kept(db, h) => Kept(d, h)
  BY <1>1, <1>4, <1>5, WindowCommandKeeps
<1> HIDE DEF d
<1>7. failures' \in Nat /\ failures' >= failures /\ (db' = d \/ db' = db)
  BY <1>1, <1>2, SendsEffect DEF CounterInv
<1>8. /\ Stored(db', Window) => Entry(db'[Window])
      /\ Same(db, db', Counter)
      /\ \A h \in hits : h.at + Ttl > now /\ Kept(db, h) => Kept(db', h)
  BY <1>5, <1>6, <1>7 DEF Same
<1>9. CASE Return(c)
  <2>1. CallsInv' /\ call'[c].op = "idle" /\ \A e \in Clients \ {c} : call'[e] = call[e]
    BY <1>2, <1>9, ReturnFrame
  <2> QED BY <1>1, <1>7, <1>8, <2>1, WindowStepInv DEF Windowing
<1>10. CASE Len(call[c].pipe) # 1 /\ call' = [call EXCEPT ![c].pipe = Tail(@)]
  <2> DEFINE frame == [call[c] EXCEPT !.pipe = Tail(@)]
  <2>1. /\ DOMAIN frame = DOMAIN IdleCall /\ frame.for \in {"keys", "fetch", "delete"}
        /\ frame.op = call[c].op /\ frame.from = call[c].from /\ frame.value = call[c].value
        /\ frame.tx = call[c].tx /\ frame.pipe = Tail(call[c].pipe)
    BY <1>2 DEF CallsInv, IdleCall
  <2>2. call' = [call EXCEPT ![c] = frame]
    BY <1>10
  <2>3. Tail(call[c].pipe) \in Seq({"zrem", "zrange", "zadd", "expire"}) /\ Tail(call[c].pipe) # <<>>
    <3> DEFINE s == call[c].pipe
    <3>1. s \in Seq({"zrem", "zrange", "zadd", "expire"}) /\ s # <<>> /\ Len(s) # 1
      BY <1>3, <1>10
    <3> HIDE DEF s
    <3>2. Tail(s) \in Seq({"zrem", "zrange", "zadd", "expire"}) /\ Len(Tail(s)) = Len(s) - 1 /\ Len(s) \in Nat \ {0, 1}
      BY <3>1
    <3>3. Len(Tail(s)) # Len(<<>>)
      <4>1. Len(Tail(s)) # 0
        BY <3>2
      <4> QED BY <4>1
    <3>4. Tail(s) # <<>>
      BY <3>3, Zenon
    <3> QED BY <3>2, <3>4 DEF s
  <2> HIDE DEF frame
  <2>4. CallsInv' /\ call'[c] = frame /\ \A e \in Clients \ {c} : call'[e] = call[e]
    BY <1>2, <2>1, <2>2, FrameKept
  <2> QED BY <1>1, <1>7, <1>8, <2>1, <2>3, <2>4, WindowStepInv
<1> QED BY <1>1, <1>9, <1>10

-------------------------------------------------------------------------------
(* What names hold.  Any value under a name was written under that name, by  *)
(* the call that its number tells; so is what a list has handed out, and     *)
(* nothing of that is in a list again.                                       *)

Written(n, i) == [of : {n}, n : 0 .. i]

Holds(n, kind, val, i, gone) ==
    /\ n.key \in StringKeys => kind = "str" /\ val \in Written(n, i)
    /\ n.key = "counter" => kind = "int" /\ val \in Int
    /\ n.key = "list" => /\ kind = "list" /\ val \in Seq(Written(n, i))
                         /\ Distinct(val) /\ Elements(val) \cap gone = {}
    /\ n.key = "set" => kind = "set" /\ val \subseteq Written(n, i)
    /\ n.key = "sorted" => kind = "zset" /\ \A m \in val : m.member \in Written(n, i)
    /\ n.key = "window" => kind = "zset"

Lasting(exp, t) == exp = Never \/ (exp \in Nat /\ exp > t)

\* The database after i calls, when the values in gone have been handed out, at t.
Database(d, i, gone, t) ==
    \A n \in DOMAIN d : /\ n \in Names /\ Entry(d[n])
                        /\ Holds(n, d[n].kind, d[n].val, i, gone)
                        /\ Lasting(d[n].exp, t)

\* A name may still hold what it held when more calls have begun.
LEMMA HoldsLater ==
    ASSUME NEW n, NEW kind, NEW val, NEW i \in Nat, NEW gone, Holds(n, kind, val, i, gone),
           NEW j \in Nat, j >= i
    PROVE  Holds(n, kind, val, j, gone)
<1>1. Written(n, i) \subseteq Written(n, j)
  BY DEF Written
<1>2. Seq(Written(n, i)) \subseteq Seq(Written(n, j))
  BY <1>1
<1> QED BY <1>1, <1>2 DEF Holds

\* Calls that begin take nothing away.
LEMMA DatabaseLater ==
    ASSUME NEW d, NEW i \in Nat, NEW gone, NEW t, Database(d, i, gone, t), NEW j \in Nat, j >= i
    PROVE  Database(d, j, gone, t)
BY HoldsLater DEF Database, Stored

\* A database is one again when one name of it has changed to what it may hold.
LEMMA DatabasePut ==
    ASSUME NEW d, NEW i, NEW gone, NEW t, Database(d, i, gone, t), NEW e, NEW n \in Names,
           \A m : m # n => Same(d, e, m),
           Stored(e, n) => /\ Entry(e[n]) /\ Holds(n, e[n].kind, e[n].val, i, gone)
                           /\ Lasting(e[n].exp, t)
    PROVE  Database(e, i, gone, t)
BY DEF Database, Same, Stored

\* A command that changes a value to what the name may hold; the expiry stays.
LEMMA DatabaseChange ==
    ASSUME NEW d, NEW i, NEW gone, NEW t, Database(d, i, gone, t), NEW n \in Names,
           NEW kind, NEW val, Holds(n, kind, val, i, gone)
    PROVE  Database(Change(d, n, kind, val), i, gone, t)
<1> DEFINE e == Change(d, n, kind, val)
<1>1. /\ \A m : m # n => Same(d, e, m)
      /\ Stored(e, n) => /\ Entry(e[n]) /\ e[n].kind = kind /\ e[n].val = val
                         /\ e[n].exp = IF Stored(d, n) THEN d[n].exp ELSE Never
  BY ChangeEffect
<1> HIDE DEF e
<1>2. Stored(e, n) => Lasting(e[n].exp, t)
  BY <1>1 DEF Database, Lasting, Stored
<1>3. Database(e, i, gone, t)
  BY <1>1, <1>2, DatabasePut
<1> QED BY <1>3 DEF e

\* SET of a string.
LEMMA DatabaseSet ==
    ASSUME NEW d, NEW i, NEW gone, NEW t, Database(d, i, gone, t), NEW n \in Names,
           NEW val, NEW exp, Holds(n, "str", val, i, gone), Lasting(exp, t)
    PROVE  Database(Set(d, n, val, exp), i, gone, t)
<1> DEFINE e == Set(d, n, val, exp)
<1>1. /\ \A m : m # n => Same(d, e, m)
      /\ Entry(e[n]) /\ e[n].kind = "str" /\ e[n].val = val /\ e[n].exp = exp
  BY PutEffect DEF Set
<1> HIDE DEF e
<1>2. Database(e, i, gone, t)
  BY <1>1, DatabasePut
<1> QED BY <1>2 DEF e

\* EXPIRE.
LEMMA DatabaseExpire ==
    ASSUME NEW d, NEW i, NEW gone, NEW t, Database(d, i, gone, t), NEW n \in Names,
           NEW exp, Lasting(exp, t)
    PROVE  Database(Expire(d, n, exp), i, gone, t)
<1> DEFINE e == Expire(d, n, exp)
<1>1. Stored(d, n) => Entry(d[n]) /\ Holds(n, d[n].kind, d[n].val, i, gone)
  BY DEF Database, Stored
<1>2. /\ \A m : m # n => Same(d, e, m)
      /\ Stored(e, n) => Stored(d, n)
      /\ Stored(d, n) => /\ Entry(e[n]) /\ e[n].kind = d[n].kind /\ e[n].val = d[n].val
                         /\ e[n].exp = exp
  BY <1>1, ExpireEffect
<1> HIDE DEF e
<1>3. Database(e, i, gone, t)
  BY <1>1, <1>2, DatabasePut
<1> QED BY <1>3 DEF e

\* DEL of any names.
LEMMA DatabaseDel ==
    ASSUME NEW d, NEW i, NEW gone, NEW t, Database(d, i, gone, t), NEW names
    PROVE  Database(Del(d, names), i, gone, t)
BY DelEffect DEF Database, Fewer, Stored

\* What commands find under a name of their kind.
LEMMA ContentHolds ==
    ASSUME NEW d, NEW i, NEW gone, NEW t, Database(d, i, gone, t), NEW n
    PROVE  /\ n.key = "counter" => Content(d, n, "int") \in Int
           /\ n.key = "list" => /\ Content(d, n, "list") \in Seq(Written(n, i))
                                /\ Distinct(Content(d, n, "list"))
                                /\ Elements(Content(d, n, "list")) \cap gone = {}
           /\ n.key = "set" => Content(d, n, "set") \subseteq Written(n, i)
           /\ n.key = "sorted" => \A m \in Content(d, n, "zset") : m.member \in Written(n, i)
<1>1. CASE Stored(d, n)
  <2>1. Holds(n, d[n].kind, d[n].val, i, gone) /\ \A kind : Content(d, n, kind) = d[n].val
    BY <1>1 DEF Database, Content, Stored
  <2> QED BY <2>1 DEF Holds
<1>2. CASE ~Stored(d, n)
  <2>1. \A kind : Content(d, n, kind) = Empty[kind]
    BY <1>2 DEF Content
  <2>2. Empty["int"] = 0 /\ Empty["list"] = <<>> /\ Empty["set"] = {} /\ Empty["zset"] = {}
    BY DEF Empty
  <2>3. <<>> \in Seq(Written(n, i)) /\ Distinct(<<>>) /\ Elements(<<>>) = {}
    BY DEF Distinct, Elements
  <2>4. /\ Content(d, n, "int") = 0 /\ Content(d, n, "list") = <<>>
        /\ Content(d, n, "set") = {} /\ Content(d, n, "zset") = {}
    BY <2>1, <2>2, Zenon
  <2>5. /\ Content(d, n, "list") \in Seq(Written(n, i))
        /\ Distinct(Content(d, n, "list"))
        /\ Elements(Content(d, n, "list")) = {}
    BY <2>3, <2>4, Zenon
  <2>6. Content(d, n, "int") \in Int
    BY <2>4
  <2>7. /\ Content(d, n, "set") \subseteq Written(n, i)
        /\ \A m \in Content(d, n, "zset") : m.member \in Written(n, i)
    BY <2>4
  <2> QED BY <2>5, <2>6, <2>7
<1> QED BY <1>1, <1>2

\* The keys of the kinds are different ones.
LEMMA KeysDiffer ==
    /\ "counter" \notin StringKeys /\ "list" \notin StringKeys /\ "set" \notin StringKeys
    /\ "sorted" \notin StringKeys /\ "window" \notin StringKeys
  BY StorageAssumption

\* Counters, sets and sorted sets change by commands of their own.
LEMMA DatabaseIncr ==
    ASSUME NEW d, NEW i, NEW gone, NEW t, Database(d, i, gone, t), NEW n \in Names, n.key = "counter",
           NEW by \in Int
    PROVE  Database(Incr(d, n, by), i, gone, t)
<1> DEFINE val == Content(d, n, "int") + by
<1>1. val \in Int
  BY ContentHolds
<1> HIDE DEF val
<1>2. Holds(n, "int", val, i, gone)
  BY <1>1, KeysDiffer DEF Holds
<1>3. Database(Change(d, n, "int", val), i, gone, t)
  BY <1>2, DatabaseChange
<1> QED BY <1>3 DEF Incr, val

\* Sets: only values of the name get into it.
LEMMA DatabaseSetMember ==
    ASSUME NEW d, NEW i, NEW gone, NEW t, Database(d, i, gone, t), NEW n \in Names, n.key = "set", NEW v
    PROVE  /\ v \in Written(n, i) => Database(SAdd(d, n, v), i, gone, t)
           /\ Database(SRem(d, n, v), i, gone, t)
<1>1. ASSUME NEW val, val \subseteq Written(n, i) PROVE Database(Change(d, n, "set", val), i, gone, t)
  <2>1. Holds(n, "set", val, i, gone)
    BY <1>1, KeysDiffer DEF Holds
  <2> QED BY <2>1, DatabaseChange
<1>2. Content(d, n, "set") \subseteq Written(n, i)
  BY ContentHolds
<1>3. Content(d, n, "set") \ {v} \subseteq Written(n, i)
  BY <1>2
<1>4. v \in Written(n, i) => Content(d, n, "set") \cup {v} \subseteq Written(n, i)
  BY <1>2
<1> QED BY <1>1, <1>3, <1>4 DEF SAdd, SRem

\* Sorted sets: values of the name, and of the window whatever calls add.
LEMMA DatabaseScore ==
    ASSUME NEW d, NEW i, NEW gone, NEW t, Database(d, i, gone, t), NEW n \in Names, n.key \in {"sorted", "window"},
           NEW m, NEW score
    PROVE  /\ n.key = "window" \/ m.member \in Written(n, i) => Database(ZAdd(d, n, m), i, gone, t)
           /\ Database(ZRemUpTo(d, n, score), i, gone, t)
<1>1. ASSUME NEW val, n.key = "sorted" => \A x \in val : x.member \in Written(n, i)
      PROVE Database(Change(d, n, "zset", val), i, gone, t)
  <2>1. Holds(n, "zset", val, i, gone)
    BY <1>1, KeysDiffer DEF Holds
  <2> QED BY <2>1, DatabaseChange
<1>2. n.key = "sorted" => \A x \in Content(d, n, "zset") : x.member \in Written(n, i)
  BY ContentHolds
<1>3. n.key = "sorted" => \A x \in {x \in Content(d, n, "zset") : x.score > score} : x.member \in Written(n, i)
  BY <1>2
<1>4. n.key = "window" \/ m.member \in Written(n, i) =>
        (n.key = "sorted" =>
           \A x \in {x \in Content(d, n, "zset") : x.member # m.member} \cup {m} : x.member \in Written(n, i))
  BY <1>2
<1> QED BY <1>1, <1>3, <1>4 DEF ZAdd, ZRemUpTo

\* A list gets a value that is in no list and was never handed out.
LEMMA DatabaseRPush ==
    ASSUME NEW d, NEW i \in Nat, NEW gone, NEW t, Database(d, i, gone, t), NEW n \in Names, n.key = "list",
           \A v \in gone : v.n \in 0 .. i
    PROVE  Database(RPush(d, n, <<[of |-> n, n |-> i + 1]>>), i + 1, gone, t)
<1> DEFINE s == Content(d, n, "list")
           v == [of |-> n, n |-> i + 1]
           u == s \o <<v>>
<1>1. s \in Seq(Written(n, i)) /\ Distinct(s) /\ Elements(s) \cap gone = {}
  BY ContentHolds
<1>2. v \in Written(n, i + 1) /\ v \notin Written(n, i) /\ v \notin gone /\ Written(n, i) \subseteq Written(n, i + 1)
  BY DEF Written
<1> HIDE DEF s, v
<1>3. /\ u \in Seq(Written(n, i + 1)) /\ Len(s) \in Nat /\ Len(u) = Len(s) + 1
      /\ \A x \in 1 .. Len(s) : u[x] = s[x] /\ s[x] \in Written(n, i)
      /\ u[Len(s) + 1] = v
      /\ DOMAIN u = 1 .. Len(s) + 1 /\ DOMAIN s = 1 .. Len(s)
  <2>1. s \in Seq(Written(n, i + 1)) /\ <<v>> \in Seq(Written(n, i + 1))
    BY <1>1, <1>2
  <2>2. \A x \in 1 .. Len(s) : s[x] \in Written(n, i)
    BY <1>1
  <2>3. Len(<<v>>) = 1 /\ <<v>>[1] = v
    OBVIOUS
  <2> QED BY <2>1, <2>2, <2>3
<1> HIDE DEF u
<1>4. Distinct(u)
  BY <1>1, <1>2, <1>3 DEF Distinct
<1>5. Elements(u) \cap gone = {}
  <2>1. \A x \in DOMAIN u : u[x] = v \/ u[x] \in Elements(s)
    BY <1>3 DEF Elements
  <2> QED BY <1>1, <1>2, <2>1 DEF Elements
<1>6. Holds(n, "list", u, i + 1, gone)
  BY <1>3, <1>4, <1>5, KeysDiffer DEF Holds
<1>7. Database(d, i + 1, gone, t)
  BY DatabaseLater
<1>8. Database(Change(d, n, "list", u), i + 1, gone, t)
  BY <1>6, <1>7, DatabaseChange
<1> QED BY <1>8 DEF RPush, u, s, v

\* LREM keeps the other values of the list.
LEMMA DatabaseLRem ==
    ASSUME NEW d, NEW i, NEW gone, NEW t, Database(d, i, gone, t), NEW n \in Names, n.key = "list", NEW v
    PROVE  Database(LRem(d, n, v), i, gone, t)
<1> DEFINE s == Content(d, n, "list")
           u == Keep(s, ToSet(s) \ {v})
<1>1. s \in Seq(Written(n, i)) /\ Distinct(s) /\ Elements(s) \cap gone = {}
  BY ContentHolds
<1> HIDE DEF s
<1>2. u \in Seq(Written(n, i)) /\ Elements(u) \subseteq Elements(s) /\ Distinct(u)
  BY <1>1, KeepFacts
<1> HIDE DEF u
<1>3. Holds(n, "list", u, i, gone)
  BY <1>1, <1>2, KeysDiffer DEF Holds
<1>4. Database(Change(d, n, "list", u), i, gone, t)
  BY <1>3, DatabaseChange
<1> QED BY <1>4 DEF LRem, u, s

-------------------------------------------------------------------------------
(* The invariant of the values *)

ScalarsInv ==
    /\ used \in Workloads /\ cluster \in BOOLEAN
    /\ now \in 0 .. MaxTime
    /\ issued \in 0 .. MaxCalls[used] /\ failures \in 0 .. MaxFailures

\* The names a handle finds in a scan are its own, or it has no prefix.
Own(c, names) == \A n \in names : HandleOf[c].prefix \in {"", n.prefix}

FramesInv ==
    /\ call \in [Clients -> Call]
    /\ \A c \in Clients : Own(c, call[c].names) /\ Own(c, call[c].shared)

Answer == [name : Names, val : [of : Names, n : Int] \cup {NoValue}]

AnswersInv == /\ answer \subseteq Answer
              /\ AnswersMatch

DrainedInv ==
    /\ drained \in Seq([of : Names, n : 0 .. issued])
    /\ Distinct(drained)

DataInv == Database(db, issued, Elements(drained), now)

Sound == ScalarsInv /\ FramesInv /\ AnswersInv /\ DrainedInv /\ DataInv /\ RedisTypeOK

\* The names of a handle, and the raw ones, are names.
LEMMA NamesTyped ==
    ASSUME NEW c \in Clients, NEW k \in Keys
    PROVE  /\ fixKey(c, k) \in Names /\ fixKey(c, k).key = k
           /\ Raw(k) \in Names /\ Raw(k).key = k
BY StorageAssumption DEF fixKey, Raw, Names, KeyPrefixes

\* A run uses keys.
LEMMA UsedKeys == ASSUME ScalarsInv PROVE used \subseteq Keys /\ UsedStrings \subseteq Keys
BY StorageAssumption DEF ScalarsInv, Keys, UsedStrings

\* A frame that is one, with names of its own, leaves every call with a frame.
LEMMA FrameTyped ==
    ASSUME FramesInv, NEW c \in Clients, NEW frame \in Call, call' = [call EXCEPT ![c] = frame],
           Own(c, frame.names), Own(c, frame.shared)
    PROVE  FramesInv'
<1>1. call' \in [Clients -> Call]
  BY DEF FramesInv
<1>2. call'[c] = frame /\ \A e \in Clients : e # c => call'[e] = call[e]
  BY DEF FramesInv
<1>3. \A e \in Clients : Own(e, call'[e].names) /\ Own(e, call'[e].shared)
  BY <1>2 DEF FramesInv
<1> QED BY <1>1, <1>3 DEF FramesInv, Own

\* So does no change of a frame ...
LEMMA SameFrames == ASSUME FramesInv, call' = call PROVE FramesInv'
BY DEF FramesInv, Own

\* (What a call holds between two calls is a frame without names.)
LEMMA IdleTyped == IdleCall \in Call /\ IdleCall.names = {} /\ IdleCall.shared = {}
<1>1. <<>> \in Seq({"zrem", "zrange", "zadd", "expire"})
  OBVIOUS
<1> QED BY <1>1, StorageAssumption DEF IdleCall, Call

\* ... the end of a call ...
LEMMA ReturnTyped == ASSUME FramesInv, NEW c \in Clients, Return(c) PROVE FramesInv'
BY IdleTyped, FrameTyped DEF Return, Own

\* ... and its next command.
LEMMA GotoTyped ==
    ASSUME FramesInv, NEW c \in Clients,
           NEW op \in {"expire", "getexp", "setexp", "window", "scan", "keys", "fetch", "delete"},
           Goto(c, op)
    PROVE  FramesInv'
<1> DEFINE frame == [call[c] EXCEPT !.op = op]
<1>1. call[c] \in Call /\ Own(c, call[c].names) /\ Own(c, call[c].shared)
  BY DEF FramesInv
<1>2. frame \in Call /\ frame.names = call[c].names /\ frame.shared = call[c].shared
  BY <1>1 DEF Call
<1>3. call' = [call EXCEPT ![c] = frame]
  BY DEF Goto
<1> HIDE DEF frame
<1> QED BY <1>1, <1>2, <1>3, FrameTyped

\* A call begins, or the number of calls stays.
Counted == issued' = issued \/ (issued < MaxCalls[used] /\ issued' = issued + 1)

\* A command keeps all of it when the database it makes is one: run or not, its
\* answer lost or not.
LEMMA CommandSound ==
    ASSUME Sound, NEW d, Sends(d), Counted, Database(d, issued', Elements(drained), now),
           UNCHANGED <<used, cluster, now, drained, redisVars>>, FramesInv', AnswersInv'
    PROVE  Sound'
<1>1. ScalarsInv /\ DrainedInv /\ DataInv /\ RedisTypeOK
  BY DEF Sound
<1>2. issued \in Nat /\ issued' \in Nat /\ issued' >= issued /\ issued' \in 0 .. MaxCalls[used]
  BY <1>1, StorageAssumption DEF ScalarsInv, Counted
<1>3. failures' \in 0 .. MaxFailures /\ db' \in {db, d}
  BY <1>1, StorageAssumption DEF ScalarsInv, Sends, Fails
<1>4. ScalarsInv'
  BY <1>1, <1>2, <1>3 DEF ScalarsInv
<1>5. DrainedInv'
  <2> DEFINE A == [of : Names, n : 0 .. issued]
             B == [of : Names, n : 0 .. issued']
  <2>1. A \subseteq B
    BY <1>2
  <2>2. drained' \in Seq(B)
    <3>1. drained \in Seq(A) /\ drained' = drained
      BY <1>1 DEF DrainedInv
    <3> HIDE DEF A, B
    <3> QED BY <2>1, <3>1
  <2>3. Distinct(drained')
    BY <1>1 DEF DrainedInv
  <2> QED BY <2>2, <2>3 DEF DrainedInv, Distinct
<1>6. DataInv'
  <2>1. Database(db, issued', Elements(drained), now)
    BY <1>1, <1>2, DatabaseLater DEF DataInv
  <2>2. Database(db', issued', Elements(drained'), now')
    BY <1>3, <2>1
  <2> QED BY <2>2 DEF DataInv, Elements, Database, Holds, Lasting, Written, Distinct, Entry
<1>7. RedisTypeOK'
  BY <1>1 DEF RedisTypeOK, redisVars
<1> QED BY <1>4, <1>5, <1>6, <1>7 DEF Sound

\* An answer of nothing matches, and so does the last one still.
LEMMA NoAnswer == ASSUME answer' = {} PROVE AnswersInv'
BY DEF AnswersInv, AnswersMatch

\* (The same for a step that answers nothing.)
LEMMA SameAnswer == ASSUME AnswersInv, answer' = answer PROVE AnswersInv'
BY DEF AnswersInv, AnswersMatch

\* When a call begins, the database is also one of the calls with it.
LEMMA CallBegins ==
    ASSUME Sound, NEW c \in Clients, Starts(c) \/ StartsUnchecked(c)
    PROVE  /\ Counted /\ issued' = issued + 1 /\ issued \in Nat /\ now \in 0 .. MaxTime /\ now \in Nat
           /\ Database(db, issued', Elements(drained), now)
           /\ Database(db, issued, Elements(drained), now)
<1>1. issued' = issued + 1 /\ issued \in Nat /\ now \in 0 .. MaxTime /\ now \in Nat
  BY StorageAssumption DEF Starts, StartsUnchecked, Sound, ScalarsInv
<1>2. Database(db, issued, Elements(drained), now)
  BY DEF Sound, DataInv
<1>3. Counted
  BY DEF Counted, Starts, StartsUnchecked
<1> QED BY <1>1, <1>2, <1>3, DatabaseLater

\* A method of one command.
LEMMA OneCommandSound ==
    ASSUME Sound, NEW c \in Clients, NEW d, OneCommand(c, d) \/ Unchecked(c, d),
           Database(d, issued', Elements(drained), now), UNCHANGED redisVars
    PROVE  Sound'
<1>1. /\ Starts(c) \/ StartsUnchecked(c)
      /\ Sends(d) /\ answer' = {} /\ call' = call
      /\ UNCHANGED <<used, cluster, now, drained>>
  BY DEF OneCommand, Unchecked
<1>2. FramesInv' /\ AnswersInv'
  BY <1>1, SameFrames, NoAnswer DEF Sound
<1> QED BY <1>1, <1>2, CallBegins, CommandSound

\* The value a call writes under a name was never written before.
LEMMA ValueWritten ==
    ASSUME Sound, NEW c \in Clients, Starts(c) \/ StartsUnchecked(c), NEW n
    PROVE  Value(n) = [of |-> n, n |-> issued'] /\ Value(n) \in Written(n, issued')
BY CallBegins DEF Value, Written

\* An expiry lies ahead, or is none.
LEMMA ExpiryLasting ==
    ASSUME Sound
    PROVE  Lasting(now + Ttl, now) /\ \A ttl \in {0, Ttl} : Lasting(Expiry(ttl), now)
BY StorageAssumption DEF Sound, ScalarsInv, Lasting, Expiry

\* What a one-command method does, it does at the start of a call.
LEMMA OneCommandStarts ==
    ASSUME NEW c, NEW d, OneCommand(c, d) \/ Unchecked(c, d)
    PROVE  Starts(c) \/ StartsUnchecked(c)
BY DEF OneCommand, Unchecked

\* Strings.
LEMMA SetSound ==
    ASSUME Sound, NEW c \in Clients, NEW k \in UsedStrings, NEW ttl \in {0, Ttl},
           SetKey(c, k, ttl) \/ SetRawKey(c, k, ttl), UNCHANGED redisVars
    PROVE  Sound'
<1>1. k \in Keys /\ k \in StringKeys
  BY UsedKeys DEF Sound, UsedStrings
<1>2. PICK n \in {fixKey(c, k), Raw(k)} : OneCommand(c, Set(db, n, Value(n), Expiry(ttl)))
  BY DEF SetKey, SetRawKey
<1>3. n \in Names /\ n.key \in StringKeys
  BY <1>1, <1>2, NamesTyped
<1>4. Starts(c) \/ StartsUnchecked(c)
  BY <1>2, OneCommandStarts
<1>5. Holds(n, "str", Value(n), issued', Elements(drained))
  BY <1>3, <1>4, ValueWritten, KeysDiffer DEF Holds
<1>6. Database(Set(db, n, Value(n), Expiry(ttl)), issued', Elements(drained), now)
  BY <1>3, <1>4, <1>5, CallBegins, ExpiryLasting, DatabaseSet
<1> QED BY <1>2, <1>6, OneCommandSound

\* Expiries and counters.
LEMMA SetExpSound ==
    ASSUME Sound, NEW c \in Clients, NEW k \in used, SetExp(c, k), UNCHANGED redisVars
    PROVE  Sound'
<1>1. fixKey(c, k) \in Names
  BY UsedKeys, NamesTyped DEF Sound
<1>2. OneCommand(c, Expire(db, fixKey(c, k), now + Ttl))
  BY DEF SetExp
<1>3. Database(Expire(db, fixKey(c, k), now + Ttl), issued', Elements(drained), now)
  BY <1>1, <1>2, OneCommandStarts, CallBegins, ExpiryLasting, DatabaseExpire
<1> QED BY <1>2, <1>3, OneCommandSound

\* (Decrement.)
LEMMA DecrementSound ==
    ASSUME Sound, NEW c \in Clients, Decrement(c), UNCHANGED redisVars
    PROVE  Sound'
<1>1. fixKey(c, "counter") \in Names /\ fixKey(c, "counter").key = "counter"
  BY NamesTyped DEF Keys
<1>2. OneCommand(c, Incr(db, fixKey(c, "counter"), -1))
  BY DEF Decrement
<1>3. Database(Incr(db, fixKey(c, "counter"), -1), issued', Elements(drained), now)
  BY <1>1, <1>2, OneCommandStarts, CallBegins, DatabaseIncr
<1> QED BY <1>2, <1>3, OneCommandSound

\* A list gets the value of the call.
LEMMA PushedData ==
    ASSUME Sound, NEW c \in Clients, Starts(c) \/ StartsUnchecked(c)
    PROVE  Database(RPush(db, fixKey(c, "list"), <<Value(fixKey(c, "list"))>>),
                    issued', Elements(drained), now)
<1> DEFINE n == fixKey(c, "list")
<1>1. n \in Names /\ n.key = "list"
  BY NamesTyped DEF Keys
<1>2. /\ issued' = issued + 1 /\ issued \in Nat /\ Database(db, issued, Elements(drained), now)
      /\ Value(n) = [of |-> n, n |-> issued + 1]
  BY CallBegins DEF Value
<1>3. \A v \in Elements(drained) : v.n \in 0 .. issued
  <2> DEFINE A == [of : Names, n : 0 .. issued]
  <2>1. Elements(drained) \subseteq A
    <3>1. drained \in Seq(A)
      BY DEF Sound, DrainedInv
    <3> HIDE DEF A
    <3> QED BY <3>1, ElementsTyped
  <2> QED BY <2>1
<1> HIDE DEF n
<1>4. Database(RPush(db, n, <<Value(n)>>), issued', Elements(drained), now)
  BY <1>1, <1>2, <1>3, DatabaseRPush
<1> QED BY <1>4 DEF n

\* Lists, sets and sorted sets.
LEMMA CollectionSound ==
    ASSUME Sound, NEW c \in Clients, NEW v,
           \/ AppendToSet(c) \/ AddToSet(c) \/ AddToSortedSet(c) \/ RemoveSortedSetRange(c)
           \/ RemoveFromList(c, v) \/ RemoveFromSet(c, v),
           UNCHANGED redisVars
    PROVE  Sound'
<1> DEFINE Good(d) == Database(d, issued', Elements(drained), now)
<1> SUFFICES \E d : (OneCommand(c, d) \/ Unchecked(c, d)) /\ Good(d)
  BY OneCommandSound
<1>1. \A k \in {"list", "set", "sorted"} : fixKey(c, k) \in Names /\ fixKey(c, k).key = k
  BY NamesTyped DEF Keys
<1>2. CASE AppendToSet(c)
  <2>1. OneCommand(c, RPush(db, fixKey(c, "list"), <<Value(fixKey(c, "list"))>>))
    BY <1>2 DEF AppendToSet
  <2> QED BY <2>1, OneCommandStarts, PushedData
<1>3. CASE AddToSet(c)
  <2>1. OneCommand(c, SAdd(db, fixKey(c, "set"), Value(fixKey(c, "set"))))
    BY <1>3 DEF AddToSet
  <2>2. Good(SAdd(db, fixKey(c, "set"), Value(fixKey(c, "set"))))
    BY <1>1, <2>1, OneCommandStarts, CallBegins, ValueWritten, DatabaseSetMember
  <2> QED BY <2>1, <2>2
<1>4. CASE RemoveFromSet(c, v)
  <2>1. OneCommand(c, SRem(db, fixKey(c, "set"), v))
    BY <1>4 DEF RemoveFromSet
  <2>2. Good(SRem(db, fixKey(c, "set"), v))
    BY <1>1, <2>1, OneCommandStarts, CallBegins, DatabaseSetMember
  <2> QED BY <2>1, <2>2
<1>5. CASE AddToSortedSet(c)
  <2> DEFINE n == fixKey(c, "sorted")
             m == [member |-> Value(n), score |-> now]
  <2>1. OneCommand(c, ZAdd(db, n, m))
    BY <1>5 DEF AddToSortedSet
  <2>2. m.member \in Written(n, issued')
    BY <2>1, OneCommandStarts, ValueWritten
  <2> HIDE DEF m
  <2>3. Good(ZAdd(db, n, m))
    BY <1>1, <2>1, <2>2, OneCommandStarts, CallBegins, DatabaseScore
  <2> QED BY <2>1, <2>3
<1>6. CASE RemoveSortedSetRange(c)
  <2>1. Unchecked(c, ZRemUpTo(db, fixKey(c, "sorted"), now))
    BY <1>6 DEF RemoveSortedSetRange
  <2>2. Good(ZRemUpTo(db, fixKey(c, "sorted"), now))
    BY <1>1, <2>1, OneCommandStarts, CallBegins, DatabaseScore
  <2> QED BY <2>1, <2>2
<1>7. CASE RemoveFromList(c, v)
  <2>1. Unchecked(c, LRem(db, fixKey(c, "list"), v))
    BY <1>7 DEF RemoveFromList
  <2>2. Good(LRem(db, fixKey(c, "list"), v))
    BY <1>1, <2>1, OneCommandStarts, CallBegins, DatabaseLRem
  <2> QED BY <2>1, <2>2
<1> QED BY <1>2, <1>3, <1>4, <1>5, <1>6, <1>7

\* Deletions.
LEMMA DeletesSound ==
    ASSUME Sound, NEW c \in Clients, NEW names, Deletes(c, names), UNCHANGED redisVars
    PROVE  Sound'
<1>1. /\ Starts(c) /\ Sends(Del(db, names)) /\ answer' = {}
      /\ UNCHANGED <<used, cluster, now, call, drained>>
  BY DEF Deletes
<1>2. FramesInv' /\ AnswersInv'
  BY <1>1, SameFrames, NoAnswer DEF Sound
<1>3. Counted /\ Database(Del(db, names), issued', Elements(drained), now)
  BY <1>1, CallBegins, DatabaseDel
<1> QED BY <1>1, <1>2, <1>3, CommandSound

\* What a list hands out was in no other list, and is in none afterwards: values
\* tell the list they were put into.
LEMMA DrainSound ==
    ASSUME Sound, NEW c \in Clients, GetAndDeleteSet(c), UNCHANGED redisVars
    PROVE  Sound'
<1> DEFINE n == fixKey(c, "list")
           s == Content(db, n, "list")
           d == Del(db, {n})
<1>1. /\ Starts(c) /\ Sends(d) /\ answer' = {}
      /\ drained' = IF failures' = failures THEN drained \o s ELSE drained
      /\ UNCHANGED <<used, cluster, now, call>>
  BY DEF GetAndDeleteSet
<1>2. FramesInv' /\ AnswersInv'
  BY <1>1, SameFrames, NoAnswer DEF Sound
<1>3. Counted /\ Database(d, issued', Elements(drained), now) /\ Database(db, issued, Elements(drained), now)
  BY <1>1, CallBegins, DatabaseDel
<1>4. CASE failures' # failures
  BY <1>1, <1>2, <1>3, <1>4, CommandSound
<1>5. CASE failures' = failures
  <2>1. db' = d /\ drained' = drained \o s
    BY <1>1, <1>5, SendsEffect DEF Sound, ScalarsInv, Sends, Fails
  <2>2. n \in Names /\ n.key = "list"
    BY NamesTyped DEF Keys
  <2>3. s \in Seq(Written(n, issued)) /\ Distinct(s) /\ Elements(s) \cap Elements(drained) = {}
    BY <1>3, <2>2, ContentHolds
  <2>4. \A m : Stored(d, m) => m # n /\ Stored(db, m) /\ d[m] = db[m]
    BY DelEffect DEF Fewer
  <2> DEFINE A == [of : Names, n : 0 .. issued']
  <2>5. /\ issued \in Nat /\ issued' = issued + 1
        /\ drained \in Seq(A) /\ s \in Seq(A) /\ Distinct(drained)
    <3>1. issued \in Nat /\ issued' = issued + 1
      BY <1>1, CallBegins
    <3>2. [of : Names, n : 0 .. issued] \subseteq A /\ Written(n, issued) \subseteq A
      BY <2>2, <3>1 DEF Written
    <3>3. drained \in Seq([of : Names, n : 0 .. issued]) /\ Distinct(drained)
      BY DEF Sound, DrainedInv
    <3> DEFINE W == [of : Names, n : 0 .. issued]
               X == Written(n, issued)
    <3>4. drained \in Seq(W) /\ s \in Seq(X) /\ W \subseteq A /\ X \subseteq A
      BY <2>3, <3>2, <3>3
    <3> HIDE DEF A, s, W, X
    <3>5. drained \in Seq(A) /\ s \in Seq(A)
      BY <3>4, ElementsTyped
    <3> QED BY <3>1, <3>3, <3>5
  <2> HIDE DEF A, s, d
  <2>6. drained \o s \in Seq(A) /\ Distinct(drained \o s)
        /\ Elements(drained \o s) = Elements(drained) \cup Elements(s)
    BY <2>3, <2>5, ConcatFacts
  <2>7. drained' \in Seq(A) /\ Distinct(drained')
    BY <2>1, <2>6
  <2>8. Elements(drained') = Elements(drained) \cup Elements(s)
    BY <2>1, <2>6
  <2>9. DrainedInv'
    BY <2>7 DEF DrainedInv, A, Distinct
  <2>10. Database(d, issued', Elements(drained'), now)
    <3> SUFFICES ASSUME NEW m \in DOMAIN d
                 PROVE  /\ m \in Names /\ Entry(d[m])
                        /\ Holds(m, d[m].kind, d[m].val, issued', Elements(drained'))
                        /\ Lasting(d[m].exp, now)
      BY DEF Database
    <3>1. /\ m \in Names /\ Entry(d[m]) /\ Lasting(d[m].exp, now)
          /\ Holds(m, d[m].kind, d[m].val, issued', Elements(drained))
      BY <1>3 DEF Database
    <3>2. m # n
      BY <2>4 DEF Stored
    <3>3. m.key = "list" => Elements(d[m].val) \cap Elements(s) = {}
      <4>1. Elements(s) \subseteq Written(n, issued)
        BY <2>3, ElementsTyped
      <4>2. m.key = "list" => Elements(d[m].val) \subseteq Written(m, issued')
        BY <3>1, ElementsTyped DEF Holds
      <4>3. /\ \A v \in Written(n, issued) : v.of = n
            /\ \A v \in Written(m, issued') : v.of = m
        BY DEF Written
      <4>4. ASSUME m.key = "list", NEW v \in Elements(d[m].val) PROVE v \notin Elements(s)
        <5>1. v.of = m
          BY <4>2, <4>3, <4>4
        <5>2. v \in Elements(s) => v.of = n
          BY <4>1, <4>3
        <5> QED BY <3>2, <5>1, <5>2
      <4> QED BY <4>4
    <3>4. m.key = "list" => Elements(d[m].val) \cap Elements(drained') = {}
      BY <2>8, <3>1, <3>3 DEF Holds
    <3> QED BY <3>1, <3>4 DEF Holds
  <2>11. DataInv'
    <3>1. Database(db', issued', Elements(drained'), now')
      BY <1>1, <2>1, <2>10
    <3> QED BY <3>1 DEF DataInv, Elements, Database, Holds, Lasting, Written, Distinct, Entry
  <2>12. ScalarsInv' /\ RedisTypeOK'
    BY <1>1, <1>5, <2>5, StorageAssumption DEF Sound, ScalarsInv, Starts, RedisTypeOK, redisVars
  <2> QED BY <1>2, <2>9, <2>11, <2>12 DEF Sound
<1> QED BY <1>4, <1>5

\* Methods of several commands, at the first and at the later ones.
LEMMA IncrementSound ==
    ASSUME Sound, NEW c \in Clients, IncrememntWithExpire(c), UNCHANGED redisVars
    PROVE  Sound'
<1>1. /\ Starts(c) /\ Sends(Incr(db, Raw("counter"), 1)) /\ answer' = {}
      /\ Goto(c, "expire") \/ UNCHANGED call
      /\ UNCHANGED <<used, cluster, now, drained>>
  BY DEF IncrememntWithExpire, Rest
<1>2. FramesInv' /\ AnswersInv'
  BY <1>1, SameFrames, GotoTyped, NoAnswer DEF Sound
<1>3. Raw("counter") \in Names /\ Raw("counter").key = "counter"
  BY NamesTyped DEF Keys
<1>4. Counted /\ Database(Incr(db, Raw("counter"), 1), issued', Elements(drained), now)
  BY <1>1, <1>3, CallBegins, DatabaseIncr
<1> QED BY <1>1, <1>2, <1>4, CommandSound

\* A later step is one of a call that has been counted.
LEMMA LaterSound ==
    ASSUME Sound, NEW d, Sends(d), Database(d, issued, Elements(drained), now),
           UNCHANGED <<used, cluster, now, drained, issued, redisVars>>, FramesInv', AnswersInv'
    PROVE  Sound'
<1>1. Counted /\ Database(d, issued', Elements(drained), now)
  BY DEF Counted
<1> QED BY <1>1, CommandSound

\* A step may send nothing: that is as if its command changed nothing.
LEMMA SilentSends ==
    ASSUME db' = db, failures' = failures \/ Fails
    PROVE  Sends(db)
BY DEF Sends

\* EXPIRE of the counter, and the two later commands of a pipelined append.
LEMMA LaterExpireSound ==
    ASSUME Sound, NEW c \in Clients, ExpireCounter(c) \/ CheckExp(c) \/ SetListExp(c),
           UNCHANGED redisVars
    PROVE  Sound'
<1>1. /\ Return(c) \/ Goto(c, "setexp")
      /\ UNCHANGED <<used, cluster, now, drained, issued, answer>>
  BY DEF ExpireCounter, CheckExp, SetListExp, Rest
<1>2. FramesInv' /\ AnswersInv'
  BY <1>1, ReturnTyped, GotoTyped, SameAnswer DEF Sound
<1>3. \/ Sends(db)
      \/ Sends(Expire(db, Raw("counter"), now + Ttl))
      \/ \E seconds \in ListExpiries \ {Never} : Sends(ExpireIn(db, fixKey(c, "list"), now, seconds))
  BY SilentSends DEF ExpireCounter, CheckExp, SetListExp
<1>4. Raw("counter") \in Names /\ fixKey(c, "list") \in Names
  BY NamesTyped DEF Keys
<1>5. Database(db, issued, Elements(drained), now)
  BY DEF Sound, DataInv
<1>6. Database(Expire(db, Raw("counter"), now + Ttl), issued, Elements(drained), now)
  BY <1>4, <1>5, ExpiryLasting, DatabaseExpire
<1>7. ASSUME NEW seconds \in ListExpiries
      PROVE  Database(ExpireIn(db, fixKey(c, "list"), now, seconds), issued, Elements(drained), now)
  <2>1. CASE seconds <= 0
    BY <1>5, <2>1, DatabaseDel DEF ExpireIn
  <2>2. CASE ~(seconds <= 0)
    <3>1. seconds \in Int /\ now \in Nat
      BY StorageAssumption DEF Sound, ScalarsInv
    <3>2. Lasting(now + seconds, now)
      BY <2>2, <3>1 DEF Lasting
    <3> QED BY <1>4, <1>5, <2>2, <3>2, DatabaseExpire DEF ExpireIn
  <2> QED BY <2>1, <2>2
<1> QED BY <1>1, <1>2, <1>3, <1>5, <1>6, <1>7, LaterSound

\* (AppendToSetPipelined, at its RPUSH.)
LEMMA PipelinedSound ==
    ASSUME Sound, NEW c \in Clients, AppendToSetPipelined(c), UNCHANGED redisVars
    PROVE  Sound'
<1> DEFINE d == RPush(db, fixKey(c, "list"), <<Value(fixKey(c, "list"))>>)
<1>1. /\ Starts(c) /\ Sends(d) /\ answer' = {} /\ Goto(c, "getexp")
      /\ UNCHANGED <<used, cluster, now, drained>>
  BY DEF AppendToSetPipelined, Rest
<1>2. FramesInv' /\ AnswersInv'
  BY <1>1, GotoTyped, NoAnswer DEF Sound
<1>3. Counted /\ Database(d, issued', Elements(drained), now)
  BY <1>1, CallBegins, PushedData
<1> HIDE DEF d
<1> QED BY <1>1, <1>2, <1>3, CommandSound

\* A call that begins without a command: windows and scans.
LEMMA BeginsSound ==
    ASSUME Sound, NEW c \in Clients, Starts(c), NEW frame \in Call, Begins(c, frame),
           frame.names = {}, frame.shared = {}, answer' = {}, UNCHANGED <<db, failures>>,
           UNCHANGED Rest, UNCHANGED redisVars
    PROVE  Sound'
<1>1. call' = [call EXCEPT ![c] = frame] /\ UNCHANGED <<used, cluster, now, drained>>
  BY DEF Begins, Rest
<1>2. FramesInv'
  BY <1>1, FrameTyped DEF Sound, Own
<1>3. AnswersInv' /\ Sends(db)
  BY NoAnswer, SilentSends
<1>4. Counted /\ Database(db, issued', Elements(drained), now)
  BY CallBegins
<1> QED BY <1>1, <1>2, <1>3, <1>4, CommandSound

\* A call about the window remembers its time and the member it is to add.
LEMMA RollingWindowSound ==
    ASSUME Sound, NEW c \in Clients, NEW tx \in BOOLEAN, NEW own \in BOOLEAN,
           SetRollingWindow(c, own, tx) \/ GetRollingWindow(c, tx), UNCHANGED redisVars
    PROVE  Sound'
<1> DEFINE Frame(pipe, value) == [IdleCall EXCEPT !.op = "window", !.from = now, !.tx = tx,
                                     !.pipe = pipe, !.value = value]
           mine == [of |-> Raw("window"), n |-> IF own THEN 1 ELSE issued + 1]
<1>1. /\ Starts(c) /\ answer' = {} /\ UNCHANGED <<db, failures>> /\ UNCHANGED Rest
      /\ Begins(c, Frame(Adding, mine)) \/ Begins(c, Frame(Looking, NoValue))
  <2>1. IdleCall.value = NoValue
    BY DEF IdleCall
  <2>2. [IdleCall EXCEPT !.op = "window", !.from = now, !.tx = tx, !.pipe = Looking] = Frame(Looking, NoValue)
    BY <2>1 DEF IdleCall
  <2>3. [IdleCall EXCEPT !.op = "window", !.from = now, !.tx = tx, !.pipe = Adding, !.value = mine]
          = Frame(Adding, mine)
    BY DEF IdleCall
  <2> QED BY <2>2, <2>3 DEF SetRollingWindow, GetRollingWindow, Adding, Looking
<1>2. now \in 0 .. MaxTime /\ issued \in Nat
  BY <1>1, CallBegins
<1>3. mine \in Values
  BY <1>2, NamesTyped DEF Values, Keys
<1>4. Adding \in Seq({"zrem", "zrange", "zadd", "expire"}) /\ Looking \in Seq({"zrem", "zrange", "zadd", "expire"})
  BY DEF Adding, Looking
<1>5. ASSUME NEW pipe \in Seq({"zrem", "zrange", "zadd", "expire"}), NEW value \in Values \cup {NoValue}
      PROVE  Frame(pipe, value) \in Call /\ Frame(pipe, value).names = {} /\ Frame(pipe, value).shared = {}
  BY <1>2, StorageAssumption DEF IdleCall, Call
<1> HIDE DEF Frame, mine
<1> QED BY <1>1, <1>3, <1>4, <1>5, BeginsSound

\* The commands about the window, of which only the members are not told apart.
LEMMA WindowCommandData ==
    ASSUME Sound, NEW c \in Clients, NEW d, Database(d, issued, Elements(drained), now),
           NEW cmd \in {"zrem", "zrange", "zadd", "expire"}
    PROVE  Database(WindowCommand(c, d, cmd), issued, Elements(drained), now)
<1> DEFINE m == [member |-> call[c].value, score |-> call[c].from]
<1>1. Raw("window") \in Names /\ Raw("window").key = "window"
  BY NamesTyped DEF Keys
<1>2. /\ cmd = "zrem" => WindowCommand(c, d, cmd) = ZRemUpTo(d, Raw("window"), onePeriodAgo(c))
      /\ cmd = "zrange" => WindowCommand(c, d, cmd) = d
      /\ cmd = "zadd" => WindowCommand(c, d, cmd) = ZAdd(d, Raw("window"), m)
      /\ cmd = "expire" => WindowCommand(c, d, cmd) = Expire(d, Raw("window"), now + Ttl)
  BY DEF WindowCommand
<1> HIDE DEF m
<1>3. /\ Database(ZRemUpTo(d, Raw("window"), onePeriodAgo(c)), issued, Elements(drained), now)
      /\ Database(ZAdd(d, Raw("window"), m), issued, Elements(drained), now)
  BY <1>1, DatabaseScore
<1>4. Database(Expire(d, Raw("window"), now + Ttl), issued, Elements(drained), now)
  BY <1>1, ExpiryLasting, DatabaseExpire
<1> QED BY <1>2, <1>3, <1>4

\* A transaction runs its commands one after the other.
LEMMA TransactionSound ==
    ASSUME Sound, NEW c \in Clients, Transaction(c), UNCHANGED redisVars
    PROVE  Sound'
<1> DEFINE Good(d) == Database(d, issued, Elements(drained), now)
           Run(d, i) == IF i <= Len(call[c].pipe) THEN WindowCommand(c, d, call[c].pipe[i]) ELSE d
<1>1. /\ Sends(Exec(c)) /\ Return(c) /\ UNCHANGED <<used, cluster, now, drained, issued, answer>>
  BY DEF Transaction
<1>2. FramesInv' /\ AnswersInv'
  BY <1>1, ReturnTyped, SameAnswer DEF Sound
<1>3. call[c].pipe \in Seq({"zrem", "zrange", "zadd", "expire"})
  BY DEF Sound, FramesInv, Call
<1>4. ASSUME NEW d, Good(d), NEW i \in 1 .. 4 PROVE Good(Run(d, i))
  <2>1. CASE i <= Len(call[c].pipe)
    <3>1. call[c].pipe[i] \in {"zrem", "zrange", "zadd", "expire"}
      BY <1>3, <2>1
    <3> QED BY <1>4, <2>1, <3>1, WindowCommandData
  <2> QED BY <1>4, <2>1
<1>5. Exec(c) = Run(Run(Run(Run(db, 1), 2), 3), 4)
  BY DEF Exec
<1> HIDE DEF Run
<1>6. Good(Run(db, 1))
  BY <1>4 DEF Sound, DataInv
<1>7. Good(Run(Run(db, 1), 2))
  BY <1>4, <1>6
<1>8. Good(Run(Run(Run(db, 1), 2), 3))
  BY <1>4, <1>7
<1>9. Good(Exec(c))
  BY <1>4, <1>5, <1>8
<1> QED BY <1>1, <1>2, <1>9, LaterSound

\* A pipeline sends its next command.
LEMMA PipelineSound ==
    ASSUME Inv, Sound, NEW c \in Clients, PipelineStep(c), UNCHANGED redisVars
    PROVE  Sound'
<1> DEFINE pipe == call[c].pipe
           frame == [call[c] EXCEPT !.pipe = Tail(pipe)]
           d == WindowCommand(c, db, Head(pipe))
<1>1. /\ Windowing(c) /\ Sends(d)
      /\ Return(c) \/ call' = [call EXCEPT ![c] = frame]
      /\ UNCHANGED <<used, cluster, now, drained, issued, answer>>
  BY DEF PipelineStep, Rest, Windowing
<1>2. pipe \in Seq({"zrem", "zrange", "zadd", "expire"}) /\ pipe # <<>>
  BY <1>1 DEF Inv, WindowInv
<1>3. Head(pipe) \in {"zrem", "zrange", "zadd", "expire"} /\ Tail(pipe) \in Seq({"zrem", "zrange", "zadd", "expire"})
  BY <1>2
<1>4. Database(d, issued, Elements(drained), now)
  BY <1>3, WindowCommandData DEF Sound, DataInv
<1>5. /\ frame \in Call /\ frame.names = call[c].names /\ frame.shared = call[c].shared
      /\ Own(c, call[c].names) /\ Own(c, call[c].shared)
  <2>1. call[c] \in Call /\ Own(c, call[c].names) /\ Own(c, call[c].shared)
    BY DEF Sound, FramesInv
  <2> DEFINE rest == Tail(pipe)
  <2>2. rest \in Seq({"zrem", "zrange", "zadd", "expire"})
    BY <1>3
  <2> HIDE DEF rest
  <2>3. /\ [call[c] EXCEPT !.pipe = rest] \in Call
        /\ [call[c] EXCEPT !.pipe = rest].names = call[c].names
        /\ [call[c] EXCEPT !.pipe = rest].shared = call[c].shared
    BY <2>1, <2>2 DEF Call
  <2> QED BY <2>1, <2>3 DEF rest
<1> HIDE DEF frame, d
<1>6. FramesInv' /\ AnswersInv'
  BY <1>1, <1>5, ReturnTyped, FrameTyped, SameAnswer DEF Sound
<1> QED BY <1>1, <1>4, <1>6, LaterSound

\* A scan begins with its masters and no names.
LEMMA ScanSound ==
    ASSUME Sound, NEW c \in Clients, NEW aim, aim \in {"keys", "fetch", "delete"},
           NEW filter, filter \in Keys \cup {""}, Scan(c, aim, filter), UNCHANGED redisVars
    PROVE  Sound'
<1> DEFINE frame == [IdleCall EXCEPT !.op = "scan", !.for = aim, !.filter = filter, !.todo = Masters]
<1>1. /\ Starts(c) /\ Begins(c, frame) /\ answer' = {} /\ UNCHANGED <<db, failures>> /\ UNCHANGED Rest
  BY DEF Scan
<1>2. Masters \subseteq {1, 2}
  BY DEF Masters
<1>3. frame \in Call /\ frame.names = {} /\ frame.shared = {}
  <2> DEFINE masters == Masters
  <2>1. masters \in SUBSET {1, 2}
    BY <1>2
  <2> HIDE DEF masters
  <2>2. [IdleCall EXCEPT !.op = "scan", !.for = aim, !.filter = filter, !.todo = masters] \in Call
    BY <2>1, IdleTyped DEF Call
  <2>3. /\ [IdleCall EXCEPT !.op = "scan", !.for = aim, !.filter = filter, !.todo = masters].names = {}
        /\ [IdleCall EXCEPT !.op = "scan", !.for = aim, !.filter = filter, !.todo = masters].shared = {}
    BY IdleTyped DEF Call
  <2> QED BY <2>2, <2>3 DEF masters
<1> HIDE DEF frame
<1> QED BY <1>1, <1>3, BeginsSound

\* What a scan finds and gathers are names of its handle.
LEMMA ScanFrameSound ==
    ASSUME Sound, NEW c \in Clients, NEW m \in Masters, ScanMaster(c, m) \/ SendNames(c, m),
           UNCHANGED redisVars
    PROVE  Sound'
<1> DEFINE k == call[c]
           found == {n \in OnMaster(m) : Matches(c, k.filter, n)}
           left == k.todo \ {m}
           more == k.ready \cup {m}
           less == k.ready \ {m}
           all == k.names \cup k.shared
           Fits(frame) == /\ frame \in Call /\ Own(c, frame.names) /\ Own(c, frame.shared)
                          /\ call' = [call EXCEPT ![c] = frame]
<1>1. k \in Call /\ Own(c, k.names) /\ Own(c, k.shared)
  BY DEF Sound, FramesInv
<1>2. found \in SUBSET Names /\ Own(c, found) /\ Own(c, {})
  BY DEF Sound, DataInv, Database, OnMaster, Matches, Own
<1>3. /\ left \in SUBSET {1, 2} /\ more \in SUBSET {1, 2} /\ less \in SUBSET {1, 2}
      /\ all \in SUBSET Names /\ Own(c, all)
  BY <1>1 DEF Masters, Call, Own
<1>4. \E frame : Fits(frame)
  <2>1. CASE SendNames(c, m)
    <3> DEFINE frame == [k EXCEPT !.ready = less, !.names = all]
    <3>1. call' = [call EXCEPT ![c] = frame]
      BY <2>1 DEF SendNames
    <3> HIDE DEF less, all, k
    <3>2. frame \in Call /\ frame.names = all /\ frame.shared = k.shared
      BY <1>1, <1>3 DEF Call
    <3> HIDE DEF frame
    <3> QED BY <1>1, <1>3, <3>1, <3>2
  <2>2. CASE call' = [call EXCEPT ![c].todo = @ \ {m}, ![c].ready = @ \cup {m}, ![c].shared = found]
    <3> DEFINE frame == [k EXCEPT !.todo = left, !.ready = more, !.shared = found]
    <3>1. call' = [call EXCEPT ![c] = frame]
      <4> HIDE DEF found
      <4> QED BY <1>1, <2>2 DEF Call, Sound, FramesInv
    <3> HIDE DEF left, more, found, k
    <3>2. frame \in Call /\ frame.names = k.names /\ frame.shared = found
      BY <1>1, <1>2, <1>3 DEF Call
    <3> HIDE DEF frame
    <3> QED BY <1>1, <1>2, <3>1, <3>2
  <2>3. CASE call' = [call EXCEPT ![c].todo = @ \ {m}, ![c].shared = {}, ![c].err = TRUE]
    <3> DEFINE frame == [k EXCEPT !.todo = left, !.shared = {}, !.err = TRUE]
    <3>1. call' = [call EXCEPT ![c] = frame]
      BY <1>1, <2>3 DEF Call, Sound, FramesInv
    <3> HIDE DEF left, k
    <3>2. frame \in Call /\ frame.names = k.names /\ frame.shared = {}
      BY <1>1, <1>3 DEF Call
    <3> HIDE DEF frame
    <3> QED BY <1>1, <1>2, <3>1, <3>2
  <2>4. CASE call' = [call EXCEPT ![c].todo = @ \ {m}, ![c].shared = {}, ![c].ready = @ \cup {m}]
    <3> DEFINE frame == [k EXCEPT !.todo = left, !.shared = {}, !.ready = more]
    <3>1. call' = [call EXCEPT ![c] = frame]
      BY <1>1, <2>4 DEF Call, Sound, FramesInv
    <3> HIDE DEF left, more, k
    <3>2. frame \in Call /\ frame.names = k.names /\ frame.shared = {}
      BY <1>1, <1>3 DEF Call
    <3> HIDE DEF frame
    <3> QED BY <1>1, <1>2, <3>1, <3>2
  <2> HIDE DEF Fits
  <2> QED BY <2>1, <2>2, <2>3, <2>4 DEF ScanMaster
<1>5. PICK frame : Fits(frame)
  BY <1>4
<1>6. FramesInv'
  BY <1>5, FrameTyped DEF Sound
<1>7. /\ UNCHANGED <<used, cluster, now, drained, issued, answer, db>>
      /\ failures' = failures \/ Fails
  BY DEF ScanMaster, SendNames, Rest
<1>8. AnswersInv' /\ Sends(db) /\ Database(db, issued, Elements(drained), now)
  BY <1>7, SameAnswer, SilentSends DEF Sound, DataInv
<1> QED BY <1>6, <1>7, <1>8, LaterSound

\* GET shows of a name a value that was written under it, if any.
LEMMA ShownMatches ==
    ASSUME Sound, NEW n \in Names
    PROVE  Shown(n) \in [of : Names, n : Int] \cup {NoValue} /\ (Shown(n) = NoValue \/ Shown(n).of = n)
<1>1. CASE ~Stored(db, n) \/ db[n].kind \notin {"str", "int"}
  BY <1>1 DEF Shown
<1>2. CASE Stored(db, n) /\ db[n].kind \in {"str", "int"}
  <2>1. Holds(n, db[n].kind, db[n].val, issued, Elements(drained))
    BY <1>2 DEF Sound, DataInv, Database, Stored
  <2>2. n.key \in Keys
    BY DEF Names
  <2>3. /\ db[n].kind = "int" => db[n].val \in Int
        /\ db[n].kind = "str" => db[n].val \in Written(n, issued)
    BY <1>2, <2>1, <2>2, KeysDiffer DEF Holds, Keys
  <2>4. CASE db[n].kind = "int"
    BY <1>2, <2>3, <2>4 DEF Shown
  <2>5. CASE db[n].kind = "str"
    <3>1. Shown(n) = db[n].val
      BY <1>2, <2>5 DEF Shown
    <3>2. \A v \in Written(n, issued) : v \in [of : Names, n : Int] /\ v.of = n
      BY DEF Written
    <3> QED BY <2>3, <2>5, <3>1, <3>2
  <2> QED BY <1>2, <2>4, <2>5
<1> QED BY <1>1, <1>2

\* The way back from a name of a scan leads to that name.
LEMMA AskedIsName ==
    ASSUME NEW c \in Clients, NEW n \in Names, HandleOf[c].prefix \in {"", n.prefix}
    PROVE  Asked(c, n) = n
BY DEF Asked, Prefixed, cleanKey, Names

\* A set of pairs that match is an answer.
LEMMA AnswerMatches ==
    ASSUME NEW pairs, answer' = pairs,
           \A p \in pairs : p \in Answer /\ (p.val = NoValue \/ p.val.of = p.name)
    PROVE  AnswersInv'
BY DEF AnswersInv, AnswersMatch, Answer, Names, KeyPrefixes, NoValue, NoName

\* The end of a scan, and what follows it.
LEMMA ScanEndsSound ==
    ASSUME Sound, NEW c \in Clients, ScanEnds(c) \/ AnswerKeys(c) \/ FetchValues(c),
           UNCHANGED redisVars
    PROVE  Sound'
<1>1. call[c] \in Call /\ Own(c, call[c].names)
  BY DEF Sound, FramesInv
<1>2. /\ Return(c) \/ Goto(c, call[c].for)
      /\ UNCHANGED <<used, cluster, now, drained, issued, db>>
      /\ failures' = failures \/ Fails
  BY DEF ScanEnds, AnswerKeys, FetchValues, Rest
<1>3. FramesInv'
  BY <1>1, <1>2, ReturnTyped, GotoTyped DEF Sound, Call
<1>4. AnswersInv'
  <2>1. CASE ScanEnds(c)
    BY <2>1, SameAnswer DEF ScanEnds, Sound
  <2>2. CASE AnswerKeys(c)
    <3>1. answer' = {[name |-> n, val |-> NoValue] : n \in call[c].names}
      BY <2>2 DEF AnswerKeys
    <3>2. \A n \in call[c].names : [name |-> n, val |-> NoValue] \in Answer
      <4>1. call[c].names \subseteq Names
        BY <1>1 DEF Call
      <4>2. NoValue \in [of : Names, n : Int] \cup {NoValue}
        OBVIOUS
      <4> QED BY <4>1, <4>2 DEF Answer
    <3> QED BY <3>1, <3>2, AnswerMatches
  <2>3. CASE FetchValues(c)
    <3> DEFINE pairs == {[name |-> n, val |-> Shown(Asked(c, n))] : n \in call[c].names}
    <3>1. answer' = pairs \/ answer' = {}
      BY <2>3 DEF FetchValues
    <3>2. ASSUME NEW p \in pairs PROVE p \in Answer /\ (p.val = NoValue \/ p.val.of = p.name)
      <4>1. PICK n \in call[c].names : p = [name |-> n, val |-> Shown(Asked(c, n))]
        OBVIOUS
      <4>2. n \in Names /\ HandleOf[c].prefix \in {"", n.prefix}
        BY <1>1 DEF Call, Own
      <4>3. p = [name |-> n, val |-> Shown(n)]
        BY <4>1, <4>2, AskedIsName
      <4> QED BY <4>2, <4>3, ShownMatches DEF Answer
    <3> HIDE DEF pairs
    <3> QED BY <3>1, <3>2, AnswerMatches, NoAnswer
  <2> QED BY <2>1, <2>2, <2>3
<1>5. Sends(db) /\ Database(db, issued, Elements(drained), now)
  BY <1>2, SilentSends DEF Sound, DataInv
<1> QED BY <1>2, <1>3, <1>4, <1>5, LaterSound

\* The deletions of a scan, one by one.
LEMMA DeleteScannedSound ==
    ASSUME Sound, NEW c \in Clients, NEW n \in call[c].names, DeleteScanned(c, n), UNCHANGED redisVars
    PROVE  Sound'
<1> DEFINE frame == [call[c] EXCEPT !.names = call[c].names \ {n}]
<1>1. call[c] \in Call /\ Own(c, call[c].names) /\ Own(c, call[c].shared)
  BY DEF Sound, FramesInv
<1>2. /\ Sends(Del(db, {n}))
      /\ Return(c) \/ call' = [call EXCEPT ![c] = frame]
      /\ UNCHANGED <<used, cluster, now, drained, issued, answer>>
  BY <1>1 DEF DeleteScanned
<1>3. /\ frame \in Call /\ Own(c, frame.names) /\ Own(c, frame.shared)
  BY <1>1 DEF Call, Own
<1> HIDE DEF frame
<1>4. FramesInv' /\ AnswersInv'
  BY <1>2, <1>3, ReturnTyped, FrameTyped, SameAnswer DEF Sound
<1>5. Database(Del(db, {n}), issued, Elements(drained), now)
  BY DatabaseDel DEF Sound, DataInv
<1> QED BY <1>2, <1>4, <1>5, LaterSound

\* A reader's pairs are of one name and what that name holds.
LEMMA ReadSound ==
    ASSUME Sound, NEW c \in Clients, Read(c) \/ ReadUnchecked(c), UNCHANGED redisVars
    PROVE  Sound'
<1> DEFINE Good(pairs) == \A p \in pairs : p \in Answer /\ (p.val = NoValue \/ p.val.of = p.name)
<1>1. /\ Starts(c) \/ StartsUnchecked(c)
      /\ \E pairs : Answers(c, pairs)
  BY Zenon DEF Read, ReadUnchecked
<1>2. /\ Counted /\ issued \in Nat
      /\ Database(db, issued', Elements(drained), now) /\ Database(db, issued, Elements(drained), now)
  BY <1>1, CallBegins
<1>3. ASSUME NEW n \in Names PROVE Good(Pairs(n, {Shown(n)}))
  BY <1>3, ShownMatches DEF Pairs, Answer
<1>4. ASSUME NEW n \in Names, NEW vals, vals \subseteq Written(n, issued) PROVE Good(Pairs(n, vals))
  <2>1. \A v \in vals : v \in [of : Names, n : Int] /\ v.of = n
    BY <1>2, <1>4 DEF Written
  <2> QED BY <2>1 DEF Pairs, Answer
<1>5. \A k \in Keys : fixKey(c, k) \in Names /\ fixKey(c, k).key = k /\ Raw(k) \in Names
  BY NamesTyped
<1>6. \A k \in StringKeys : k \in Keys /\ Good(GetKey(c, k)) /\ Good(GetRawKey(k))
  <2> HIDE DEF Good
  <2>1. Good({})
    BY DEF Good
  <2> QED BY <1>3, <1>5, <2>1 DEF GetKey, GetRawKey, Keys
<1>7. Good(GetMultiKey(c))
  <2>1. \A n \in {fixKey(c, k) : k \in StringKeys} : n \in Names
    BY <1>5 DEF Keys
  <2>2. \A n \in {fixKey(c, k) : k \in StringKeys} : Good(Pairs(n, {Shown(n)}))
    BY <1>3, <2>1
  <2> QED BY <2>2 DEF GetMultiKey
<1>8. Good(GetSet(c)) /\ \A v : Good(IsMemberOfSet(c, v))
  <2>1. Content(db, fixKey(c, "set"), "set") \subseteq Written(fixKey(c, "set"), issued)
    BY <1>2, <1>5, ContentHolds DEF Keys
  <2>2. Good(GetSet(c))
    BY <1>4, <1>5, <2>1 DEF GetSet, Keys
  <2> QED BY <2>2 DEF IsMemberOfSet
<1>9. Good(GetListRange(c))
  <2> DEFINE n == fixKey(c, "list")
             s == Content(db, n, "list")
  <2>1. n \in Names /\ s \in Seq(Written(n, issued))
    BY <1>2, <1>5, ContentHolds DEF Keys
  <2>2. Members(s) \subseteq Written(n, issued)
    <3> HIDE DEF s
    <3>1. Elements(s) \subseteq Written(n, issued)
      BY <2>1, ElementsTyped
    <3> QED BY <3>1 DEF Members, ToSet, Elements
  <2> HIDE DEF Good, n, s
  <2>3. Good(Pairs(n, Members(s)))
    BY <1>4, <2>1, <2>2
  <2> QED BY <2>3 DEF GetListRange, n, s
<1>10. \A from, to : Good(GetSortedSetRange(c, from, to))
  <2> DEFINE n == fixKey(c, "sorted")
  <2>1. n \in Names /\ \A m \in Content(db, n, "zset") : m.member \in Written(n, issued)
    BY <1>2, <1>5, ContentHolds DEF Keys
  <2>2. \A from, to : {m.member : m \in {x \in Content(db, n, "zset") : x.score \in from .. to}}
                        \subseteq Written(n, issued)
    BY <2>1
  <2> HIDE DEF Good, n
  <2>3. \A from, to : Good(Pairs(n, {m.member : m \in {x \in Content(db, n, "zset") : x.score \in from .. to}}))
    BY <1>4, <2>1, <2>2
  <2> QED BY <2>3 DEF GetSortedSetRange, n
<1> HIDE DEF Good
<1>11. \E pairs : Good(pairs) /\ Answers(c, pairs)
  <2>1. CASE Read(c)
    BY <1>6, <1>7, <1>8, <2>1 DEF Read
  <2>2. CASE ReadUnchecked(c)
    BY <1>9, <1>10, <2>2 DEF ReadUnchecked
  <2> QED BY <2>1, <2>2
<1>12. PICK pairs : Good(pairs) /\ Answers(c, pairs)
  BY <1>11
<1>13. AnswersInv'
  BY <1>12, AnswerMatches DEF Answers, Good
<1>14. /\ call' = call /\ UNCHANGED <<used, cluster, now, drained, db, failures>>
  BY <1>12 DEF Answers, Rest
<1>15. FramesInv' /\ Sends(db)
  BY <1>14, SameFrames, SilentSends DEF Sound
<1> QED BY <1>2, <1>13, <1>14, <1>15, CommandSound

\* What expires in time goes; what stays expires later, or never.
LEMMA TickSound == ASSUME Sound, Tick, UNCHANGED redisVars PROVE Sound'
<1> DEFINE old == {n \in DOMAIN db : db[n].exp # Never /\ db[n].exp <= now + 1}
<1>1. /\ now' = now + 1 /\ now < MaxTime /\ db' = Del(db, old)
      /\ UNCHANGED <<used, cluster, call, answer, drained, issued, failures>>
  BY DEF Tick, Evict
<1>2. /\ ScalarsInv /\ FramesInv /\ AnswersInv /\ DrainedInv /\ RedisTypeOK
      /\ Database(db, issued, Elements(drained), now)
  BY DEF Sound, DataInv
<1>3. ScalarsInv'
  BY <1>1, <1>2, StorageAssumption DEF ScalarsInv
<1>4. FramesInv' /\ AnswersInv'
  BY <1>1, <1>2, SameFrames, SameAnswer
<1>5. DrainedInv'
  BY <1>1, <1>2 DEF DrainedInv, Distinct
<1>6. DataInv'
  <2>1. ASSUME NEW n \in DOMAIN Del(db, old)
        PROVE  /\ n \in DOMAIN db /\ Del(db, old)[n] = db[n] /\ n \notin old
    BY <2>1 DEF Del
  <2>2. ASSUME NEW n \in DOMAIN db, n \notin old PROVE Lasting(db[n].exp, now + 1)
    <3>1. Lasting(db[n].exp, now) /\ now \in Nat
      BY <1>2, StorageAssumption DEF Database, ScalarsInv
    <3> QED BY <2>2, <3>1 DEF Lasting, Never
  <2> HIDE DEF old
  <2>3. Database(Del(db, old), issued, Elements(drained), now + 1)
    BY <1>2, <2>1, <2>2 DEF Database
  <2>4. Database(db', issued', Elements(drained'), now')
    BY <1>1, <2>3
  <2> QED BY <2>4 DEF DataInv, Elements, Database, Holds, Lasting, Written, Distinct, Entry
<1>7. RedisTypeOK'
  BY <1>2 DEF RedisTypeOK, redisVars
<1> QED BY <1>3, <1>4, <1>5, <1>6, <1>7 DEF Sound

\* A program starts without calls, and with strings at most, each of its own name.
LEMMA InitSound == Init => Sound
<1> SUFFICES ASSUME Init PROVE Sound
  OBVIOUS
<1>1. ScalarsInv
  <2>1. used \in Workloads => MaxCalls[used] \in Nat
    BY StorageAssumption
  <2> QED BY <2>1, StorageAssumption DEF Init, ScalarsInv
<1>2. FramesInv
  <2>1. call = [c \in Clients |-> IdleCall]
    BY DEF Init
  <2> QED BY <2>1, IdleTyped DEF FramesInv, Own
<1>3. AnswersInv
  BY DEF Init, AnswersInv, AnswersMatch
<1>4. drained = <<>> /\ Elements(drained) = {} /\ issued = 0 /\ now = 0
  BY DEF Init, Elements
<1>5. DrainedInv
  <2>1. Len(drained) = 0 /\ DOMAIN drained = {}
    BY <1>4
  <2> DEFINE A == [of : Names, n : 0 .. issued]
  <2>2. drained \in Seq(A)
    <3> HIDE DEF A
    <3> QED BY <1>4
  <2> QED BY <2>1, <2>2 DEF DrainedInv, Distinct
<1>6. DataInv
  <2>1. PICK names \in {{}, {n \in Names : n.key \in StringKeys \cap used}} :
           db = [n \in names |-> [kind |-> "str", val |-> [of |-> n, n |-> 0], exp |-> Never]]
    BY DEF Init
  <2>2. ASSUME NEW n \in DOMAIN db
        PROVE  /\ n \in Names /\ n.key \in StringKeys
               /\ db[n] = [kind |-> "str", val |-> [of |-> n, n |-> 0], exp |-> Never]
    BY <2>1
  <2>3. ASSUME NEW n \in DOMAIN db PROVE Holds(n, "str", [of |-> n, n |-> 0], 0, {})
    <3>1. [of |-> n, n |-> 0] \in Written(n, 0)
      BY DEF Written
    <3> QED BY <2>2, <3>1, KeysDiffer DEF Holds
  <2>4. ASSUME NEW n \in DOMAIN db
        PROVE  /\ Entry(db[n]) /\ db[n].kind = "str" /\ db[n].val = [of |-> n, n |-> 0]
               /\ Lasting(db[n].exp, 0)
    BY <2>2 DEF Entry, Lasting
  <2>5. Database(db, 0, {}, 0)
    BY <2>2, <2>3, <2>4 DEF Database
  <2> QED BY <1>4, <2>5 DEF DataInv
<1>7. RedisTypeOK
  <2>1. RedisInit
    BY DEF Init
  <2>2. reachable \in BOOLEAN /\ redisUp \in BOOLEAN /\ disabled \in BOOLEAN
    BY <2>1 DEF RedisInit
  <2>3. outages \in 0 .. MaxOutages /\ switches \in 0 .. MaxSwitches
    BY <2>1, ConnectionAssumption DEF RedisInit
  <2>4. monitor \in [pc : {"off", "probe", "publish", "wait", "stopped"}, at : Pools,
                    first : BOOLEAN, ok : BOOLEAN]
    BY <2>1 DEF RedisInit, Pools
  <2>5. pools \subseteq Pools /\ switching \in {"no", "off", "on"}
    BY <2>1 DEF RedisInit
  <2> QED BY <2>2, <2>3, <2>4, <2>5 DEF RedisTypeOK
<1> QED BY <1>1, <1>2, <1>3, <1>5, <1>6, <1>7 DEF Sound

\* The connection keeps the types of its variables, in every step.
LEMMA ConnectionTyped ==
    ASSUME RedisTypeOK,
           \/ MonitorSteps \/ ConnectToRedis \/ MonitorStops
           \/ DisableRedisReturns \/ (\E ok \in BOOLEAN : DisableRedis(ok))
           \/ RedisGoesAway \/ RedisComesBack
           \/ UNCHANGED redisVars
    PROVE  RedisTypeOK'
<1>1. CASE ConnectToRedis
  BY <1>1 DEF RedisTypeOK, ConnectToRedis
<1>2. CASE ProbeSucceeds
  <2>1. monitor' \in [pc : {"off", "probe", "publish", "wait", "stopped"}, at : Pools,
                     first : BOOLEAN, ok : BOOLEAN]
    <3>1. monitor' = [monitor EXCEPT !.at = 2, !.ok = TRUE]
            \/ monitor' = [monitor EXCEPT !.pc = "publish", !.ok = TRUE]
      BY <1>2 DEF ProbeSucceeds
    <3>2. 2 \in Pools
      BY DEF Pools
    <3> QED BY <3>1, <3>2 DEF RedisTypeOK
  <2>2. pools' \subseteq Pools
    BY <1>2 DEF RedisTypeOK, ProbeSucceeds
  <2> QED BY <1>2, <2>1, <2>2 DEF RedisTypeOK, ProbeSucceeds, MonitorUnchanged
<1>3. CASE ProbeFails
  BY <1>3 DEF RedisTypeOK, ProbeFails, MonitorUnchanged, Pools
<1>4. CASE Publish
  BY <1>4 DEF RedisTypeOK, Publish, MonitorUnchanged
<1>5. CASE MonitorTick
  BY <1>5 DEF RedisTypeOK, MonitorTick, MonitorUnchanged, Pools
<1>6. CASE MonitorStops
  BY <1>6 DEF RedisTypeOK, MonitorStops, MonitorUnchanged
<1>7. CASE \E ok \in BOOLEAN : DisableRedis(ok)
  BY <1>7, ConnectionAssumption DEF RedisTypeOK, DisableRedis
<1>8. CASE DisableRedisReturns
  BY <1>8 DEF RedisTypeOK, DisableRedisReturns
<1>9. CASE RedisGoesAway \/ RedisComesBack
  <2>1. reachable' \in BOOLEAN
    BY <1>9 DEF RedisGoesAway, RedisComesBack
  <2>2. outages' \in 0 .. MaxOutages
    BY <1>9, ConnectionAssumption DEF RedisTypeOK, RedisGoesAway, RedisComesBack
  <2> QED BY <1>9, <2>1, <2>2 DEF RedisTypeOK, RedisGoesAway, RedisComesBack
<1>10. CASE UNCHANGED redisVars
  BY <1>10 DEF RedisTypeOK, redisVars
<1> QED BY <1>1, <1>2, <1>3, <1>4, <1>5, <1>6, <1>7, <1>8, <1>9, <1>10 DEF MonitorSteps

\* The connection's steps leave the values alone.
LEMMA UntouchedSound == ASSUME Sound, UNCHANGED storageVars, RedisTypeOK' PROVE Sound'
<1>1. UNCHANGED <<used, cluster, db, now, call, answer, drained, issued, failures>>
  BY DEF storageVars
<1>2. ScalarsInv' /\ FramesInv' /\ AnswersInv'
  BY <1>1, SameFrames, SameAnswer DEF Sound, ScalarsInv
<1>3. DrainedInv'
  BY <1>1 DEF Sound, DrainedInv, Distinct
<1>4. DataInv'
  <2>1. Database(db', issued', Elements(drained'), now')
    BY <1>1 DEF Sound, DataInv
  <2> QED BY <2>1 DEF DataInv, Elements, Database, Holds, Lasting, Written, Distinct, Entry
<1> QED BY <1>2, <1>3, <1>4 DEF Sound

\* The methods that write, at their first command.
LEMMA WritesSound == ASSUME Sound, NEW c \in Clients, Writes(c), UNCHANGED redisVars PROVE Sound'
<1>1. CASE \E k \in UsedStrings, ttl \in {0, Ttl} : SetKey(c, k, ttl) \/ SetRawKey(c, k, ttl)
  BY <1>1, SetSound
<1>2. CASE \E k \in used \ {"window"} : SetExp(c, k)
  BY <1>2, SetExpSound
<1>3. CASE \/ \E k \in used : DeleteKey(c, k) \/ DeleteRawKey(c, k)
           \/ DeleteKeys(c) \/ DeleteAllKeys(c)
  <2>1. \E names : Deletes(c, names)
    BY <1>3 DEF DeleteKey, DeleteRawKey, DeleteKeys, DeleteAllKeys
  <2> QED BY <2>1, DeletesSound
<1>4. CASE Decrement(c) \/ IncrememntWithExpire(c)
  BY <1>4, DecrementSound, IncrementSound
<1>5. CASE AppendToSetPipelined(c) \/ GetAndDeleteSet(c)
  BY <1>5, PipelinedSound, DrainSound
<1>6. CASE \/ AppendToSet(c) \/ AddToSet(c) \/ AddToSortedSet(c) \/ RemoveSortedSetRange(c)
           \/ \E v : RemoveFromList(c, v) \/ RemoveFromSet(c, v)
  BY <1>6, CollectionSound
<1>7. CASE \E own, tx \in BOOLEAN : SetRollingWindow(c, own, tx)
  BY <1>7, RollingWindowSound
<1> QED BY <1>1, <1>2, <1>3, <1>4, <1>5, <1>6, <1>7 DEF Writes

\* The later commands of a method.
LEMMA ContinuesSound ==
    ASSUME Inv, Sound, NEW c \in Clients, Continues(c), UNCHANGED redisVars PROVE Sound'
<1>1. CASE ExpireCounter(c) \/ CheckExp(c) \/ SetListExp(c)
  BY <1>1, LaterExpireSound
<1>2. CASE Transaction(c) \/ PipelineStep(c)
  BY <1>2, TransactionSound, PipelineSound
<1>3. CASE \E m \in Masters : ScanMaster(c, m) \/ SendNames(c, m)
  BY <1>3, ScanFrameSound
<1>4. CASE ScanEnds(c) \/ AnswerKeys(c) \/ FetchValues(c)
  BY <1>4, ScanEndsSound
<1>5. CASE \E n \in call[c].names : DeleteScanned(c, n)
  BY <1>5, DeleteScannedSound
<1> QED BY <1>1, <1>2, <1>3, <1>4, <1>5 DEF Continues

\* The methods that read, at their first command.
LEMMA ReadsSound == ASSUME Sound, NEW c \in Clients, Reads(c), UNCHANGED redisVars PROVE Sound'
<1>1. CASE Read(c) \/ ReadUnchecked(c)
  BY <1>1, ReadSound
<1>2. CASE \E tx \in BOOLEAN : GetRollingWindow(c, tx)
  BY <1>2, RollingWindowSound
<1>3. CASE \/ \E filter \in UsedStrings \cup {""} : GetKeys(c, filter) \/ GetKeysAndValuesWithFilter(c, filter)
           \/ DeleteScanMatch(c)
  <2>1. UsedStrings \cup {""} \subseteq Keys \cup {""} /\ "" \in Keys \cup {""}
    BY UsedKeys DEF Sound
  <2> QED BY <1>3, <2>1, ScanSound DEF GetKeys, GetKeysAndValuesWithFilter, DeleteScanMatch
<1> QED BY <1>1, <1>2, <1>3 DEF Reads

\* Every step keeps the values in order, and so does none.
LEMMA NextSound == Inv /\ Sound /\ [Next]_vars => Sound'
<1> SUFFICES ASSUME Inv, Sound, [Next]_vars PROVE Sound'
  OBVIOUS
<1>1. CASE \E c \in Clients : (Writes(c) \/ Continues(c) \/ Reads(c)) /\ UNCHANGED redisVars
  BY <1>1, WritesSound, ContinuesSound, ReadsSound
<1>2. CASE Tick /\ UNCHANGED redisVars
  BY <1>2, TickSound
<1>3. CASE Monitor \/ Connection \/ UNCHANGED vars
  <2>1. RedisTypeOK'
    BY <1>3, ConnectionTyped DEF Sound, Monitor, Connection, vars, MonitorSteps
  <2>2. UNCHANGED storageVars
    BY <1>3 DEF Monitor, Connection, vars
  <2> QED BY <2>1, <2>2, UntouchedSound
<1> QED BY <1>1, <1>2, <1>3 DEF Next

-------------------------------------------------------------------------------
(* The steps, and the theorems *)

\* Only strings may be there from earlier.
LEMMA InitInv == Init => Inv
<1> SUFFICES ASSUME Init PROVE Inv
  OBVIOUS
<1>1. CallsInv
  BY DEF Init, CallsInv, IdleCall
<1>2. ~Stored(db, Counter) /\ ~Stored(db, Window)
  <2>1. PICK names \in {{}, {n \in Names : n.key \in StringKeys \cap used}} :
           db = [n \in names |-> [kind |-> "str", val |-> [of |-> n, n |-> 0], exp |-> Never]]
    BY DEF Init
  <2>2. Counter.key = "counter" /\ Window.key = "window"
    BY DEF Counter, Window, Raw
  <2> QED BY <2>1, <2>2, StorageAssumption DEF Stored
<1>3. CounterInv
  BY <1>2 DEF Init, CounterInv, CounterHasDeadline, Counter
<1>4. \A c \in Clients : ~Windowing(c)
  BY DEF Init, Windowing, IdleCall
<1>5. WindowInv
  BY <1>2, <1>4 DEF Init, WindowInv
<1> QED BY <1>1, <1>3, <1>5 DEF Inv

\* What Redis evicts when its time comes is no hit's window before the hit's period
\* is over.
LEMMA TickInv == ASSUME Inv, Tick PROVE Inv'
<1> DEFINE names == {n \in DOMAIN db : db[n].exp # Never /\ db[n].exp <= now + 1}
<1>1. /\ now' = now + 1 /\ db' = Del(db, names)
      /\ UNCHANGED <<call, hits, erased, issued, failures>>
  BY DEF Tick, Evict
<1>2. CounterInv /\ CallsInv /\ WindowInv
  BY DEF Inv
<1>3. /\ Fewer(db, db', Counter) /\ Fewer(db, db', Window)
      /\ Window \notin names => Same(db, db', Window)
  BY <1>1, DelEffect
<1>4. CallsInv'
  BY <1>1, <1>2 DEF CallsInv
<1>5. CounterInv'
  BY <1>1, <1>2, <1>3 DEF CounterInv, CounterHasDeadline, Counter, Fewer, Stored
<1>6. now \in Nat /\ issued \in Nat /\ Ttl \in Nat
  BY <1>2, StorageAssumption DEF WindowInv
<1>7. ASSUME NEW h \in hits'
      PROVE  /\ h.at \in 0 .. now'
             /\ h.member.n \in 2 .. issued'
             /\ ~erased' /\ h.at + Ttl > now' => Kept(db', h)
  <2>1. h.at \in 0 .. now /\ h.member.n \in 2 .. issued'
    BY <1>1, <1>2, <1>7 DEF WindowInv
  <2>2. ASSUME ~erased', h.at + Ttl > now' PROVE Kept(db', h)
    <3>1. Kept(db, h)
      BY <1>1, <1>2, <1>6, <1>7, <2>1, <2>2 DEF WindowInv
    <3>2. Window \notin names
      BY <1>1, <1>6, <2>1, <2>2, <3>1 DEF Kept, Never
    <3> QED BY <1>3, <3>1, <3>2 DEF Kept, Same, Stored
  <2> QED BY <1>1, <1>6, <2>1, <2>2
<1>8. \A c \in Clients : Windowing(c)' => Windowing(c) /\ call'[c].from \in 0 .. now'
  BY <1>1, <1>2, <1>6 DEF WindowInv, Windowing
<1>9. WindowInv'
  <2>1. now' \in Nat /\ issued' \in Nat /\ (Stored(db, Window) => Entry(db[Window]))'
    BY <1>1, <1>2, <1>3, <1>6 DEF WindowInv, Fewer, Stored
  <2> HIDE DEF names
  <2> QED BY <1>1, <1>2, <1>7, <1>8, <2>1 DEF WindowInv, Windowing, Kept
<1> QED BY <1>4, <1>5, <1>9 DEF Inv

\* The connection's steps, and no step, leave the storage alone.
LEMMA UntouchedInv == ASSUME Inv, UNCHANGED storageVars PROVE Inv'
<1>1. UNCHANGED <<db, now, call, hits, erased, issued, failures>>
  BY DEF storageVars
<1>2. CallsInv' /\ CounterInv'
  BY <1>1 DEF Inv, CallsInv, CounterInv, CounterHasDeadline
<1>3. WindowInv'
  BY <1>1 DEF Inv, WindowInv, Windowing, Kept
<1> QED BY <1>2, <1>3 DEF Inv

\* The methods that write, at their first command.
LEMMA WritesInv == ASSUME Inv, NEW c \in Clients, Writes(c) PROVE Inv'
<1>1. CASE \E k \in UsedStrings, ttl \in {0, Ttl} : SetKey(c, k, ttl) \/ SetRawKey(c, k, ttl)
  BY <1>1, SetQuiet, QuietInv
<1>2. CASE \E k \in used \ {"window"} : SetExp(c, k)
  BY <1>2, SetExpInv
<1>3. CASE \/ \E k \in used : DeleteKey(c, k) \/ DeleteRawKey(c, k)
           \/ DeleteKeys(c) \/ DeleteAllKeys(c)
  <2>1. \E names : Deletes(c, names)
    BY <1>3 DEF DeleteKey, DeleteRawKey, DeleteKeys, DeleteAllKeys
  <2> QED BY <2>1, DeletesQuiet, QuietInv
<1>4. CASE Decrement(c) \/ IncrememntWithExpire(c)
  BY <1>4, DecrementInv, IncrementInv
<1>5. CASE AppendToSetPipelined(c) \/ GetAndDeleteSet(c)
  BY <1>5, ListQuiet, QuietInv
<1>6. CASE \/ AppendToSet(c) \/ AddToSet(c) \/ AddToSortedSet(c) \/ RemoveSortedSetRange(c)
           \/ \E v : RemoveFromList(c, v) \/ RemoveFromSet(c, v)
  BY <1>6, CollectionQuiet, QuietInv
<1>7. CASE \E own, tx \in BOOLEAN : SetRollingWindow(c, own, tx)
  BY <1>7, RollingWindowInv
<1> QED BY <1>1, <1>2, <1>3, <1>4, <1>5, <1>6, <1>7 DEF Writes

\* The later commands of a method.
LEMMA ContinuesInv == ASSUME Inv, NEW c \in Clients, Continues(c) PROVE Inv'
<1>1. CASE ExpireCounter(c)
  BY <1>1, ExpireCounterInv
<1>2. CASE CheckExp(c) \/ SetListExp(c)
  BY <1>2, ListQuiet, QuietInv
<1>3. CASE Transaction(c) \/ PipelineStep(c)
  BY <1>3, TransactionInv, PipelineInv
<1>4. CASE (\E m \in Masters : ScanMaster(c, m) \/ SendNames(c, m)) \/ ScanEnds(c) \/ AnswerKeys(c) \/ FetchValues(c)
  BY <1>4, ScanQuiet, QuietInv
<1>5. CASE \E n \in call[c].names : DeleteScanned(c, n)
  BY <1>5, DeleteScannedQuiet, QuietInv
<1> QED BY <1>1, <1>2, <1>3, <1>4, <1>5 DEF Continues

\* The methods that read, at their first command.
LEMMA ReadsInv == ASSUME Inv, NEW c \in Clients, Reads(c) PROVE Inv'
<1>1. CASE Read(c) \/ ReadUnchecked(c)
  BY <1>1, ReadQuiet, QuietInv
<1>2. CASE \E tx \in BOOLEAN : GetRollingWindow(c, tx)
  BY <1>2, RollingWindowInv
<1>3. CASE (\E filter : GetKeys(c, filter) \/ GetKeysAndValuesWithFilter(c, filter)) \/ DeleteScanMatch(c)
  BY <1>3, ScanQuiet, QuietInv
<1> QED BY <1>1, <1>2, <1>3 DEF Reads

\* Every step keeps the invariant, and so does none.
LEMMA NextInv == Inv /\ [Next]_vars => Inv'
<1> SUFFICES ASSUME Inv, [Next]_vars PROVE Inv'
  OBVIOUS
<1>1. CASE \E c \in Clients : Writes(c) \/ Continues(c) \/ Reads(c)
  BY <1>1, WritesInv, ContinuesInv, ReadsInv
<1>2. CASE Tick
  BY <1>2, TickInv
<1>3. CASE Monitor \/ Connection \/ UNCHANGED vars
  BY <1>3, UntouchedInv DEF Monitor, Connection, vars
<1> QED BY <1>1, <1>2, <1>3 DEF Next

\* The invariant holds in every reachable state.
LEMMA InvHolds == Spec => []Inv
  BY InitInv, NextInv, PTL DEF Spec

\* A counter above zero that nothing will expire is never left behind by an
\* increment whose commands all succeeded (IncrememntWithExpire), whatever
\* decrements, deletions and expiries come between its INCR and its EXPIRE.
THEOREM CounterHasDeadlineHolds == Spec => []CounterHasDeadline
<1>1. Inv => CounterHasDeadline
  BY DEF Inv, CounterInv
<1> QED BY <1>1, InvHolds, PTL

\* A transaction's hit stays in its rolling window for the whole period, whatever
\* pipelines, older clocks and expiries come in between, for any number of clients
\* and any period: only a deletion of the key takes it away earlier.
THEOREM WindowKeepsHitsHolds == Spec => []WindowKeepsHits
<1>1. Inv => WindowKeepsHits
  <2> SUFFICES ASSUME Inv, ~erased, NEW h \in hits, h.at + Ttl > now
               PROVE  \E m \in Content(db, Window, "zset") : m.member = h.member
    BY DEF WindowKeepsHits, Window
  <2>1. Kept(db, h)
    BY DEF Inv, WindowInv
  <2>2. [member |-> h.member, score |-> h.at] \in Content(db, Window, "zset")
    BY <2>1 DEF Kept, Content
  <2> QED BY <2>2
<1> QED BY <1>1, InvHolds, PTL
\* So are the values.
LEMMA SoundHolds == Spec => []Sound
<1>1. Inv /\ Sound /\ [Next]_vars => (Inv /\ Sound)'
  BY NextInv, NextSound
<1> QED BY InitInv, InitSound, <1>1, PTL DEF Spec

\* The variables hold values of their types, for any workloads, handles and bounds.
THEOREM TypeCorrect == Spec => []TypeOK
<1>1. Sound => TypeOK
  <2> SUFFICES ASSUME Sound PROVE TypeOK
    OBVIOUS
  <2>1. ASSUME NEW n \in DOMAIN db
        PROVE  /\ n \in Names
               /\ db[n].kind \in {"int", "str", "list", "set", "zset"}
               /\ db[n].exp = Never \/ db[n].exp > now
    <3>1. n \in Names /\ Holds(n, db[n].kind, db[n].val, issued, Elements(drained)) /\ Lasting(db[n].exp, now)
      BY DEF Sound, DataInv, Database
    <3>2. n.key \in Keys
      BY <3>1 DEF Names
    <3>3. db[n].kind \in {"int", "str", "list", "set", "zset"}
      BY <3>1, <3>2 DEF Holds, Keys
    <3> QED BY <3>1, <3>3 DEF Lasting
  <2>2. drained \in Seq(Values)
    <3> DEFINE A == [of : Names, n : 0 .. issued]
    <3>1. issued \in Nat
      BY StorageAssumption DEF Sound, ScalarsInv
    <3>2. A \subseteq Values
      BY <3>1 DEF Values
    <3>3. drained \in Seq(A)
      BY DEF Sound, DrainedInv
    <3> HIDE DEF A
    <3> QED BY <3>2, <3>3, ElementsTyped
  <2> QED BY <2>1, <2>2 DEF TypeOK, Sound, ScalarsInv, FramesInv, AnswersInv, Answer
<1> QED BY <1>1, SoundHolds, PTL

\* What a method answers for a name was written under that name, for any prefixes
\* and hashing of the handles and any number of clients that write, delete and
\* scan at the same time.
THEOREM AnswersMatchHolds == Spec => []AnswersMatch
<1>1. Sound => AnswersMatch
  BY DEF Sound, AnswersInv
<1> QED BY <1>1, SoundHolds, PTL

\* No value of a list is handed out twice, nor once and still there: of any number
\* of callers of GetAndDeleteSet one at most gets it, whichever answers are lost.
THEOREM DrainedOnceHolds == Spec => []DrainedOnce
<1>1. Sound => DrainedOnce
  <2> SUFFICES ASSUME Sound PROVE DrainedOnce
    OBVIOUS
  <2>1. IsInjective(drained)
    BY DEF Sound, DrainedInv, Distinct, IsInjective
  <2>2. ASSUME NEW n \in DOMAIN db, db[n].kind = "list"
        PROVE  ToSet(drained) \cap Members(db[n].val) = {}
    <3>1. n \in Names /\ Holds(n, db[n].kind, db[n].val, issued, Elements(drained))
      BY DEF Sound, DataInv, Database
    <3>2. n.key \in Keys
      BY <3>1 DEF Names
    <3>3. n.key = "list"
      BY <2>2, <3>1, <3>2 DEF Holds, Keys
    <3>4. Elements(db[n].val) \cap Elements(drained) = {}
      BY <3>1, <3>3 DEF Holds
    <3> QED BY <3>4 DEF Elements, Members, ToSet
  <2> QED BY <2>1, <2>2 DEF DrainedOnce
<1> QED BY <1>1, SoundHolds, PTL
===============================================================================
