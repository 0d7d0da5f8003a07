---------------------------- MODULE RedisCommands ----------------------------
(***************************************************************************)
(* What Redis does with the commands that pkg/storage sends: the database  *)
(* is a function from the names in use to typed values with an expiry.     *)
(* Everything here is outside src/ and is as the code relies on it.        *)
(***************************************************************************)
EXTENDS Integers, FiniteSets, SequencesExt, Lists

Never == -1   \* no expiry

Empty == [int |-> 0, list |-> <<>>, set |-> {}, zset |-> {}]

Stored(d, n) == n \in DOMAIN d
Content(d, n, kind) == IF Stored(d, n) THEN d[n].val ELSE Empty[kind]

Del(d, names) == [n \in DOMAIN d \ names |-> d[n]]

Put(d, n, kind, val, exp) ==
    [m \in DOMAIN d \cup {n} |-> IF m = n THEN [kind |-> kind, val |-> val, exp |-> exp] ELSE d[m]]

\* A command that changes a value keeps its expiry, and an empty list or set is
\* no key.
Change(d, n, kind, val) ==
    IF kind # "int" /\ val = Empty[kind] THEN Del(d, {n})
    ELSE Put(d, n, kind, val, IF Stored(d, n) THEN d[n].exp ELSE Never)

Set(d, n, val, exp) == Put(d, n, "str", val, exp)
Incr(d, n, by)      == Change(d, n, "int", Content(d, n, "int") + by)
RPush(d, n, vals)   == Change(d, n, "list", Content(d, n, "list") \o vals)
LRem(d, n, v)       ==
    LET list == Content(d, n, "list") IN Change(d, n, "list", Keep(list, ToSet(list) \ {v}))
SAdd(d, n, v)       == Change(d, n, "set", Content(d, n, "set") \cup {v})
SRem(d, n, v)       == Change(d, n, "set", Content(d, n, "set") \ {v})

\* One member has one score.
ZAdd(d, n, m) ==
    Change(d, n, "zset", {x \in Content(d, n, "zset") : x.member # m.member} \cup {m})
ZRemUpTo(d, n, score) ==
    Change(d, n, "zset", {x \in Content(d, n, "zset") : x.score > score})

Expire(d, n, exp) == IF Stored(d, n) THEN [d EXCEPT ![n].exp = exp] ELSE d

\* EXPIRE for so many seconds from t: a key that is not to live any longer goes.
ExpireIn(d, n, t, seconds) ==
    IF seconds <= 0 THEN Del(d, {n}) ELSE Expire(d, n, t + seconds)

\* Time reaches t.
Evict(d, t) == Del(d, {n \in DOMAIN d : d[n].exp # Never /\ d[n].exp <= t})

Members(list) == ToSet(list)
==============================================================================
