--------------------------- MODULE RedisConnection ---------------------------
(***************************************************************************)
(* The monitor of the connection to Redis (pkg/storage/redis_cluster.go,   *)
(* ConnectToRedis) and its switches: redisUp, which the methods of the     *)
(* storage handler look at, and disableRedis.  The monitor probes the two  *)
(* pools, the plain one and the cache, every second.                       *)
(***************************************************************************)
EXTENDS Integers

CONSTANTS
    MaxOutages,   \* bound: times Redis goes away
    MaxSwitches   \* bound: calls of DisableRedis

ASSUME ConnectionAssumption == MaxOutages \in Nat /\ MaxSwitches \in Nat

VARIABLES
    reachable,   \* does Redis answer?
    outages,
    redisUp,
    disabled,    \* disableRedis
    pools,       \* the pools that have been created
    monitor,     \* the goroutine of ConnectToRedis
    switching,   \* a call of DisableRedis between its two stores, or "no"
    switches

redisVars == <<reachable, outages, redisUp, disabled, pools, monitor, switching, switches>>

Pools == 1 .. 2   \* {}, {IsCache: true}

RedisTypeOK ==
    /\ reachable \in BOOLEAN /\ outages \in 0 .. MaxOutages
    /\ redisUp \in BOOLEAN /\ disabled \in BOOLEAN
    /\ pools \subseteq Pools
    /\ monitor \in [pc : {"off", "probe", "publish", "wait", "stopped"}, at : Pools,
                    first : BOOLEAN,   \* the round before the ticker
                    ok : BOOLEAN]
    /\ switching \in {"no", "off", "on"} /\ switches \in 0 .. MaxSwitches

\* An atomic.Value that was never stored counts as FALSE.
RedisInit ==
    /\ reachable = TRUE /\ outages = 0
    /\ redisUp = FALSE /\ disabled = FALSE
    /\ pools = {}
    /\ monitor = [pc |-> "off", at |-> 1, first |-> TRUE, ok |-> FALSE]
    /\ switching = "no" /\ switches = 0

ConnectToRedis ==
    /\ monitor' = [monitor EXCEPT !.pc = "probe"]
    /\ UNCHANGED <<reachable, outages, redisUp, disabled, pools, switching, switches>>

MonitorUnchanged == UNCHANGED <<reachable, outages, disabled, switching, switches>>

\* connectSingleton and clusterConnectionIsOpen of one pool.
ProbeSucceeds ==
    /\ monitor.pc = "probe" /\ reachable
    /\ pools' = pools \cup {monitor.at}
    /\ monitor' = IF monitor.at = 1 THEN [monitor EXCEPT !.at = 2, !.ok = TRUE]
                  ELSE [monitor EXCEPT !.pc = "publish", !.ok = TRUE]
    /\ UNCHANGED redisUp /\ MonitorUnchanged

\* (Fault: a failed probe does not take redisUp back.)
ProbeFails_Bug ==
    /\ monitor.pc = "probe" /\ ~reachable
    /\ pools' = pools \cup {monitor.at}
    /\ monitor' = [monitor EXCEPT !.pc = IF monitor.first THEN "publish" ELSE "wait"]
    /\ UNCHANGED redisUp /\ MonitorUnchanged

\* The round ends.  The first round still publishes what it had found so far.
ProbeFails ==
    /\ monitor.pc = "probe" /\ ~reachable
    /\ pools' = pools \cup {monitor.at}
    /\ redisUp' = FALSE
    /\ monitor' = [monitor EXCEPT !.pc = IF monitor.first THEN "publish" ELSE "wait"]
    /\ MonitorUnchanged

\* redisUp.Store(ok), redisUp.Store(true)
Publish ==
    /\ monitor.pc = "publish"
    /\ redisUp' = (monitor.ok \/ ~monitor.first)
    /\ monitor' = [monitor EXCEPT !.pc = "wait"]
    /\ UNCHANGED pools /\ MonitorUnchanged

\* case <-tick.C: a disabled Redis is not probed.
MonitorTick ==
    /\ monitor.pc = "wait" /\ ~disabled
    /\ monitor' = [pc |-> "probe", at |-> 1, first |-> FALSE, ok |-> FALSE]
    /\ UNCHANGED <<redisUp, pools>> /\ MonitorUnchanged

\* case <-ctx.Done()
MonitorStops ==
    /\ monitor.pc = "wait"
    /\ monitor' = [monitor EXCEPT !.pc = "stopped"]
    /\ UNCHANGED <<redisUp, pools>> /\ MonitorUnchanged

\* DisableRedis(ok) stores redisUp first and the switch second.
DisableRedis(ok) ==
    /\ switching = "no" /\ switches < MaxSwitches
    /\ switches' = switches + 1
    /\ redisUp' = ~ok
    /\ switching' = IF ok THEN "off" ELSE "on"
    /\ UNCHANGED <<reachable, outages, disabled, pools, monitor>>

DisableRedisReturns ==
    /\ switching # "no"
    /\ disabled' = (switching = "off")
    /\ switching' = "no"
    /\ UNCHANGED <<reachable, outages, redisUp, pools, monitor, switches>>

RedisGoesAway ==
    /\ reachable /\ outages < MaxOutages
    /\ reachable' = FALSE /\ outages' = outages + 1
    /\ UNCHANGED <<redisUp, disabled, pools, monitor, switching, switches>>

RedisComesBack ==
    /\ ~reachable /\ reachable' = TRUE
    /\ UNCHANGED <<outages, redisUp, disabled, pools, monitor, switching, switches>>

MonitorSteps == ProbeSucceeds \/ ProbeFails \/ Publish \/ MonitorTick

RedisNext ==
    \/ MonitorSteps
    \/ DisableRedisReturns \/ \E ok \in BOOLEAN : DisableRedis(ok)
    \/ RedisGoesAway \/ RedisComesBack
==============================================================================
