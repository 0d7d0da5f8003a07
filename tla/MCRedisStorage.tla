--------------------------- MODULE MCRedisStorage ----------------------------
EXTENDS RedisStorage, TLC

\* One client with a prefix and hashed keys, one on the raw names.
MCHandleOf == "c1" :> [prefix |-> "p", hashed |-> TRUE] @@
              "c2" :> [prefix |-> "", hashed |-> FALSE]
MCStringKeys == {"k1"}

MCMaxCalls == {"k1", "list"} :> 2 @@ {"counter"} :> 4 @@ {"set", "sorted"} :> 3
              @@ {"window"} :> 3 @@ {"list"} :> 3 @@ {} :> 0

\* None, not set, and one second.
MCListExpiries == {Never, 0, 1}
MCSwitched == {{}, {"list"}}
MCWorkloads == DOMAIN MCMaxCalls
==============================================================================
