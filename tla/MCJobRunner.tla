----------------------------- MODULE MCJobRunner -----------------------------
(* Small instances of JobRunner for TLC.  One tick is 30s in the runs that   *)
(* use the default configuration: lease 5m, grace at most 30s, back-off from *)
(* 1m up to 1h.                                                              *)
EXTENDS JobRunner

CONSTANTS w1, w2, k1, k2

MCBackoff == [n \in 1 .. MaxMaxAttempts |-> RetryDelay[n]]

OneEach == [w \in Workers |-> 1]
TwoForW2 == [w \in Workers |-> IF w = w2 THEN 2 ELSE 1]

NoSkew == [w \in Workers |-> 0]
SkewedW2 == [w \in Workers |-> IF w = w2 THEN MaxSkew ELSE 0]
===============================================================================
