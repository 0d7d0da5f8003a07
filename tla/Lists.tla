-------------------------------- MODULE Lists ---------------------------------
(***************************************************************************)
(* Loops over lists as recursive functions, which proofs can unfold;       *)
(* SelectSeq and the folds are opaque to the provers.                      *)
(***************************************************************************)
EXTENDS Integers, Sequences

\* The members of the list s that are in S, in their order.
Keep(s, S) ==
    LET kept[n \in 0 .. Len(s)] ==
            IF n = 0 THEN <<>>
            ELSE IF s[n] \in S THEN Append(kept[n - 1], s[n]) ELSE kept[n - 1]
    IN  kept[Len(s)]
===============================================================================
