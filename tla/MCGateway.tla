------------------------------ MODULE MCGateway ------------------------------
(* Two migrators of different builds and a gateway of the older one.          *)
EXTENDS Gateway, TLC

CONSTANTS m1, m2, r1, r2

MCHistory == <<1, 2, 3>>
MCBuildLength == (m1 :> 2) @@ (m2 :> 3)

\* Texts around the limits; environments that set one variable beside the URL.
MCTexts == {"", "0", "1", "100", "101", "-1", "2s", "db"}
MCNumber == [t \in MCTexts |-> [ok |-> t \in {"0", "1", "100", "101", "-1"},
                                value |-> CASE t = "1" -> 1 [] t = "100" -> 100
                                            [] t = "101" -> 101 [] t = "-1" -> -1 [] OTHER -> 0]]
MCDuration == [t \in MCTexts |-> [ok |-> t \in {"0", "2s"},
                                  value |-> IF t = "2s" THEN 2 ELSE 0]]
MCEnvironments ==
    {[(("DATABASE_URL" :> "db") @@ [v \in EnvNames |-> ""]) EXCEPT ![n] = t] :
         n \in EnvNames, t \in MCTexts}
===============================================================================
