----------------------------- MODULE MCDailyCron ------------------------------
EXTENDS DailyCron

\* Records and subscribers of two cities.
MCCityOf == [i \in Items |-> IF i = 2 THEN "beijing" ELSE "wuhan"]
MCHomeOf == [r \in Subscribers |-> IF r = "ann" THEN "beijing" ELSE "wuhan"]
==============================================================================
