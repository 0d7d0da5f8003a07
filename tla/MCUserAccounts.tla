--------------------------- MODULE MCUserAccounts ----------------------------
EXTENDS UserAccounts, TLC

\* Neither clients nor names are told apart.
Symmetric == Permutations(Clients) \cup Permutations(Names)
==============================================================================
