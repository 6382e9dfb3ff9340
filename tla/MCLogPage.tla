------------------------------- MODULE MCLogPage -------------------------------
(* LogPage for TLC: the writers are alike, and so are the connections.      *)
EXTENDS LogPage, TLC

Symmetry == Permutations(Writers) \union Permutations(Clients)
=============================================================================
