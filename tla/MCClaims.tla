------------------------------- MODULE MCClaims -------------------------------
(* An instance of Claims: stacks of two manifests that share a hostname; one *)
(* of the manifests has a fixed port as well.                                *)
EXTENDS Claims, TLC

CONSTANTS p1, p2, p3, n1, n2, host, port, ours, theirs

\* p1 and p3 run one manifest, p2 the other.
MCManifest == [p \in Process |-> IF p = p2 THEN theirs ELSE ours]
\* All want the hostname; without a shared port it is all that keeps them apart.
MCWants == [p \in Process |-> IF p = p2 THEN {host} ELSE Name]
=============================================================================
