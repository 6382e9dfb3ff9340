-------------------------- MODULE ManifestOwnership --------------------------
(***************************************************************************)
(* What the stack records promise, with no records, locks or PIDs: every   *)
(* running devhost process holds a set of manifest files, and a process    *)
(* takes files only while no other process holds any of them.              *)
(***************************************************************************)
CONSTANTS Proc,     \* devhost processes, one incarnation each
          File      \* canonical paths of manifests and their included files

VARIABLE holds      \* holds[p]: the files process p holds

TypeOK == holds \in [Proc -> SUBSET File]

Init == holds = [p \in Proc |-> {}]

\* p replaces what it holds by S, none of which another process holds.
Take(p, S) ==
  /\ \A q \in Proc \ {p} : holds[q] \cap S = {}
  /\ holds' = [holds EXCEPT ![p] = S]

\* p stops, or exits without stopping: it holds nothing any more.
Drop(p) == holds' = [holds EXCEPT ![p] = {}]

Next == \E p \in Proc : Drop(p) \/ \E S \in SUBSET File : Take(p, S)

Spec == Init /\ [][Next]_holds

\* No manifest file is held by two processes.
Exclusive == \A p, q \in Proc : p # q => holds[p] \cap holds[q] = {}
=============================================================================
