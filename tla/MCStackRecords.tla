---------------------------- MODULE MCStackRecords ----------------------------
(* Instances of StackRecords: two roots that can include each other's files. *)
EXTENDS StackRecords, TLC

CONSTANTS p1, p2, p3, f1, f2, n1, n2

MCRoot == [p \in Proc |-> IF p = p2 THEN f2 ELSE f1]
=============================================================================
