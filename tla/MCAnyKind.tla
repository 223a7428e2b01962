------------------------------ MODULE MCAnyKind ------------------------------
(* Instances of AnyKind for TLC. *)
EXTENDS AnyKind, TLC

CONSTANTS p1, p2

\* p1 comes before p2 in NetBird's answer.
Order == [p \in Net |-> IF p = p1 THEN 1 ELSE 2]
=============================================================================
