--------------------------- MODULE MCNbAccessToken ---------------------------
(* Instances of NbAccessToken for TLC. *)
EXTENDS NbAccessToken, TLC

CONSTANTS u1, u2

Symmetry == Permutations(Replica) \cup Permutations(Id \ Imported)

\* u1 comes before u2 in NetBird's answer.
Order == [u \in User |-> IF u = u1 THEN 1 ELSE 2]
=============================================================================
