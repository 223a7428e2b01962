----------------------------- MODULE MCNbNetwork -----------------------------
(* Instances of NbNetwork for TLC. *)
EXTENDS NbNetwork, TLC

Symmetry == Permutations(Replica) \cup Permutations(Id \ Imported)
=============================================================================
