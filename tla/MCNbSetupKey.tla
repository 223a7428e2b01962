---------------------------- MODULE MCNbSetupKey ----------------------------
(* Instances of NbSetupKey for TLC. *)
EXTENDS NbSetupKey, TLC

CONSTANTS n1

Symmetry == Permutations(Replica) \cup Permutations(Id \ Imported)

OneName == [m \in MR |-> n1]
=============================================================================
