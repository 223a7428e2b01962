--------------------------- MODULE MCSharedConnector ---------------------------
(* Instances of SharedConnector for TLC. *)
EXTENDS SharedConnector, TLC

Symmetry == Permutations(Worker) \cup Permutations(Manager)
=============================================================================
