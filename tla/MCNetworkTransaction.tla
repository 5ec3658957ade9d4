------------------------ MODULE MCNetworkTransaction ------------------------
EXTENDS NetworkTransaction, TLC

(* Configurations are interchangeable. *)
Symmetry == Permutations(Configs)
=============================================================================
