------------------------- MODULE MCPolicyManagement -------------------------
EXTENDS PolicyManagement, TLC

(* Operators and values are interchangeable. *)
Symmetry == Permutations(Operators) \cup Permutations(Values)
=============================================================================
