------------------------------ MODULE MCIdentity ------------------------------
(* Small instance of Identity: two users, two passwords. *)
EXTENDS Identity, TLC

Symmetry == Permutations(Users) \cup Permutations(Passwords)
=============================================================================
