----------------------------- MODULE MCRecovery -----------------------------
(* Recovery on small instances. *)
EXTENDS Recovery
=============================================================================
