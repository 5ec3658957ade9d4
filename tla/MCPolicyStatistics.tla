------------------------- MODULE MCPolicyStatistics -------------------------
(* Small instances of PolicyStatistics. *)
EXTENDS PolicyStatistics
=============================================================================
