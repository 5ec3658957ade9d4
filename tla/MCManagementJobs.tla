-------------------------- MODULE MCManagementJobs --------------------------
(* Two users and the local operator, two slots for their jobs and one for  *)
(* the scheduled scan.                                                     *)
EXTENDS ManagementJobs

CONSTANTS alice, bob, local

MCOwner == [c \in {alice, bob} |-> c]

(* Each kind at least once, the exclusive ones from two sides. *)
MCRequests ==
  {<<alice, "refresh">>, <<bob, "refresh">>, <<alice, "import">>,
   <<bob, "restore">>, <<local, "restore">>,
   <<bob, "create">>, <<local, "csr">>, <<local, "diagnostics">>}
=============================================================================
