SPECIFICATION FairSpec
CONSTANTS
  alice = alice
  bob = bob
  local = local
  Credentials = {alice, bob}
  Owner <- MCOwner
  Local = local
  Requests <- MCRequests
  Sources = {s1}
  Capacity = 3
  ActorCapacity = 1
  Retention = 1
  MaxJobs = 3
  MaxTime = 1
CHECK_DEADLOCK FALSE
INVARIANTS
  ExclusiveJobs
  RevokedJobsNeverRun
PROPERTIES
  AcceptedIsAnswered
