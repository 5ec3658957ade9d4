SPECIFICATION FairSpec
CONSTANTS
  Workers = {k1}
  Capacity = 1
  BatchCapacity = 1
  MaxGeneration = 4
  MaxDatabase = 2
  MaxEvents = 2
  ControlOps = {"ipc", "mutation", "configure"}
  RefreshMayFail = TRUE
INVARIANTS
  EveryEventIsAccounted
PROPERTIES
  NoSampleCrossesRestore
  RestoreFinishes
CHECK_DEADLOCK FALSE
