SPECIFICATION FairSpec
CONSTANTS
  Configs = {c1, c2, c3}
  Faults = 4
  MaxRevision = 3
  HelperMayCrash = TRUE
  KernelMayFail = TRUE
INVARIANTS
  ConsistentWhileHelperLives
PROPERTIES
  RollbackRestoresPrior
  JournalEndsInAgreement
  EventuallySettles
