CONSTANTS
  MaxGeneration = 2
  Names = {"a", "b"}
  Failures = 1
  Crashes = 1
  Absent = Absent
  NoRow = NoRow
SPECIFICATION Spec

  
PROPERTIES
  ImplementsAtomicAppliance
  ArmedSettles
CHECK_DEADLOCK FALSE
