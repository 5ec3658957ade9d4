SPECIFICATION Spec
CONSTANTS
  Operators = {o1}
  Values = {v1, v2}
  MaxId = 2
  Mutations = 3
  Faults = 2
SYMMETRY Symmetry
CHECK_DEADLOCK FALSE
INVARIANTS
  HonestHealth
  AcknowledgedIsDurable
