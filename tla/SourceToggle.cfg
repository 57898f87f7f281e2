CONSTANTS
  Threshold = 2
  ParkAfter = 1
SPECIFICATION Spec
INVARIANTS
  OperatorOffStaysOff
