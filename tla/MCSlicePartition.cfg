SPECIFICATION Spec
CONSTANTS
  MaxPending = 24
  MaxWorkers = 9
  MaxCores = 5
INVARIANTS
  SlicesPartition
  DriftIsBounded
CHECK_DEADLOCK FALSE
