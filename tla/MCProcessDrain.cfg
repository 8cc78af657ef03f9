SPECIFICATION FairSpec
CONSTANTS
  NPending = 6
  NWorkers = 2
  MayFail = {5}
  MayViolate = {2}
  MayBreak = TRUE
INVARIANTS
  BacklogBounded
  WindowFull
  DistinctPins
  NothingRunsAfterEnd
PROPERTIES
  DeliverySpec
  AlwaysEnds
CHECK_DEADLOCK FALSE
