SPECIFICATION FairSpec
CONSTANTS
  NPending = 3
  NSlices = 3
  Cut <- MCCut
  MayFail = {3}
  MayViolate = {2}
INVARIANTS
  NothingLost
  NothingTwice
  ExitOnlyWhenDry
  CompleteMeansAll
  EarlyExitStillComputesAll
PROPERTIES
  DeliverySpec
  EndsUnlessWorkerRaises
CHECK_DEADLOCK FALSE
