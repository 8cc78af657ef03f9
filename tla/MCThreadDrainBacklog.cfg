SPECIFICATION Spec
CONSTANTS
  NPending = 6
  NSlices = 2
  Cut <- MCCutSix
  MayFail = {}
  MayViolate = {}
INVARIANTS
  StreamBounded
CHECK_DEADLOCK FALSE
