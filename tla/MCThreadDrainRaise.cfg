SPECIFICATION FairSpec
CONSTANTS
  NPending = 3
  NSlices = 2
  Cut <- MCCutPair
  MayFail = {3}
  MayViolate = {}
PROPERTIES
  AlwaysEnds
CHECK_DEADLOCK FALSE
