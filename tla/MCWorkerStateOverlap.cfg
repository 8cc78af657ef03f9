SPECIFICATION Spec
CONSTANTS
  first = first
  second = second
  Calls <- MCCalls
  NThreads = 2
  NChunks = 2
  MayRaise <- MCMayRaise
  MayOverlap = TRUE
  None = None
  Outer = Outer
INVARIANTS
  OwnOperator
CHECK_DEADLOCK FALSE
