SPECIFICATION FairSpec
CONSTANTS
  first = first
  second = second
  Calls <- MCCalls
  NThreads = 3
  NChunks = 3
  MayRaise <- MCMayRaise
  MayOverlap = FALSE
  None = None
  Outer = Outer
INVARIANTS
  OwnOperator
  StateRestored
  ThreadsBeforeChunks
PROPERTIES
  CallsEnd
CHECK_DEADLOCK FALSE
