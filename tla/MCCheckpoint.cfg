SPECIFICATION Spec
CONSTANTS
  NChunks = 3
  Terms <- MCTerms
  TermCells = 3
  Modes = {"sequential", "parallel"}
  MayMix = FALSE
  Radix = 2
  TornWrites = TRUE
  Cuts = {1, 7}
  MaxSessions = 4
INVARIANTS
  RecordedHasFrame
  ResumeIsExact
  AlignedUnlessTorn
  SequentialLosesNothing
  SequentialInOrder
CHECK_DEADLOCK FALSE
