SPECIFICATION Spec
CONSTANTS
  NChunks = 3
  Terms <- MCTerms
  TermCells = 3
  Modes = {"parallel"}
  MayMix = FALSE
  Radix = 2
  TornWrites = TRUE
  Cuts = {1, 7}
  MaxSessions = 4
INVARIANTS
  OnlyTheTailIsTorn
CHECK_DEADLOCK FALSE
