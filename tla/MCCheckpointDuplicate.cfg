SPECIFICATION Spec
CONSTANTS
  NChunks = 3
  Terms <- MCTerms
  TermCells = 3
  Modes = {"parallel"}
  MayMix = FALSE
  Radix = 2
  TornWrites = FALSE
  Cuts = {1, 7}
  MaxSessions = 4
INVARIANTS
  NoDuplicate
CHECK_DEADLOCK FALSE
