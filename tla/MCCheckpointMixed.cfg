SPECIFICATION Spec
CONSTANTS
  NChunks = 3
  Terms <- MCTerms
  TermCells = 3
  Modes = {"sequential", "parallel"}
  MayMix = TRUE
  Radix = 2
  TornWrites = FALSE
  Cuts = {1, 7}
  MaxSessions = 4
INVARIANTS
  ModesNeverCollide
CHECK_DEADLOCK FALSE
