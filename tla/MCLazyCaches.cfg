SPECIFICATION FairSpec
CONSTANTS
  Threads = {t1, t2}
  Worker = w
  d1 = d1
  unknown = unknown
  small = small
  Dims <- MCDims
  Figures <- MCFigures
  Tile <- MCTile
  NoThread = NoThread
  Unset = Unset
  MayRaise = TRUE
  Installed = TRUE
  MaxLookups = 4
INVARIANTS FilledOnce ReadersAgree
PROPERTIES BlindOnlyDuringImport LookupsReturn
CHECK_DEADLOCK FALSE
