SPECIFICATION Spec
CONSTANTS
  NotThere = NotThere
  Unlimited = Unlimited
  Machines <- MCShort
  Operators <- MCOperators
  Programs <- MCPrograms
  BadRows <- MCBadRows
  MaxRuns = 1
CHECK_DEADLOCK FALSE
INVARIANT ProcessesFitMemory
