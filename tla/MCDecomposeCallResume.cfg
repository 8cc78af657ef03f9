SPECIFICATION Spec
CONSTANTS
  NotThere = NotThere
  Unlimited = Unlimited
  Machines <- MCMachines
  Operators <- MCOperators
  Programs <- MCPrograms
  BadRows <- MCBadRows
  MaxRuns = 2
CHECK_DEADLOCK FALSE
INVARIANT SameCallResumes
