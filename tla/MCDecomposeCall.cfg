SPECIFICATION Spec
CONSTANTS
  NotThere = NotThere
  Unlimited = Unlimited
  Machines <- MCMachines
  Operators <- MCOperators
  Programs <- MCPrograms
  BadRows <- MCBadRows
  MaxRuns = 3
CHECK_DEADLOCK FALSE
INVARIANTS
  TypeOK
  EveryRowOnce
  ViolationNeverPasses
  AutomaticNeverRefused
PROPERTIES
  EachCallDelivers
