SPECIFICATION Spec
CONSTANTS
  Root <- MCRoot
  Calls <- MCCalls
  Perturbation = 2
  MinCapacity = 2
  Relative = 1000
INVARIANT AssumeDenseIsSafe
CHECK_DEADLOCK FALSE
