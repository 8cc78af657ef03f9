SPECIFICATION Spec
CONSTANTS
  Root <- MCRoot
  Calls <- MCCalls
  Perturbation = 2
  MinCapacity = 2
  Relative = 1000
INVARIANTS
  ResultIsTheDecomposition
  Reconstructs
  RefusedIsNotHermitian
  AcceptedIsReal
  OracleAgrees
  BuildersAgree
CHECK_DEADLOCK FALSE
