CONSTANTS
  K = K
  L = L
  M = M
  X = X
  ModuleNames = {K, L, M, X}
  MaxFrom = 2
  Inputs <- AllInputs
SPECIFICATION Spec
INVARIANT EveryModuleOnce
PROPERTY OrderSpec
CHECK_DEADLOCK FALSE
