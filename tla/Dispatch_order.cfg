CONSTANTS
  NumContexts = 2
  Cores = {k1, k2}
  Shapes <- SingleShapes
  NumDispatches = 3
  NumBuffers = 3
  Budget = 1
  Quiescence = 2
  Floor = 2
  Watchdog = 3
  MayFail = FALSE
SPECIFICATION Spec
INVARIANTS ProgramIntact OrderedDenseQuiesced
SYMMETRY SwapCores
