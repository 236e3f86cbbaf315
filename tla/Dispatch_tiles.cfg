CONSTANTS
  NumContexts = 2
  Cores = {k1, k2}
  Shapes <- TiledShapes
  NumDispatches = 2
  NumBuffers = 4
  Budget = 1
  Quiescence = 0
  Floor = 1
  Watchdog = 2
  MayFail = TRUE
SPECIFICATION Spec
INVARIANTS OkMeansDone EpilogueLast PoolExclusive
SYMMETRY SwapCores
