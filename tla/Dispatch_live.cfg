CONSTANTS
  NumContexts = 2
  Cores = {k1}
  Shapes <- FannedShapes
  NumDispatches = 2
  NumBuffers = 4
  Budget = 1
  Quiescence = 1
  Floor = 1
  Watchdog = 2
  MayFail = FALSE
SPECIFICATION FairSpec
PROPERTY EveryDispatchEnds
