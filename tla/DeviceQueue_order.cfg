CONSTANTS
  h = h
  q = q
  r = r
  NumContexts = 2
  NumUnits = 3
  HostSems = {h}
  QueueSems = {q, r}
  MaxValue = 2
  MaxHost = 1
  Kinds = {"execute", "transfer"}
  WaitLists <- ShortWaits
  SignalLists <- ShortSignals
  MayPanic = TRUE
SPECIFICATION Spec
INVARIANTS TypeOK DependencyOrder InOrder SignalsNeverRegress ShutdownDrains PanicContained
SYMMETRY SwapQueueSems
CHECK_DEADLOCK FALSE
