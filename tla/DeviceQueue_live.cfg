CONSTANTS
  h = h
  q = q
  r = r
  NumContexts = 2
  NumUnits = 2
  HostSems = {h}
  QueueSems = {q, r}
  MaxValue = 2
  MaxHost = 1
  Kinds = {"execute", "barrier", "transfer", "hostcall", "notify"}
  WaitLists <- LongWaits
  SignalLists <- LongSignals
  MayPanic = FALSE
SPECIFICATION FairSpec
INVARIANTS OutcomeReported
PROPERTIES EveryUnitSettles DestroyReturns KeepsContract
