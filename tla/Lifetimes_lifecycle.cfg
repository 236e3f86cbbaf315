SPECIFICATION Spec
CONSTANTS
  NumContexts = 2
  Budget = 1048575
  Requests <- MCRequests
  RegcmdBytes = 4096
  MaxDevices = 2
  MaxBuffers = 1
  MaxRecords = 2
  MaxUnits = 2
  MaxFd = 8
INVARIANTS RefsBalance PoolAccounts HandlesAreOwn Reclaimed
CHECK_DEADLOCK FALSE
