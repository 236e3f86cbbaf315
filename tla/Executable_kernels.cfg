SPECIFICATION Spec
CONSTANTS
  Targets <- MCTargets
  Foreign <- MCForeign
  DispatchesOf <- MCDispatchesOf
  Buffers <- MCBuffers
INVARIANTS ResolvedAsMeant TemplatesAgree PoolWindows KernelReadsWritten MeasuredNeverPanics
\* A refused file and an aborted process are the end.
CHECK_DEADLOCK FALSE
