SPECIFICATION Spec
CONSTANTS
  Targets <- AdmittedPools
  Foreign = {}
  DispatchesOf <- MCDispatchesOf
  Buffers <- MCBuffers
INVARIANTS
  SplitsWide
CHECK_DEADLOCK FALSE
