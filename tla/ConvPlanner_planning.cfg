SPECIFICATION Spec
CONSTANTS
  Calls <- MCCalls
  Buffers <- MCBuffers
INVARIANTS TilesCompute BanksSuffice NeverPanics AdmittedIsPlanned ProgramPlaced FilterPacked ChainIsIdentity
