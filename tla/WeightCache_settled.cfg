CONSTANTS
  NumContexts = 2
  NumCommandBuffers = 3
  MaxWrites = 2
  Budget = 1
  Ways = {1, 2}
  Reusable = FALSE
  Writes = "settled"
SPECIFICATION Spec
INVARIANTS TypeOK FreshCoefficients ReadOnlyOncePublished OnOwnFile
