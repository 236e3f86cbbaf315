CONSTANTS
  NumContexts = 1
  NumCommandBuffers = 3
  MaxWrites = 2
  Budget = 1
  Ways = {1}
  Reusable = FALSE
  Writes = "racing"
SPECIFICATION Spec
INVARIANT CacheCoherent
