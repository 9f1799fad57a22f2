\* bulks that may fail for want of memory
SPECIFICATION CqSpec
CONSTANTS
  BLOCK_SIZE = 2
  EXPLICIT_INITIAL_INDEX_SIZE = 2
  MAX_SUBQUEUE_SIZE = 100
  CqConsumers = {c1, c2}
  CqBulk = 3
  CqItems = 6
  CqCalls = 1
  BulkMayFail = TRUE
INVARIANT ClaimFindsItem
CHECK_DEADLOCK FALSE
