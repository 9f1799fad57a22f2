\* blocks of two, two consumers and bulks of three, for either kind of producer;
\* three threads and two nodes; two producers and two consumers with tokens
CONSTANTS
  t1 = t1
  t3 = t3
  n1 = n1
  BLOCK_SIZE = 2
  EXPLICIT_INITIAL_INDEX_SIZE = 2
  MAX_SUBQUEUE_SIZE = 100
  CqConsumers = {k1, k2}
  CqBulk = 3
  CqItems = 7
  CqCalls = 1
  BulkMayFail = FALSE
  IMPLICIT_INITIAL_INDEX_SIZE = 2
  PoolSize = 1
  ImpItems = 7
  FlThreads = {t1, t2, t3}
  FlNodes = {n1, n2}
  NoNode = NoNode
  FlCalls = 2
  TrProducers = {1, 2}
  TrConsumers = {c1, c2}
  QUOTA = 2
  Offsets = 4
  TrBulk = 2
  TrItems = 2
  TrCalls = 2
SPECIFICATION MoodySpec
SYMMETRY Alike
INVARIANTS CqInv CountsAgree ImpInv FlInv EveryProducerTried
CHECK_DEADLOCK FALSE
