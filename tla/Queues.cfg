\* the ring: two producers and a consumer, two slots and two kinds of elements;
\* the blocking queue: two producers and two consumers with bulks of two; the
\* table: three threads and a first table of two entries, one thread exits
CONSTANTS
  NumProducers = 2
  NumConsumers = 1
  QSize <- QSizeOf2
  MaxPos = 3
  Values = {a, b}
  NoValue = NoValue
  TimedWait = TRUE
  BqProducers = {p1, p2}
  BqConsumers = {c1, c2}
  m_maxSpins = 1
  MaxBulk = 2
  BqItems = 2
  BqCalls = 1
  PtThreads = {t1, t2, t3}
  EmptyKey = EmptyKey
  TombKey = TombKey
  InitialHashSize = 2
  PtCalls = 3
  PtExits = 1
SPECIFICATION QueuesSpec
INVARIANTS NoOverrun NoSlotRace FifoDelivery IInv BqInv PtInv
PROPERTIES TicketsUsedOnce NothingStuck WaitersServed SameProducerAgain GetReturns
CHECK_DEADLOCK FALSE
