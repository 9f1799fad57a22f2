\* two threads hand functions to a loop whose poll() has no timeout, and start
\* and stop it; two producers and two consumers on a queue of two; a resolver
\* with two threads, a queue of two each, and a request that finds its queue full;
\* a connection with two chunks to write, an acceptor with three clients and two
\* threads, an SSL connection with two flights and two writes of two records each
\* way, and a Timeouter used in the thread of the loop
CONSTANTS
  Threads = {t1, t2}
  Controllers = {t1, t2}
  MaxPerEvent = 2
  LoopTimesOut = FALSE
  Kinds = {"plain", "again", "exit"}
  MaxCallbacks = 3
  MaxFailures = 1
  Producers = {p1, p2}
  Consumers = {c1, c2}
  Items = {a, b, c, d}
  None = None
  max_size = 2
  fifo_policy = TRUE
  AtFront = {}
  Callers = {u1, u2}
  Requests = {1, 2, 3, 4, 5}
  num_threads = 2
  queue_size = 2
  End = End
  SocketTestsWork = TRUE
  ChunkSize = 1
  MaxWrites = 2
  MaxIn = 2
  ReadLimit = 0
  MaxCalls = 1
  MaxClients = 3
  ClientThreads = 2
  Flights = 2
  MaxRecords = 2
  ChunkRecords = 2
  TimeoutIds = {x, y}
  NoTimeout = NoTimeout
  AnyThread = FALSE
  MaxAlarms = 4
SPECIFICATION MCNetSpec
INVARIANTS CallbacksInv NoLostWakeup PcqInv DnsInv
  TcpInv AccInv SslInv HandedOverOrDeleted TimeouterInv ClearedStaysQuiet
PROPERTIES OneLoopThread CallbackRuns LoopMovesOn ResolverAnswers
  ReadBeforeCloseRead FlushCloses HandshakeEnds
CHECK_DEADLOCK FALSE
