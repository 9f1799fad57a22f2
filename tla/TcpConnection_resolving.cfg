\* a connection that is closed, or whose name is not found, while it resolves
CONSTANTS
  SocketTestsWork = TRUE
  ChunkSize = 2
  MaxWrites = 1
  MaxIn = 2
  ReadLimit = 0
  MaxCalls = 1
SPECIFICATION TcpSpec
INVARIANT ResolvingEnds
CHECK_DEADLOCK FALSE
