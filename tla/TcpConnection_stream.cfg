\* two chunks in outbuf_, of which the first is written in part
CONSTANTS
  SocketTestsWork = TRUE
  ChunkSize = 2
  MaxWrites = 2
  MaxIn = 1
  ReadLimit = 0
  MaxCalls = 1
SPECIFICATION TcpSpec
INVARIANT StreamInOrder
CHECK_DEADLOCK FALSE
