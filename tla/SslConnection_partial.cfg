\* a chunk that needs two records
CONSTANTS
  Flights = 2
  MaxRecords = 2
  ChunkRecords = 2
SPECIFICATION SslSpec
INVARIANT RecordsComplete
CHECK_DEADLOCK FALSE
