\* A send that fails while the server is away, for a small instance.
SPECIFICATION FairSpec
CONSTANTS
  Group = 2
  Bytes = 3
  Queries = {q1}
  MaxGeneration = 2
  MaxChunks = 1
  MaxWire = 1
  QueueLimit = 1
  Window = 1
  MaxFaults = 1
CHECK_DEADLOCK FALSE
PROPERTY CallEnds
