SPECIFICATION Spec
CONSTANTS
  Group = 2
  Bytes = 3
  Queries = {q1}
  MaxGeneration = 2
  MaxChunks = 2
  MaxWire = 1
  QueueLimit = 1
  Window = 1
  MaxFaults = 3
CHECK_DEADLOCK FALSE
INVARIANTS
  BlocksRoundTrip
  BlocksInOrder
  TypeOK
  OneCancel
  TableIsClean
  WindowIsKept
  AbortMissesNone
PROPERTIES
  DeadStreamsKeepStill
  PromiseSpec
