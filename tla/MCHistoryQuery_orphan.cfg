\* A restore that fails while a call waits for its answer on the transport restored.
SPECIFICATION Spec
CONSTANTS
  Group = 2
  Bytes = 3
  Queries = {q1}
  MaxGeneration = 3
  MaxChunks = 1
  MaxWire = 1
  QueueLimit = 1
  Window = 1
  MaxFaults = 2
CHECK_DEADLOCK FALSE
INVARIANT InterruptedIsTold
