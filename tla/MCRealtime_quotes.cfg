SPECIFICATION FairSpec
CONSTANTS
  p1 = p1
  p2 = p2
  Symbols = {x1}
  Sources = {p1, p2}
  Epochs <- MCEpochs
  MaxGeneration = 2
  MaxSeq = 2
  MaxRevision = 2
  MaxWire = 1
  QueueLimit = 1
  MaxFaults = 1
CHECK_DEADLOCK FALSE
INVARIANTS
  TypeOK
  CacheIsCurrent
  NoDowngrade
  Agreement
PROPERTIES
  
  
  Settles
  ClosedIsCut
