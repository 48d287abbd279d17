SPECIFICATION FairSpec
CONSTANTS
  MaxGeneration = 2
  MaxRehome = 1
CHECK_DEADLOCK FALSE
INVARIANTS
  OneLoop
  LossIsOwned
  NoStraySocket
  ClosedIsQuiet
PROPERTIES
  CloseEnds
  
