SPECIFICATION Spec
CONSTANTS
  MaxGeneration = 2
  MaxRehome = 1
CHECK_DEADLOCK FALSE
INVARIANTS
  OfferIsTimed
  
  RestoredIsWelcome
PROPERTIES
  TicketReachesTarget
  RehomeIsKept
