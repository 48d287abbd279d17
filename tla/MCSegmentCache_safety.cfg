SPECIFICATION Spec
CONSTANTS
  Clients = {c1, c2}
  Bars = {2, 4, 6}
  Period = 2
  TailRefresh = 1
  Page = 1
  Limit = 2
  Requests <- MCRequests
  Start = 6
  Horizon = 8
  MaxQueries = 3
  MaxFaults = 1
  Ahead = 0
SYMMETRY MCSymmetry
CHECK_DEADLOCK FALSE
INVARIANTS
  TypeOK
  CoveredIsHeld
  
  RangeIsComplete
PROPERTIES
  RowsStay
