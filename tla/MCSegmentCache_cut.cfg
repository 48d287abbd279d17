SPECIFICATION Spec
CONSTANTS
  Clients = {c1}
  Bars = {2, 4, 6}
  Period = 2
  TailRefresh = 1
  Page = 1
  Limit = 2
  Requests <- MCRequests
  Start = 5
  Horizon = 8
  MaxQueries = 4
  MaxFaults = 1
  Ahead = 0
CHECK_DEADLOCK FALSE
INVARIANTS
  VerifiedCoverage
