SPECIFICATION Spec
CONSTANTS
  Clients = {c1}
  Bars = {2, 4, 6}
  Period = 2
  TailRefresh = 1
  Page = 1
  Limit = 2
  Requests <- MCFutureRequests
  Start = 1
  Horizon = 6
  MaxQueries = 4
  MaxFaults = 1
  Ahead = 4
CHECK_DEADLOCK FALSE
PROPERTIES
  LatestIsComplete
