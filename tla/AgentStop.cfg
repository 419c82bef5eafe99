CONSTANTS
  NumStops = 1
  EventCap = 4
  MaxReports = 1
SPECIFICATION Spec
INVARIANT StopReachesRunner
