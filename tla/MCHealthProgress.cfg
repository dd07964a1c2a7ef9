SPECIFICATION FairSpec
CONSTANTS
  NumTargets = 2
  App <- NoApp
  Interval = 1
  CycleBound = 1
  StallTimeout = 2
  UnauthorizedCycles = 1
  MaxResponses = 0
  MaxClock = 6
PROPERTIES
  HangReported
  ShutdownCompletes
CHECK_DEADLOCK FALSE
