SPECIFICATION Spec
CONSTANTS
  NumTargets = 2
  App <- SecondApp
  Interval = 1
  CycleBound = 1
  StallTimeout = 2
  UnauthorizedCycles = 2
  MaxResponses = 1
  MaxClock = 4
INVARIANTS
  Inv
  StallIsReal
  UnauthorizedForTokens
PROPERTIES
  ReadyStays
CHECK_DEADLOCK FALSE
