SPECIFICATION Spec
CONSTANTS
  Target = {t1}
  Pool = {core, graphql}
  Cost <- TwoPoints
  Limit = 3
  Window = 3
  Threshold = 2
  Fallback = 1
  TokenLife = 3
  Margin = 2
  MaxClock = 5
INVARIANT
  TokenValidWhenSent
CHECK_DEADLOCK FALSE
