SPECIFICATION Spec
CONSTANTS
  Target = {t1, t2}
  Pool = {core, graphql}
  Cost <- TwoPoints
  Limit = 5
  Window = 2
  Threshold = 4
  Fallback = 1
  TokenLife = 2
  Margin = 2
  MaxClock = 3
SYMMETRY Symmetry
VIEW View
INVARIANTS
  QuotaKept
  Inv
  PauseMatchesGitHub
  TokenLostOnlyInPause
CHECK_DEADLOCK FALSE
