\* Two repos: listed twice, dropped and found again; short lookback.
CONSTANTS
  Repo = {r1, r2}
  Number = {p1}
  States <- AllStates
  Foreign = {}
  Unreviewed = {p1}
  RepoLists <- ChangingLists
  PageSize = 1
  Lookback = 2
  Interval = 1
  MaxClock = 4
  MaxUpdates = 2
SPECIFICATION ReducedSpec
SYMMETRY RepoSymmetry
INVARIANTS LossInv
PROPERTIES ImplementsLedger SeriesBeforeEvents
CHECK_DEADLOCK FALSE
