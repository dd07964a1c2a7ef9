\* A PR that is updated during two scans in a row.
CONSTANTS
  Repo = {r1}
  Number = {p1, p2}
  States <- AllStates
  Foreign = {}
  Unreviewed = {}
  RepoLists <- OneRepo
  PageSize = 1
  Lookback = 9
  Interval = 1
  MaxClock = 4
  MaxUpdates = 5
SPECIFICATION ReducedSpec
SYMMETRY Symmetry
INVARIANTS MissedCountedByNextCycle
CHECK_DEADLOCK FALSE
