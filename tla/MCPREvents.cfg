\* One repo, one PR per page; the filter rejects one of the two.
CONSTANTS
  Repo = {r1}
  Number = {p1, p2}
  States <- AllStates
  Foreign = {p2}
  Unreviewed = {}
  RepoLists <- OneRepo
  PageSize = 1
  Lookback = 9
  Interval = 1
  MaxClock = 4
  MaxUpdates = 5
SPECIFICATION ReducedSpec
VIEW SelectedView
INVARIANTS SettledCounted NotLost
CHECK_DEADLOCK FALSE
