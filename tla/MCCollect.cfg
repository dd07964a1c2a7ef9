\* Four items, three of them there at first, one per page.
CONSTANTS
  LabelLimit = 2
  Words <- AllWords
  PageSize = 1
  MaxItems = 4
  Worlds <- AllWorlds
  Bodies <- SomeBodies
  Existing = 3
  MaxChanges = 3
SPECIFICATION FairSpec
INVARIANTS Inv PRStatsExact SelectedAreListed IssuesCountedAgainPerCreation DashboardFound QueueCountsSections
PROPERTIES CycleEnds
CHECK_DEADLOCK FALSE
