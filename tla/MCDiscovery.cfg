\* Background refresh running, as discoverer.go's Start offers it.
CONSTANTS
  a = a
  b = b
  fork = fork
  Repo = {a, b, fork}
  Forks = {fork}
  Targets <- AllTargets
  Initially <- OldRepos
  PageSize = 1
  Started = TRUE
  MaxChanges = 2
  MaxFailures = 1
SPECIFICATION FairSpec
INVARIANTS Inv SteadyRepoListed ServedOnce OnlyFirstOvertaken
PROPERTIES NewRepoFound
CHECK_DEADLOCK FALSE
