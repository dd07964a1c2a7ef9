\* As main wires it: nothing calls Start.
CONSTANTS
  a = a
  b = b
  fork = fork
  Repo = {a, b, fork}
  Forks = {fork}
  Targets <- JustOneOrg
  Initially <- NoRepoYet
  PageSize = 1
  Started = FALSE
  MaxChanges = 1
  MaxFailures = 0
SPECIFICATION FairSpec
PROPERTIES NewRepoFound
CHECK_DEADLOCK FALSE
