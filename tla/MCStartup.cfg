\* Each part of the configuration and the environment varied in turn.
CONSTANTS
  Text <- AnyText
  Cases <- AllCases
  EnvVars <- NamedVars
  Hour = 60
SPECIFICATION Spec
INVARIANTS Inv OneCredential ConfigUsable EnvironmentRestricts NothingLeftBehind LogsOutliveTheRest
CHECK_DEADLOCK FALSE
