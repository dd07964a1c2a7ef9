\* Two runners that share the reader, with two cycles and one.
CONSTANTS
  r1 = r1
  r2 = r2
  Runner = {r1, r2}
  MaxCycle <- Cycles
  MaxErrors = 1
SPECIFICATION FairSpec
INVARIANTS Inv GaugesNotAheadOfCounters PushErrorsCountedOnce FlushCoversCycle FinalPushCompletes
PROPERTIES CountersNeverGoBack SignalEnds
CHECK_DEADLOCK FALSE
