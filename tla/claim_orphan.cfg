SPECIFICATION Spec
CONSTANTS
  Workers = {w1}
  NoLease = NoLease
  MaxLaunchAttempts = 2
  StaleReads = FALSE
  VMIDs = {v1}
  HostsMaySkip = FALSE
  MaxCrashes = 0
  MaxErrors = 0
  MaxDisruptions = 0
  MaxJoins = 0
INVARIANT FinalizerCleansUp
CHECK_DEADLOCK FALSE
