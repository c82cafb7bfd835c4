SPECIFICATION Spec
CONSTANTS
  Workers = {w1}
  NoLease = NoLease
  MaxLaunchAttempts = 3
  StaleReads = FALSE
  VMIDs = {v1, v2}
  HostsMaySkip = TRUE
  MaxCrashes = 1
  MaxErrors = 2
  MaxDisruptions = 1
  MaxJoins = 2
SYMMETRY VMIDSymmetry
INVARIANTS
  LaunchesBounded
  LifecycleOrder
PROPERTIES
  FailedIsFinal
  ImplementsLifecycle
CHECK_DEADLOCK FALSE
