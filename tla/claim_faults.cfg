SPECIFICATION Spec
CONSTANTS
  Workers = {w1}
  NoLease = NoLease
  MaxLaunchAttempts = 2
  StaleReads = TRUE
  VMIDs = {v1, v2}
  HostsMaySkip = FALSE
  MaxCrashes = 1
  MaxErrors = 1
  MaxDisruptions = 1
  MaxJoins = 2
SYMMETRY VMIDSymmetry
INVARIANTS
  TypeOK
  AtMostOneMachine
  OrphansExplained
PROPERTY FinalizerBeforeProvisioning
CHECK_DEADLOCK FALSE
