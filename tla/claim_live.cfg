SPECIFICATION FairSpec
CONSTANTS
  Workers = {w1}
  NoLease = NoLease
  MaxLaunchAttempts = 2
  StaleReads = TRUE
  VMIDs = {v1}
  HostsMaySkip = FALSE
  MaxCrashes = 1
  MaxErrors = 0
  MaxDisruptions = 1
  MaxJoins = 1
PROPERTIES
  DeletionCompletes
  AbandonedLeaseRecovered
  
CHECK_DEADLOCK FALSE
