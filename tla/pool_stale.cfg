SPECIFICATION FairSpec
CONSTANTS
  Pods = {p1, q}
  OtherPods = {q}
  MaxClaims = 1
  MinNodes = 0
  MaxNodes = 0
  CapacityLimit = 0
  StaleReads = TRUE
  MaxAborts = 0
  MaxListErrors = 0
  MaxAged = 0
  MaxLost = 1
  MaxFailed = 0
  MaxArrivals = 2
PROPERTIES IdlePoolShrinks TeardownCompletes
CHECK_DEADLOCK FALSE
