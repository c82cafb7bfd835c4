SPECIFICATION Spec
CONSTANTS
  Pods = {p1}
  OtherPods = {}
  MaxClaims = 1
  MinNodes = 0
  MaxNodes = 0
  CapacityLimit = 0
  StaleReads = FALSE
  MaxAborts = 0
  MaxListErrors = 0
  MaxAged = 0
  MaxLost = 0
  MaxFailed = 0
  MaxArrivals = 1
INVARIANT TeardownFreesMachines
CHECK_DEADLOCK FALSE
