SPECIFICATION Spec
CONSTANTS
  Pods = {p1, p2}
  OtherPods = {}
  MaxClaims = 3
  MinNodes = 0
  MaxNodes = 2
  CapacityLimit = 2
  StaleReads = FALSE
  MaxAborts = 1
  MaxListErrors = 1
  MaxAged = 1
  MaxLost = 0
  MaxFailed = 1
  MaxArrivals = 2
SYMMETRY PodSymmetry
INVARIANTS TypeOK TeardownReachesAll CapacityKept
PROPERTIES SequenceGrows NamesAreNew
CHECK_DEADLOCK FALSE
