SPECIFICATION Spec
CONSTANTS
  PoolLabels <- Labels
  NodeLabels <- AllLabels
  PodSpecs <- Specs
  MaxPods = 1
  MaxClaims = 4
  MaxNodes = 0
  Limit <- NoLimit
  Reserve <- HalfCore
  MemOverhead = 0
  MaxAged = 0
  MaxArrivals = 2
  MaxListErrors = 0
PROPERTIES
  VMBigEnough
CHECK_DEADLOCK FALSE
