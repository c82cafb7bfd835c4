SPECIFICATION FairSpec
CONSTANTS
  PoolLabels <- Labels
  NodeLabels <- AllLabels
  PodSpecs <- Specs
  MaxPods = 2
  MaxClaims = 4
  MaxNodes = 3
  Limit <- LimitOf8
  Reserve <- HalfMiB
  MemOverhead = 1
  MaxAged = 1
  MaxArrivals = 2
  MaxListErrors = 1
INVARIANTS
  TypeOK
  
  LimitKept
  PlanHasRoom
PROPERTIES
  GrowsForItsPods
  VMBigEnough
  PodsHosted
CHECK_DEADLOCK FALSE
