SPECIFICATION FairSpec
CONSTANTS
  Planes = {c1}
  p1 = p1
  Pools = {p1}
  Providers = {a}
  PoolLists <- Lists
  NoRef = NoRef
  Absent = Absent
  MaxEdits = 2
  MaxSecretEdits = 1
  MaxFaults = 1
INVARIANTS
  TypeOK
  NoWakeUpLost
 
CHECK_DEADLOCK FALSE
