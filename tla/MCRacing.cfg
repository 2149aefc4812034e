SPECIFICATION FairSpec
CONSTANTS
  a = a
  b = b
  c = c
  v = v
  w = w
  Threads = {a, b, c}
  Keys = {0,1,2,5}
  Values = {v, w}
  NONE = NONE
  Nobody = Nobody
  INVALID = INVALID
  Workloads <- Racing
  Hash <- MCHash
  InitCapacity = 2
  locksize = 1
  kResizingThreshold = 95
  MaxCapacity = 16
  MaxTables = 4
INVARIANTS
  GuardedUntilResized
  SizeBoundsPairs
  CountedOnce
PROPERTIES
  EveryCallReturns
