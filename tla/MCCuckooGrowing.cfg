SPECIFICATION FairSpec
CONSTANTS
  a = a
  b = b
  c = c
  v = v
  w = w
  Threads = {a, b, c}
  Keys = {0,1,5,6,9,14,22,33,34,59}
  Values = {v, w}
  NONE = NONE
  Nobody = Nobody
  INVALID = INVALID
  Workloads <- GrowingCrossing
  FHash <- MCFirst
  SHash <- MCSecond
  Grown <- MCGrown
  InitCapacity = 5
  locksize = 2
  kCuckooThreshold = 5
  kMaxGrows = 3
  Garbage = {0}
  MaxCapacity = 8
  MaxTables = 4
INVARIANTS
  PairsInPlace
  ResizedHoldsAll
PROPERTIES
  EveryCallReturns
