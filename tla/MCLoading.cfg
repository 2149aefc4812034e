SPECIFICATION Spec
CONSTANTS
  a = a
  b = b
  c = c
  v = v
  w = w
  Threads = {a, b}
  Keys = {0,2,3,4}
  Values = {v, w}
  NONE = NONE
  Nobody = Nobody
  INVALID = INVALID
  Workloads <- Loading
  Hash <- MCHash
  InitCapacity = 2
  locksize = 1
  kResizingThreshold = 95
  MaxCapacity = 8
  MaxTables = 3
INVARIANTS
  NoFailedSearch
