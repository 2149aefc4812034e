SPECIFICATION SSpec
CONSTANTS
  a = a
  b = b
  c = c
  v = v
  w = w
  Threads = {a, b, c}
  Keys = {0,1,2,3,4,5,7,8,9,16}
  Values = {v, w}
  NONE = NONE
  Nobody = Nobody
  INVALID = INVALID
  Workloads <- ProbesGrowing
  Hash <- MCHash
  InitCapacity = 4
  locksize = 2
  kResizingThreshold = 95
  MaxCapacity = 16
  MaxTables = 3
PROPERTY
  ImplementsScans
