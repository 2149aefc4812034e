SPECIFICATION SSpec
CONSTANTS
  a = a
  b = b
  c = c
  v = v
  w = w
  Threads = {a, b, c}
  Keys = {0,1,11,12,17,20,24,32,35,44}
  Values = {v, w}
  NONE = NONE
  Nobody = Nobody
  INVALID = INVALID
  Workloads <- DisplacingDisturbed
  FHash <- MCFirst
  SHash <- MCSecond
  Grown <- MCGrown
  InitCapacity = 8
  locksize = 2
  kCuckooThreshold = 6
  kMaxGrows = 3
  Garbage = {3}
  MaxCapacity = 8
  MaxTables = 1
INVARIANTS
  OneHolder
  SlotsGuarded
  MovedPathIsPath
  MovedOrOnce
PROPERTIES
  ImplementsMoving
