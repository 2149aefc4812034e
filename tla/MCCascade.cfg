SPECIFICATION FairSpec
CONSTANTS
  a = a
  b = b
  c = c
  v = v
  w = w
  Threads = {a, b, c}
  Keys = {1,2,5,7}
  Values = {v, w}
  NONE = NONE
  Nobody = Nobody
  Workloads <- Cascade
  HashBits = 3
  Hash <- MCHash
  Pow2 <- MCPowers
  InitDepth = 1
  kNumSlot = 1
  INPLACE = FALSE
  MaxSegs = 10
  MaxDirs = 3
INVARIANTS
  SemaCountsHolders
  HeldDirectoryIsCurrent
  DoublingIsAlone
  ReachableIsUnlockedLater
PROPERTIES
  PublishOnlyDeepens
  RoutesOnlyDeepen
  ImplementsMap
  EveryCallReturns
