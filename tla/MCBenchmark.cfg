SPECIFICATION BSpec
CONSTANTS
  Threads <- MCThreads
  Keys <- MCKeys
  Values <- MCValues
  NONE = 0
  Workloads <- NoWorkloads
  Modes = {"hashtable_test", "latency", "mixed", "insert_only", "microbench", "utilization", "ycsb"}
  Sizes <- MCSizes
  TxnFiles <- MCTxnFiles
  Batch = 2
  Step = 2
  NumIter = 3
  UpdatePart = 3
  DeletePart = 2
INVARIANTS
  ThreadsShareNothing
  OnlyTheRestIsMissed
CHECK_DEADLOCK FALSE
