SPECIFICATION FairSpec
CONSTANTS
  Procs = {p1, p2, p3}
  NumCores = 2
  p1 = p1
  p2 = p2
  p3 = p3
  Machines <- MCMachines
  Free = Free
INVARIANTS
  PmuLastsWhileMeasured
  OnePerfClient
  PmuIsGivenBack
PROPERTY EveryInstanceGetsOn
CHECK_DEADLOCK FALSE
