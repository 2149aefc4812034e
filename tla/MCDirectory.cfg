SPECIFICATION FairSpec
CONSTANTS
  Threads = {t1, t2, t3}
  Nobody = Nobody
INVARIANTS
  SemaCounts
  Alone
PROPERTIES
  SuspendEnds
  ImplementsGate
