SPECIFICATION Spec
CONSTANTS
  Clients = {c1, c2}
  Modes = {"difference", "absolute"}
  Subscriptions <- MCSubscriptions
  Available <- AllMetrics
  MaxPolls = 4
  MaxSegments = 2
INVARIANTS
  NothingOlderIsPrinted
  SpansAreTheLastInterval
CHECK_DEADLOCK FALSE
