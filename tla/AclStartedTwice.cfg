SPECIFICATION Spec
CONSTANTS
  Peers = {p, q}
  Callers = {p}
  SameHandler = TRUE
  FixInAndOut = TRUE
  MaxConnects = 0
  MaxNames = 2
  CancelKinds = {"ACL", "RNR"}
  MaxCancels = 0
  MaxIncoming = 1
INVARIANTS
  NotStartedTwice
CHECK_DEADLOCK FALSE
