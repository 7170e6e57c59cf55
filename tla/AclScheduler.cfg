SPECIFICATION FairSpec
CONSTANTS
  Peers = {p}
  Callers = {c}
  SameHandler = FALSE
  FixInAndOut = TRUE
  MaxConnects = 1
  MaxNames = 1
  CancelKinds = {"ACL", "RNR"}
  MaxCancels = 1
  MaxIncoming = 1
INVARIANTS
  TypeOK
  OperationIsOutgoing
  AnsweredByOwn
PROPERTIES
  RequestsAreAnswered
CHECK_DEADLOCK FALSE
