SPECIFICATION FairSpec
CONSTANTS
  Scanners = {2}
  LeImpl = 1
  Policies = {"USE_PUBLIC_ADDRESS", "USE_RESOLVABLE_ADDRESS"}
  Operations = {"CONNECT", "CANCEL_CONNECT", "CLEAR_ACCEPT_LIST",
                "CONNECT_TIMEOUT", "UPDATE_IRK", "ROTATE", "CONNECTED",
                "RESOLVING_LIST", "CLEAR_RESOLVING_LIST",
                "CONNECT_AGAIN", "ARM_FAILS"}
  MaxStarts = 2
  MaxOperations = 2
  MaxRequests = 3
  MaxTasks = 3
INVARIANTS
  TypeOK
  AssertOnlyWhenPaused
  RotationScheduled
  ClientsAgree
PROPERTIES
  ClientsAreResumed
CHECK_DEADLOCK FALSE
