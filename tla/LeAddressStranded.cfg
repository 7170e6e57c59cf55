SPECIFICATION Spec
CONSTANTS
  Scanners = {1}
  LeImpl = 2
  Policies = {"USE_PUBLIC_ADDRESS", "USE_RESOLVABLE_ADDRESS"}
  Operations = {"RESOLVING_LIST"}
  MaxStarts = 0
  MaxOperations = 1
  MaxRequests = 1
  MaxTasks = 3
INVARIANTS
  NoStrandedCommand
CHECK_DEADLOCK FALSE
