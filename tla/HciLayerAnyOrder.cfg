SPECIFICATION Spec
CONSTANTS
  OpCodes = {"READ_RSSI", "CREATE_CONNECTION", "GET_CAPABILITIES"}
  VendorOps = {"GET_CAPABILITIES"}
  Requests <- MCRequests
  Grants = {0, 1}
  MaxCommands = 3
  MaxReports = 1
  InOrder = FALSE
INVARIANTS
  AssertOnlyAfterTimeout
PROPERTIES
  ServesInOrder
CHECK_DEADLOCK FALSE
