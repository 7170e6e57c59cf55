SPECIFICATION FairSpec
CONSTANTS
  Handles = {1, 2}
  Sizes = {2}
  MaxCredits <- MCMaxCredits
  HciQueueDepth = 1
  MaxPackets = 3
  MaxConnections = 2
  Disconnects = FALSE
PROPERTIES
  PacketsAreSent
CHECK_DEADLOCK FALSE
