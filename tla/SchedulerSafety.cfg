SPECIFICATION Spec
CONSTANTS
  Handles = {1, 2}
  Sizes = {1, 3}
  MaxCredits <- MCMaxCredits
  HciQueueDepth = 1
  MaxPackets = 2
  MaxConnections = 3
  Disconnects = TRUE
INVARIANTS
  TypeOK
  CallbacksReady
  CreditsMatchBuffers
  FragmentsInOrder
  StartingPointValid
CHECK_DEADLOCK FALSE
