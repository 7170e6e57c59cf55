SPECIFICATION Spec
CONSTANTS
    Handles = {h1}
    MaxQueued = 0
    Capacity = 1
    MaxLinks = 2
    MaxFragments = 3
    MaxSize = 2
INVARIANTS
    TypeOK
    HandedInOrder
    ReassemblesExactly
    QueueBounded
    NoneForgotten
CHECK_DEADLOCK FALSE
