SPECIFICATION FairSpec
CONSTANTS
    Posters = {p1, p2}
    Capacity = 2
    MaxPackets = 3
    MaxPosts = 2
    Delays = {1, 2}
    MaxTime = 2
INVARIANTS
    TypeOK
    PacketsInOrder
    QueueConsistent
    NoWakeupLost
    FailsOnlyInTeardown
PROPERTIES
    WorkIsDone
    StopEnds
CHECK_DEADLOCK FALSE
