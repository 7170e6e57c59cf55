SPECIFICATION Spec
CONSTANTS
    Peers = {A, B}
    MaxChannels = 2
    MaxOpens = 2
    MaxCloses = 1
    MaxFaults = 1
SYMMETRY MCSymmetry
CHECK_DEADLOCK FALSE
INVARIANTS
    TypeOK
    HandlesAgree
    DevicesAgree
    MuxWatched
