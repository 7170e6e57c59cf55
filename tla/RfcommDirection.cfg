SPECIFICATION Spec
CONSTANTS
    Peers = {A, B}
    MaxChannels = 2
    MaxOpens = 2
    MaxCloses = 0
    MaxFaults = 0
SYMMETRY MCSymmetry
CHECK_DEADLOCK FALSE
INVARIANTS
    DlciMatchesRole
