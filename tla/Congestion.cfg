CONSTANTS
    SMSS = 3
    IW <- ThreeSegments
    RetransmitLimit = 10
    InitCounts = {0, 2, 255}
    MaxCwnd = 24
SPECIFICATION Spec
INVARIANTS TypeOK PhaseMatchesWindow
CHECK_DEADLOCK FALSE
