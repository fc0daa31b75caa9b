CONSTANTS
    HeaderLen = 1
    MaxLen = 3
    PlenRange = 65536
    WindowSize = 2
    SendCapacity = 2
    SendWindowSize = 4
    RetransmitLimit = 1
    InitCounts <- FromZero
    InitFinished = {TRUE, FALSE}
    Loads <- ClientWrites4
    MaxWrite = 2
    MaxRead = 2
SPECIFICATION Spec
INVARIANT NoByteMissing
CHECK_DEADLOCK FALSE
