CONSTANTS
    HeaderLen = 1
    MaxLen = 3
    PlenRange = 5
    WindowSize = 2
    SendCapacity = 4
    SendWindowSize = 4
    RetransmitLimit = 254
    InitCounts <- Counts
    InitFinished = {TRUE}
    Loads <- BothWrite
    MaxWrite = 1
    MaxRead = 2
SPECIFICATION Spec
INVARIANTS TypeOK StreamIntegrity AckSound DeliveredInOrder PacketsAgree IndInv
PROPERTY ImplementsByteStream
CHECK_DEADLOCK FALSE
