CONSTANTS
    HeaderLen = 2
    MaxLen = 1
    RetransmitLimit = 0
    InitSeq = {0}
    InitCounts = {1}
    InitFinished = {TRUE, FALSE}
    InitIsServer = {TRUE}
    Losable <- NoPackets
    Repeatable <- NoPackets
    MaxLoss = 0
    MaxDup = 0
SPECIFICATION FairSpec
PROPERTY FirstByteArrives
CHECK_DEADLOCK FALSE
