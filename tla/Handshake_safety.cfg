CONSTANTS
    HeaderLen = 2
    MaxLen = 1
    RetransmitLimit = 0
    InitSeq = {0}
    InitCounts = {0}
    InitFinished = {FALSE}
    InitIsServer = {TRUE, FALSE}
    Losable <- NoPackets
    Repeatable <- Answer
    MaxLoss = 0
    MaxDup = 1
SPECIFICATION Spec
INVARIANTS TypeOK OneConnection HandshakeAgreement
CHECK_DEADLOCK FALSE
