CONSTANTS
    HeaderLen = 2
    MaxLen = 1
    RetransmitLimit = 0
    InitSeq = {0}
    InitCounts = {1}
    InitFinished = {TRUE, FALSE}
    InitIsServer = {TRUE, FALSE}
    Losable <- FromClient
    Repeatable <- NoPackets
    MaxLoss = 1
    MaxDup = 0
SPECIFICATION FairSpec
PROPERTIES ConnectCompletes AcceptCompletes
CHECK_DEADLOCK FALSE
