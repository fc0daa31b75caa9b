SPECIFICATION FairSpec
CONSTANTS
    Null = Null
    b = b
    u = u
    Threads = {t1, t2, t3}
    Chans <- MCChans
    Capacity <- MCCapacity
    Selectors = {t1}
    Selects <- MCSelects
    SpuriousChans <- MCSpurious
    MaxSends = 3
    MaxRecvs = 2
    MaxSelects = 1
    MaxSpurious = 1
INVARIANTS TypeOK WaitersCounted NoLostWakeup OneOwner NothingLost
PROPERTIES ImplementsFifo CloseReleasesReaders
CHECK_DEADLOCK FALSE
