SPECIFICATION FairSpec
CONSTANTS
    N = 2
    Null = Null
    MaxJobs = 2
    MaxPauses = 1
INVARIANTS TypeOK JobsInOrder JobsAnnounced WaiterIsSignalled
PROPERTIES WaitMeansDone CallsReturn
CHECK_DEADLOCK FALSE
