SPECIFICATION FairSpec
CONSTANTS
    N = 2
    Null = Null
    MaxJobs = 2
    MaxPauses = 1
PROPERTY PausedPoolTakesWork
CHECK_DEADLOCK FALSE
