SPECIFICATION FairSpec
CONSTANTS
    w1 = w1
    w2 = w2
    t1 = t1
    Worker <- MCWorker
    Thread = {}
    Dispatchers <- MCMainOnly
    PoolSize = 2
    Priorities = {1}
    MaxJobs = 2
    NumChunks = 2
    MaxResizes = 0
    DisturbChunks = TRUE
PROPERTY WaitReturns
CHECK_DEADLOCK FALSE
