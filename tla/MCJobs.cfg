SPECIFICATION FairSpec
CONSTANTS
    w1 = w1
    w2 = w2
    t1 = t1
    Worker <- MCWorker
    Thread <- MCThread
    Dispatchers <- MCMainOnly
    PoolSize = 2
    Priorities = {1, 2}
    MaxJobs = 2
    NumChunks = 2
    MaxResizes = 1
    DisturbChunks = FALSE
INVARIANTS
    JobKept
    DoneOnce
    LatchCounts
    ShutdownDrains
    HandlesReleased
    MainOnlyInv
PROPERTIES
    WaitSeesCompletion
    WaitReturns
    ShutdownReturns
    CompletionsRun
    ImplementsLife
CHECK_DEADLOCK FALSE
