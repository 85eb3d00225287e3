CONSTANTS
    NumPools = 1
    Reserved = 2
    Clients = {main}
    Calls <- AllCalls
    Outstanding = 5
    MaxTasks = 5
    MaxRuns = 1
    ThreadsMayFail = FALSE
SPECIFICATION FairSpec
INVARIANTS
    QueueBound
    RingConsistent
    QueueIntact
PROPERTIES
    OverwriteOnlyWhenFull
    ContinueDrains
    TerminateReturns
