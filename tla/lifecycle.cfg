CONSTANTS
    NumPools = 2
    Reserved = 2
    Clients = {main}
    Calls <- AllCalls
    Outstanding = 2
    MaxTasks = 2
    MaxRuns = 2
    ThreadsMayFail = TRUE
SPECIFICATION Spec
INVARIANTS
    TypeOK
    TasksAccounted
    WaitEmptiesQueues
    TerminateDrains
    ReleaseAfterThreads
    NoSignalToJoinedThread
    TermAfterMask
PROPERTIES
    ImplementsPoolSpec
CHECK_DEADLOCK FALSE
