CONSTANTS
    NumPools = 1
    Reserved = 2
    Clients = {main}
    Calls <- AllCalls
    Outstanding = 1
    MaxTasks = 1
    MaxRuns = 1
    ThreadsMayFail = FALSE
SPECIFICATION FairSpec
PROPERTIES
    WaitReturns
