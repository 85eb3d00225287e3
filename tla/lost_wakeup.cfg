CONSTANTS
    NumPools = 1
    Reserved = 2
    Clients = {main}
    Calls <- AllCalls
    Outstanding = 2
    MaxTasks = 2
    MaxRuns = 1
    ThreadsMayFail = FALSE
SPECIFICATION FairSpec
PROPERTIES
    SubmittedRuns
