CONSTANTS
    NumPools = 1
    Reserved = 2
    Clients = {main}
    Calls <- AllCalls
    Outstanding = 4
    MaxTasks = 4
    MaxRuns = 1
    ThreadsMayFail = FALSE
SPECIFICATION Spec
INVARIANTS
    HeldPackageIntact
