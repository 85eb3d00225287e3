CONSTANTS
    NumPools = 1
    Reserved = 2
    Clients = {a, b}
    Calls <- NoShutdown
    Outstanding = 3
    MaxTasks = 3
    MaxRuns = 1
    ThreadsMayFail = FALSE
SPECIFICATION Spec
INVARIANTS
    QueueBound
