CONSTANTS
    NumPools = 1
    Reserved = 2
    Clients = {a, b}
    Calls <- NoShutdown
    Outstanding = 2
    MaxTasks = 4
    MaxRuns = 1
    ThreadsMayFail = FALSE
SPECIFICATION Spec
INVARIANTS
    HeldPackageIntact
PROPERTIES
    ImplementsPoolSpec
