CONSTANTS
    NumPools = 2
SPECIFICATION Spec
INVARIANTS
    ResourceTypeOK
    BadFreeOnlyAfterFailedCreate
    CreateStatusTells
    RunningHasThreads
    ReleaseStatusTells
    OnlyKnownLeaks
