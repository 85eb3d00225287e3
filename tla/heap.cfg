CONSTANTS
    NumPools = 4
    Breadth = 2
    Reserved = 1
    Callers = {main}
    Cost = 1
    Durations <- Short
    MaxPriority = 1
    Active = {0, 3}
SPECIFICATION FairSpec
INVARIANTS
    HeapTypeOK
    NoPoolLost
    LeastPriorityFirst
PROPERTIES
    HeapifyAdvances
    HeapifyReturns
