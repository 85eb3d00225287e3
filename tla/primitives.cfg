CONSTANTS
    Threads = {t1, t2, t3}
    NoThread = NoThread
    SEM_VALUE_MAX = 2
    MaxRounds = 3
SPECIFICATION Spec
INVARIANTS
    PrimTypeOK
    SectionsExclude
    NoLockKept
    PostsPayForWaits
    BarrierTogether
    BarrierSaysOk
