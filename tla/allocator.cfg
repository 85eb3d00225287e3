CONSTANTS
    Num = 6
    ItemSize = 2
    Pointer = 1
SPECIFICATION Spec
INVARIANTS
    AllocTypeOK
    ListIntact
    EachItemOnce
    IndexSeparates
PROPERTIES
    ImplementsItemPool
