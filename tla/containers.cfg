SPECIFICATION ContainersSpec
CONSTANTS
    n1 = n1
    n2 = n2
    n3 = n3
    n4 = n4
    Null = Null
    None = None
    Nodes = {n1, n2, n3, n4}
    Values = {1, 2}
    Garbage = 5
    HeapBase = 100
    Asked = 2
    MaxCapacity = 4
    MayRemoveOnly = FALSE
SYMMETRY NodeSymmetry
INVARIANTS
    TypeOK
    NoLeak
    KindsAgree
    
PROPERTIES
    CopyStays
    StackSpec
    SortInsertKeepsOrder
