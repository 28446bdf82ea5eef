SPECIFICATION FairSpec
CONSTANTS
    Values = {1, 2, 3}
    Garbage = 5
    Capacities = {1, 5}
    MaxCapacity = 5
    HeapBase = 100
INVARIANTS
    TypeOK
    ReturnsSorted
    
PROPERTIES
    SortEnds
