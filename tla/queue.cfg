SPECIFICATION Spec
CONSTANTS
    a = a
    b = b
    Values = {a, b}
    None = None
    Garbage = Garbage
    Capacities = {1, 3}
    MaxCapacity = 6
INVARIANTS
    TypeOK
    ReturnedIntact
PROPERTIES
    FifoSpec
