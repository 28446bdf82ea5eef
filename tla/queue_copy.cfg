SPECIFICATION Spec
CONSTANTS
    a = a
    b = b
    Values = {a, b}
    None = None
    Garbage = Garbage
    Capacities = {0, 1, 3}
    MaxCapacity = 8
PROPERTIES
    CopyHasSameItems
