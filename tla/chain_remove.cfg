SPECIFICATION Spec
CONSTANTS
    n1 = n1
    n2 = n2
    n3 = n3
    n4 = n4
    Null = Null
    Nodes = {n1, n2, n3, n4}
    Values = {0, 1, 2}
    MayRemoveOnly = TRUE
PROPERTIES
    AppendsToTail
