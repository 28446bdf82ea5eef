SPECIFICATION FairSpec
CONSTANTS
    c1 = c1
    c2 = c2
    w1 = w1
    w2 = w2
    w3 = w3
    w4 = w4
    None = None
    Clients = {c1}
    Workers = {w1, w2, w3}
    Settled = TRUE
INVARIANTS
    TypeOK
    AtMostOneDriver
    NoOrphan
PROPERTIES
    StartIsHeeded
    StopIsHeeded
    CallsReturn
