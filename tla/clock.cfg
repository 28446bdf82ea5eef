SPECIFICATION Spec
CONSTANTS
    k1 = k1
    k2 = k2
    Tickers = {k1, k2}
    Interval = 5
    MinInterval = 1
    MaxDelay = 4
    MaxSetBack = 2
    MaxTime = 20
CHECK_DEADLOCK FALSE
INVARIANTS
    TypeOK
    NeverEarly
    NotInTheFuture
    SleepsAtMostInterval
PROPERTIES
    KeepsTheBeat
