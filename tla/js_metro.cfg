SPECIFICATION FairSpec
CONSTANTS
    k1 = k1
    k2 = k2
    Tickers = {k1, k2}
    Interval = 5
    Delay = 6
    MaxTick = 1
    MaxTimers = 4
    MaxNested = 1
PROPERTIES
    HandleReturns
    ChainsEnd
    KeepsTicking
