SPECIFICATION SMAutoSpec
CONSTANTS
    s0 = s0
    s1 = s1
    t1 = t1
    t2 = t2
    Metro = Metro
    Null = Null
    Threads = {t1, t2, Metro}
    StateObjects = {s0, s1}
    IndexOf <- MCIndexOf
    Targets <- MCTargets
    Outermost <- ClientOperations
    ReentrantFrom <- AfterCallbacks
    ReentrantOps = {"start", "stop", "pause", "resume"}
    MayThrow = {"onEnter"}
    MaxDepth = 2
    AssertsEnabled = FALSE
SYMMETRY ClientSymmetry
INVARIANTS
    StoppedHasNoState
    OnlyCurrentIsLive
    NoLostTicker
PROPERTIES
    TicksOnlyRunning
