SPECIFICATION MachineSpec
CONSTANTS
    s0 = s0
    s1 = s1
    s2 = s2
    t1 = t1
    t2 = t2
    Null = Null
    Threads = {t1}
    StateObjects = {s0, s1, s2}
    IndexOf <- MCSparseIndexOf
    Targets <- MCBadTargets
    Outermost <- AllOperations
    ReentrantFrom <- AfterCallbacks
    ReentrantOps = {"stop", "pause", "resume"}
    MayThrow <- AllCallbacks
    MaxDepth = 3
    AssertsEnabled = TRUE
INVARIANTS
    MachineTypeOK
    NotStoppedHasState
    StoppedHasNoState
    OnlyCurrentIsLive
PROPERTIES
    PausedKeepsState
