SPECIFICATION FairSpec
CONSTANTS
    s0 = s0
    s1 = s1
    t1 = t1
    t2 = t2
    Metro = Metro
    Null = Null
    Threads = {t1, Metro}
    StateObjects = {s0, s1}
    IndexOf <- MCIndexOf
    Targets <- MCTargets
    Outermost <- ClientOperations
    ReentrantFrom = {}
    ReentrantOps = {"start", "stop", "pause", "resume"}
    MayThrow <- HarmlessThrows
    MaxDepth = 1
    AssertsEnabled = FALSE
INVARIANTS
    TypeOK
    NotStoppedHasState
PROPERTIES
    RunningIsDriven
