SPECIFICATION Spec
CONSTANTS
    t1 = t1
    t2 = t2
    g1 = g1
    TcpServices = {t1, t2}
    GrpcServices = {g1}
    Loads = {{}, {t1, t2}, {t1, g1}}
    MaxActive = 1
INVARIANTS
    StopClosesListeners
    CrashForCause
    DrainedUnlessTimedOut
PROPERTIES
    StopEnds
