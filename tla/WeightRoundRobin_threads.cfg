\* Two requests in flight next to an Update.
SPECIFICATION Spec
CONSTANTS
    Threads = {t1, t2}
    Weights <- ThreadsWeights
    Updates = 1
    MaxDrift = 2
INVARIANTS
    PanicOnlyUnderUpdate
    Proportional
SYMMETRY ThreadSymmetry
\* Beyond MaxDrift no request starts: the bounded model stops there.
CHECK_DEADLOCK FALSE
