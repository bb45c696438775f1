\* Two requests at a time, five in all, for two names.
SPECIFICATION HSpec
CONSTANTS
    Threads = {t1, t2}
    Names = {n1, n2}
    MaxCalls = 5
INVARIANTS
    SoundUnlessClashed
    SecondItemForCause
\* After MaxCalls calls the bounded model stops.
CHECK_DEADLOCK FALSE
