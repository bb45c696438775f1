\* Two goroutines, three records, a channel of one, until the process ends.
SPECIFICATION Spec
CONSTANTS
    Callers = {p1, p2}
    TunnelSize = 1
    BufSize = 1
    ConfLevel = 1
    LevelOf <- MCLevelOf
    MaxClock = 2
INVARIANTS
    LossOnlyAfterClose
    StampWrongForCause
PROPERTIES
    ImplementsRecordLog
    CallsReturn
\* The run ends with the process.
CHECK_DEADLOCK FALSE
