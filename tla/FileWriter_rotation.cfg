\* Dashboard and server, two records, two rotations, two failing calls and a crash.
SPECIFICATION FSpec
CONSTANTS
    Processes = {dashboard, server}
    BufferSize = 1
    MaxWritten = 2
    MaxHour = 2
    MaxFaults = 2
    MaxCrashes = 1
INVARIANTS
    LostToSecondRename
    FiledUnderItsHour
PROPERTIES
    BufferedReachesFile
\* The run ends when the bounds are used up.
CHECK_DEADLOCK FALSE
