\* Two requests in flight, Updates to any list of up to three addresses.
SPECIFICATION BSpec
CONSTANTS
    Threads = {t1, t2}
    MaxLen = 3
    Updates = 1
    Replicas = 2
    HashOf <- MCHashOf
    KeyHashes = {3, 6}
INVARIANTS
    PanicOnlyAroundUpdate
PROPERTIES
    AnswersOwner
    InTurn
    ServedOneAtATime
