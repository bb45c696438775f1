\* Two dashboard requests at a time on up to two rows, two starts of the
\* gateway, one failing call.
SPECIFICATION Spec
CONSTANTS
    r1 = r1
    r2 = r2
    a = a
    b = b
    s = s
    t = t
    Requests = {r1, r2}
    AppIDs = {a, b}
    Secrets = {s, t}
    MaxRows = 2
    MaxLoads = 2
    MaxFaults = 1
SYMMETRY Symmetry
INVARIANTS
    TokenMeansTenant
    DeletedStaysOut
    TokenHonoured
CHECK_DEADLOCK FALSE
