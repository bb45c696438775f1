\* Two requests in flight; a client with an IPv4 and one with an IPv6 address.
SPECIFICATION ASpec
CONSTANTS
    Workers = {w1, w2}
    Apps = {a1}
    V4 = {c4}
    V6 = {c6}
    Scenarios <- MCScenarios
    MaxRefills = 1
INVARIANTS
    ForwardedIsAdmitted
    RefusedForCause
    LimitHolds
    CountsAddUp
SYMMETRY WorkerSymmetry
\* After the requests of the scenario the bounded model stops.
CHECK_DEADLOCK FALSE
