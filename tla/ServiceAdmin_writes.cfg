\* Two dashboard requests at a time on a pool of two connections.
SPECIFICATION FairSpec
CONSTANTS
    Handlers = {h1, h2}
    MaxOpen = 2
    Names = {n1, n2}
    Addrs = {a1, a2}
    FirstName = n1
    FirstAddr = a1
    MaxOps = 3
    MaxFailures = 1
INVARIANTS
    ServicesComplete
    UniqueUnlessRaced
PROPERTIES
    RevivedByOverlapOnly
    AnsweredUnlessStarved
\* The pool can be starved for good, and MaxOps ends the model.
CHECK_DEADLOCK FALSE
