\* The chain the gateway registers: four middlewares, int8, two connections.
SPECIFICATION FairSpec
CONSTANTS
    Conns = {c1, c2}
    NMiddleware = 4
    IndexMax = 127
INVARIANTS
    RunsInOrderOnce
    RejectedNotProxied
    OwnCoreHandler
PROPERTY
    RejectedIsReleased
