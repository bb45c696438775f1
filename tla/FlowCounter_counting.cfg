\* A race of Increase with the reset, a failure, a restart and a midnight.
SPECIFICATION FairSpec
CONSTANTS
    Qpd = 1
    MaxRequests = 2
    MaxElsewhere = 1
    MaxFailures = 1
    MaxRestarts = 1
    MaxFlying = 1
    MaxDay = 1
    MaxElapsed = 2
INVARIANTS
    CountsOnce
PROPERTIES
    RefusedForCause
    QuotaEnforced
