\* Two upstreams, the code's threshold of two failed dials; fail-over and
\* recovery under fairness of the two goroutines.
SPECIFICATION FairSpec
CONSTANTS
    Ips = {ip1, ip2}
    MaxErrNum = 2
INVARIANTS
    EvictedIffFailing
    AgreesUnlessRaced
PROPERTIES
    TrafficFollowsHealth
