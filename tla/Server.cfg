CONSTANTS
    Peers = {p1, p2}
    Streams = {s1, s2}
SPECIFICATION FairSpec
CHECK_DEADLOCK FALSE
INVARIANTS
    StopsOnlyOnDemand
PROPERTIES
    NobodyWaitsForHandshakes
    RequestsTakenUp
    ShutdownEnds
