SPECIFICATION FairSpec
CONSTANTS
    v4 = v4
    v6 = v6
    other = other
    Addrs = {v4, v6, other}
    Lists <- MCLists
INVARIANTS EveryAddressTried LastErrorReported HealthyAddressWins
PROPERTY ConnectEnds
CHECK_DEADLOCK FALSE
