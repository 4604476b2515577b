SPECIFICATION TestSpec
CONSTANTS
    Requests = {r1}
    Conns = {c1, c2}
    Flags = {f1, f2, f3}
    None = None
    BufferSize = 1
    MaxProbes = 4
INVARIANT AssertionsHold
PROPERTY TestsEnd
CHECK_DEADLOCK FALSE
