CONSTANTS
    Requests = {r1, r2}
    Conns = {c1}
    Flags = {f1, f2, f3, f4}
    None = None
    BufferSize = 1
SPECIFICATION ChanFairSpec
INVARIANTS
    ChanTypeOK
    ErrorHasAnOwner
    OnePlace
    NeverNotReady
PROPERTIES
    ChannelAnswers
