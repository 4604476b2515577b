CONSTANTS
    Requests = {r1}
    Conns = {c1, c2}
    Flags = {f1, f2, f3}
    None = None
SPECIFICATION FairSpec
PROPERTIES
    StaleSenderReplaced
    RetiredDriverEnds
    SenderRecovers
