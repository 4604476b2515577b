CONSTANTS
    Bodies <- MCBodies
    Window = 1
SPECIFICATION DrainedSpec
CHECK_DEADLOCK FALSE
INVARIANTS
    NoTruncation
    ResetTellsWhy
    StopCodeIsHttp3
PROPERTIES
    BodiesDelivered
    ExchangeEnds
