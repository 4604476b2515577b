CONSTANTS
    Chunks = {"header", "a", "b"}
    Writes <- MCWrites
    MaxChunks = 5
SPECIFICATION ConnSpec
CHECK_DEADLOCK FALSE
INVARIANTS
    TypeOK
    NoSpuriousRefusal
    ErrorTellsScope
PROPERTIES
    ImplementsPipe
