CONSTANTS
    Requests = {r1, r2}
    Conns = {c1, c2, c3}
    Flags = {f1, f2, f3, f4}
    None = None
SPECIFICATION Spec
SYMMETRY Symm
INVARIANTS
    OnePhase
    GenerationTag
    FlagMeansClosing
PROPERTIES
    HealthySenderKept
    EndedDriverNotReused
    ReadyIsHonoured
