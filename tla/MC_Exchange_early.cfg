CONSTANTS
    Bodies <- MCBodies
    Window = 1
SPECIFICATION Spec
CHECK_DEADLOCK FALSE
PROPERTIES
    EarlyResponseKept
