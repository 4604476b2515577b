SPECIFICATION TestSpec
CONSTANTS
    Bodies <- MCBodies
    Window = 1
INVARIANT OutcomeAsserted
PROPERTY OutcomeReported
CHECK_DEADLOCK FALSE
