CONSTANTS
    Bodies <- MCBodies
    Window = 1
SPECIFICATION FairSpec
CHECK_DEADLOCK FALSE
PROPERTIES
    CancelStopsUpload
