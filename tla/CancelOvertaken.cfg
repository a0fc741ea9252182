\* After the last call the system rests: the end of a run is not a deadlock.
CONSTANTS
    Definitions <- OneDefinition
    MaxCalls = 3
    MaxCrashes = 0
    CallsOverlap = TRUE
    None = None
SPECIFICATION Spec
PROPERTY CancelSettles
CHECK_DEADLOCK FALSE
