\* After the last connect the system rests: the end of a run is not a deadlock.
SPECIFICATION Spec
CONSTANTS
    MaxSockets = 2
    Requests = {r1}
    None = None
INVARIANTS
    DeviceIsReachable
    NobodyWaitsForTheDead
    NoWorkLeftBehind
CHECK_DEADLOCK FALSE
