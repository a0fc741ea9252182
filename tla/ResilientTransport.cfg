CONSTANTS
    MaxProcesses = 3
    MaxStops = 2
    None = None
SPECIFICATION Spec
INVARIANT SnapshotIsTrue
PROPERTY StaysDown
