\* After the last call the system rests: the end of a run is not a deadlock
\* (NobodyIsStuck says that nothing is left waiting).
CONSTANTS
    Definitions <- TwoDefinitions
    MaxCalls = 3
    MaxCrashes = 1
    CallsOverlap = FALSE
    None = None
SPECIFICATION Spec
CONSTRAINT LastCallBound
INVARIANTS
    Inductive
    WorkIsOnRecord
    EndIsComplete
    NoUnconfirmedReplay
    StartsOnce
    NobodyIsStuck
    DueIsEnabled
PROPERTY ImplementsWorkflowRun
CHECK_DEADLOCK FALSE
