\* Every command settles after a while: the end of the run is not a deadlock.
CONSTANTS
    MaxRuns = 2
    MAX_WORKERS_PER_EXECUTABLE = 1
    None = None
SPECIFICATION Spec
INVARIANTS NeverReplayed OutcomeIsTrue NobodyWaitsBehind
PROPERTY EveryRunReturns
CHECK_DEADLOCK FALSE
