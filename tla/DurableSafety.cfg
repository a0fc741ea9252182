CONSTANTS
    Keys = {k1, k2}
    Tasks = {t1, t2}
    Attempts = {a1, a2}
    NoKey = NoKey
    NoTask = NoTask
    NoAttempt = NoAttempt
    Concurrency = 1
    Faults = {"close", "crash", "worker", "io", "kill"}
SYMMETRY IdSymmetry
SPECIFICATION Spec
INVARIANTS
    IInv
    RunsAtMostOnce
    CanceledMeansStopped
    InterruptedLeftNoManifest
    ResultIsEvidence
    StartIsDurable
    SupervisedBounded
    CancelEvidenceWasRequested
PROPERTIES
    SettledIsFinal
    ImplementsDurableTask
