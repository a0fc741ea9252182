CONSTANTS
    Keys = {k1}
    Tasks = {t1}
    Attempts = {a1}
    NoKey = NoKey
    NoTask = NoTask
    NoAttempt = NoAttempt
    Concurrency = 1
    Faults = {"close", "crash", "worker"}
SPECIFICATION FairSpec
PROPERTIES
    ManifestIsImported
    IdentifiedCancelSettles
