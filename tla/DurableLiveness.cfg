CONSTANTS
    k1 = k1
    k2 = k2
    t1 = t1
    t2 = t2
    a1 = a1
    a2 = a2
    Keys = {k1, k2}
    Tasks = {t1, t2}
    Attempts = {a1, a2}
    NoKey = NoKey
    NoTask = NoTask
    NoAttempt = NoAttempt
    Concurrency = 1
    Faults = {}
SPECIFICATION OrderedSpec
PROPERTY EveryTaskSettles
