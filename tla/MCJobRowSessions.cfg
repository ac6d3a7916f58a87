\* What holds in spite of stale snapshots: two workers, two requests.
SPECIFICATION Spec
CONSTANTS
    w1 = w1
    w2 = w2
    r1 = r1
    r2 = r2
    Workers = {w1, w2}
    Requests = {r1, r2}
    NoWorker = NoWorker
    MaxAttempts = 2
    MaxGeneration = 3
SYMMETRY SessionSymmetry
PROPERTIES
    WritesAreFenced
CHECK_DEADLOCK FALSE
