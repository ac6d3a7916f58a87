\* The job lifecycle: three workers, three attempts, six claims.
SPECIFICATION FairSpec
CONSTANTS
    w1 = w1
    w2 = w2
    w3 = w3
    Workers <- ThreeWorkers
    NoWorker = NoWorker
    MaxAttempts = 3
    MaxGeneration = 6
INVARIANTS
    
    FencingTokens
PROPERTIES
    
    
    RunsEnd
CHECK_DEADLOCK FALSE
