\* Two sources of two parts, two attempts, one run at a time.
SPECIFICATION Spec
CONSTANTS
    NumSources = 2
    Parts = 2
    MaxAttempts = 2
    MaxGeneration = 2
    MaxRuns = 1
INVARIANTS
    
    FailedMeansMissing
PROPERTIES
    FullResultNeverRepaid
CHECK_DEADLOCK FALSE
