\* Three attempts, three claims: the limit of the code, and a claim for each.
SPECIFICATION Spec
CONSTANTS
    Parts = 1
    MaxAttempts = 3
    MaxGeneration = 3
CONSTRAINT CancelledEarly
INVARIANTS
    
    NothingChargedIsHidden

    
CHECK_DEADLOCK FALSE
