\* Three attempts, three claims, and the sentence of the runbook about resuming.
SPECIFICATION Spec
CONSTANTS
    Parts = 1
    MaxAttempts = 3
    MaxGeneration = 3
INVARIANT
    CompletedOperationResumes
CHECK_DEADLOCK FALSE
