\* One source of two parts, two attempts, two runs at a time: leftover runs.
SPECIFICATION Spec
CONSTANTS
    NumSources = 1
    Parts = 2
    MaxAttempts = 2
    MaxGeneration = 2
    MaxRuns = 2
INVARIANTS
    TypeOK
    OneDocumentPerSource
    DocumentsAreTraceable
    AccountingIsHonest
    CancelledKeepsNoText
PROPERTIES
    UnattendedRequeueIsSafe
    ImplementsLifecycle
CHECK_DEADLOCK FALSE
