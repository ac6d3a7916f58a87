\* Two workers, a preview and an application, two documents.
SPECIFICATION FairSpec
CONSTANTS
    Workers = {w1, w2}
    Nobody = Nobody
    NumRuns = 2
    NumDocs = 2
    MaxAttempts = 2
    MaxEdits = 1
CONSTRAINT OneApplication
INVARIANTS
    NoEditLost
    LostLeaseStopsWriting
    ReportIsTrue
PROPERTIES
    RunsSettle
CHECK_DEADLOCK FALSE
