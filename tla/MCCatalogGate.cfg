\* Two jobs, two rows of one Drive file, a second attempt of one, under fairness.
SPECIFICATION FairSpec
CONSTANTS
    NumJobs = 2
    MaxRuns = 3
    r1 = r1
    r2 = r2
    drive = drive
    Rows = {r1, r2}
    Identities = {drive}
    IdentityOf <- OneDriveFile
    Settings = {s1}
    MaxAttempts = 2
    Nobody = Nobody
CONSTRAINT OneRowWhenRetried
INVARIANTS
    OnePaidCall
    DuplicatesHaveACause
PROPERTIES
    NothingPaidTwice
    JobsSettle
CHECK_DEADLOCK FALSE
