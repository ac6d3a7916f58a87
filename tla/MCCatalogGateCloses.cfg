\* A job that needed a second attempt stays in the way of every later job.
SPECIFICATION Spec
CONSTANTS
    NumJobs = 1
    MaxRuns = 2
    r1 = r1
    r2 = r2
    drive = drive
    Rows = {r1, r2}
    Identities = {drive}
    IdentityOf <- OneDriveFile
    Settings = {s1}
    MaxAttempts = 2
    Nobody = Nobody
INVARIANTS
    PersistedOutputCloses
CHECK_DEADLOCK FALSE
