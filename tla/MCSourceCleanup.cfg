CONSTANTS
    Cleaners = {w1, w2}
    Jobs = {j1, j2}
    Protocols = {"single_put", "multipart"}
    MaxFaults = 1
    Nobody = Nobody
SPECIFICATION FairSpec
INVARIANTS NoOrphan UploadedIsStored RunsFindTheirObject ExportedMeansDelivered
PROPERTIES RetiredSourcesAreRemoved
CHECK_DEADLOCK FALSE
