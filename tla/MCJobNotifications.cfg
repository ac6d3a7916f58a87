CONSTANTS
    Dispatchers = {w1, w2}
    Destinations = {push}
    Push = push
    MaxAttempts = 2
    MaxSends = 2
    MaxFaults = 1
SPECIFICATION FairSpec
INVARIANTS CopiesHaveACause 
PROPERTIES IntentsSettle ImplementsOutbox
CHECK_DEADLOCK FALSE
