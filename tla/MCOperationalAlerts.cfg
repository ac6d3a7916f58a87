CONSTANTS
    Dispatchers = {w1, w2}
    Severities = {"critical", "warning"}
    MaxSends = 2
    MaxGenerations = 2
    MaxFaults = 1
SPECIFICATION FairSpec
INVARIANTS AlertsAreSpaced LastWordIsTrue
PROPERTIES OutagesAreAnnounced ImplementsOutbox
CHECK_DEADLOCK FALSE
