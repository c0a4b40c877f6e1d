CONSTANTS
    DELIVERY_SECONDS = 2
    CallSeconds = 1
    MaxResolve = 3
    MaxAddrs = 2
    MAX_ALERTS = 2
    MAX_RANGES = 2
    MAX_CHARTS = 2
    Docs <- MCDocs
    MaxInterval = 2
    MaxStore = 1
    MaxCommand = 1
    MaxNow = 15
    MaxSignal = 3
SPECIFICATION FairSpec
INVARIANTS DriftFree EndsInTime Released SingleLine ConfigSound ConfigWhole
PROPERTIES StopsAfterTerm
CHECK_DEADLOCK FALSE
