CONSTANTS
    w1 = w1
    w2 = w2
    Writers = {w1, w2}
    NoWriter = NoWriter
    NumTiers = 2
    Tiers <- MCTiers
    Intervals = {1, 3}
    Retention = 4
    Start = 1
    LegacyStamps = {0}
    MaxStall = 1
    MaxStepBack = 0
    MaxNow = 7
    MaxSamples = 2
SPECIFICATION Spec
INVARIANTS NoSampleLost NoDoubleCount OneRowPerBucket FreshNeverCoarse
PROPERTIES PassComplete StoreSpec
CHECK_DEADLOCK FALSE
