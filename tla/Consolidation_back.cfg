CONSTANTS
    w1 = w1
    w2 = w2
    Writers = {w1}
    NoWriter = NoWriter
    NumTiers = 2
    Tiers <- MCTiers
    Intervals = {1}
    Retention = 4
    Start = 1
    LegacyStamps = {0}
    MaxStall = 1
    MaxStepBack = 2
    MaxNow = 6
    MaxSamples = 3
SPECIFICATION Spec
INVARIANTS NoSampleLost
CHECK_DEADLOCK FALSE
