CONSTANTS
    NumBuckets = 5
    Buckets <- MCBuckets
    Intervals = {1, 2, 3, 4, 7}
    Ranges = {6, 20, 40}
    FirstRange = 20
    DefaultPoints = 3
    MaxPoints = 5
    OldIntervals = {5}
    Start = 40
    MaxNow = 47
SPECIFICATION Spec
INVARIANTS ChosenNearest TwiceOrFewest AnswerBounded
CHECK_DEADLOCK FALSE
