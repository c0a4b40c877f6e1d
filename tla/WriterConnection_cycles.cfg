CONSTANTS
    NumAlerts = 2
    WalLimit = 3
    MaxOther = 3
SPECIFICATION FairSpec
INVARIANTS AckedKeptAlone HeldForUnfinished
PROPERTIES InsertRecovers WalCheckpointed
