CONSTANTS
    NumAlerts = 1
    WalLimit = 3
    MaxOther = 2
SPECIFICATION Spec
INVARIANTS AckedKept
