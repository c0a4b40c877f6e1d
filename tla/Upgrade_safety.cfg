CONSTANTS
    Latest = 2
    MaxCrashes = 3
SPECIFICATION Spec
INVARIANTS StampTruthful OpenedIsLatest BackupBeforeWrite ExitHonest
