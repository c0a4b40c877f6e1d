CONSTANTS
    Out = "out"
    Err = "err"
    Streams = {"out", "err"}
    Cap <- Caps
    PipeSize = 2
    Scratch = 2
    StdioSize = 2
    NumStmts = 6
    Scripts <- MCScripts
    RowSize = 3
    MaxRows = 3
SPECIFICATION FairSpec
INVARIANTS OutputExact AllOrNothing NothingLeft
PROPERTIES Returns
CHECK_DEADLOCK FALSE
