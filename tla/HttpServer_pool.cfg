CONSTANTS
    t1 = t1
    t2 = t2
    c1 = c1
    c2 = c2
    c3 = c3
    None = None
    Workers = {t1, t2}
    Clients = {c1, c2, c3}
    MaxDashboards = 1
    ReserveMin = 1
    ReserveRatio = 16
    Refresh = 2
    Keepalive = 1
SPECIFICATION FairSpec
INVARIANTS SlotsExact ReserveKept DbOutlivesWorkers
PROPERTIES ApiAnswered LeaverFreesSlot StopCompletes
CHECK_DEADLOCK FALSE
