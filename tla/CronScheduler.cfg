SPECIFICATION FairSpec
CONSTANTS
    Jobs = {j1}
    Procs = {p, q}
    Clients = {c1, c2}
    Kinds = {"every", "at"}
    Nobody = nobody
    Interval = 1
    AtTime = 1
    Grace = 0
    MaxTime = 2
    MaxOps = 2
    MaxFaults = 1
CHECK_DEADLOCK FALSE
INVARIANTS RunFiresOnce NothingRevived
PROPERTIES DueIsHandled
