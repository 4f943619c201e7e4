SPECIFICATION Spec
CONSTANTS
    Jobs = {j1}
    Procs = {p, q}
    Clients = {c1, c2}
    Kinds = {"cron"}
    Nobody = nobody
    Interval = 1
    AtTime = 1
    Grace = 1
    MaxTime = 2
    MaxOps = 2
    MaxFaults = 0
CHECK_DEADLOCK FALSE
INVARIANT EachRunFiresOnce
