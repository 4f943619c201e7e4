SPECIFICATION Spec
CONSTANTS
    Tasks = {t1, t2}
    NoTask = NoTask
    Hosts = {h1, h2}
    HistoryLimit = 1
    MaxOperations = 1
    MaxPauses = 2
SYMMETRY Symmetry
INVARIANTS GrantedIsQuiet SweepReachesAll StopIsSignalled
    NoRunningOrphan SinkMirrorsRegistry
