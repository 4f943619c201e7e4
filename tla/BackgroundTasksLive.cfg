SPECIFICATION FairSpec
CONSTANTS
    Tasks = {t1, t2}
    NoTask = NoTask
    Hosts = {h1}
    HistoryLimit = 1
    MaxOperations = 1
    MaxPauses = 1
CHECK_DEADLOCK FALSE
PROPERTIES PauseDrains CloseDrains
