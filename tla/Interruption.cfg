SPECIFICATION Spec
CONSTANTS
    Calls = {c1}
    Agents = {a1}
    Worker = w
    Tools = {v1}
    MaxRuns = 2
    MaxRequests = 3
    MaxCommands = 1
    MaxContinuations = 1
CHECK_DEADLOCK FALSE
INVARIANTS AnswersReachTheirRequest ReportedInputIsOwned CancelReleasesWaiters
PROPERTIES NoReviving
