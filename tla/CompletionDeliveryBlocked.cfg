SPECIFICATION Spec
CONSTANTS
    Agents = {1}
    Terminals = {2}
    MaxTrace = 2
CHECK_DEADLOCK FALSE
INVARIANT UnconfirmedParentOnly
