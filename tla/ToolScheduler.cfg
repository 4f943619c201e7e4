SPECIFICATION FairSpec
CONSTANTS
    MaxCalls = 4
    Limit = 2
INVARIANTS OrderFence NeverStuck OutputPreserved
    ObservedOnce ResultsInOrder
PROPERTY ResponseEnds
