SPECIFICATION FairSpec
CONSTANTS
    Agents = {1}
    Terminals = {2}
    MaxTrace = 2
CHECK_DEADLOCK FALSE
INVARIANTS PublishedIsQualified ReceiptIsForItsCompletion NothingDropped
PROPERTIES NotOvertaken Delivered
