CONSTANTS
    Configs <- MCConfigs
    Counts <- MCCounts
    UserWords <- MCUserWords
    Careless <- MCCareless
    Threads = {"a", "b"}
    Lengths = {0, 3, 6}
    Nulls <- MCNulls
SPECIFICATION CallsSpec
INVARIANTS
    ArgumentsArrive
    LabelTellsMethod
    AnswerArrives
    HandlerTold
    TimeoutReplyRestores
    MessageDelivered
PROPERTY MessageKept
\* Threads may wait for each other, and a stopped thread is not resumed.
CHECK_DEADLOCK FALSE
