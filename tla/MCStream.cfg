CONSTANTS
    r1 = r1
    r2 = r2
    Requests <- TwoRequests
    Ways <- MCWays
    Ids = {1, 2}
    FreshIds = TRUE
    MaxLines = 2
SPECIFICATION Spec
CHECK_DEADLOCK FALSE
INVARIANTS
    TypeOK
    StreamTellsTheTruth
    AnswerIsWhole
PROPERTIES
    RetryIsSafe
    ContractKept
    EveryRequestEnds
