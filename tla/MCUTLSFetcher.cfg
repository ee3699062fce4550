SPECIFICATION HistorySpec
CONSTANTS
    Count = 3
    Trial = 1
    FailPct = 60
    MaxAvgRT = 4
    NoAddress = NoAddress
    Concurrency = 2
    MaxRequests = 5
    StatusCodes = {}
    NoStatus = NoStatus
    Durations = {1, 5}
INVARIANTS
    TypeOK
    Accounting
    CounterIsExact
    LoadIsBalanced
PROPERTIES
    ServiceKept
    AnsweredUnlessLost
CHECK_DEADLOCK FALSE
