SPECIFICATION Spec
CONSTANTS
    MaxSockets = 2
    MaxRequests = 2
    MaxLogs = 2
    MaxErrorLogs = 1
    None = None
INVARIANTS
    TypeOK
    PendingHasTimer
    EndsAgree
    LogsAgree
PROPERTIES
    AnswersMatch
    EveryCallSettles
CHECK_DEADLOCK FALSE
