SPECIFICATION HistorySpec
CONSTANTS
    Uris = {u1}
    MaxConnections = 1
    MaxRequests = 2
    Handshake = Handshake
    Garbage = Garbage
    None = None
PROPERTY
    AnswerFindsItsRequest
CHECK_DEADLOCK FALSE
