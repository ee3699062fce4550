SPECIFICATION HistorySpec
CONSTANTS
    Uris = {u1}
    MaxConnections = 2
    MaxRequests = 2
    Handshake = Handshake
    Garbage = Garbage
    None = None
INVARIANTS
    PendingIsOpen
    SessionsAreLive
    UnderWayOnce
PROPERTY
    EveryFetchSettles
CHECK_DEADLOCK FALSE
