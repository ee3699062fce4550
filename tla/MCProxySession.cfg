SPECIFICATION FairSpec
CONSTANTS
    Goroutines = {g1, g2}
    Addresses = {a1, a2}
    MaxSessions = 5
    MinRefresh = 1
    MaxRefresh = 2
    SessionsPerSlot = 1
    Nil = Nil
INVARIANTS
    RefreshExclusive
    SlotsBalanced
PROPERTIES
    RequestsEnd
