SPECIFICATION HistorySpec
CONSTANTS
    Goroutines = {g1, g2}
    Window = 2
    ThresholdPct = 50
    Recovery = 1
    MaxTotal = 2
    Nil = Nil
INVARIANTS
    TypeOK
    DriftIsBounded
PROPERTIES
    TripHolds
    BreakerCloses
