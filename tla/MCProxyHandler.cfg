SPECIFICATION FairSpec
CONSTANTS
    Goroutines = {g1, g2}
    MaxRetries = 2
INVARIANTS
    TypeOK
    ActiveIsExact
    StatsAddUp
    RecordedOnce
PROPERTIES
    DrainMissesOnlyNewcomers
    RequestsSettle
CHECK_DEADLOCK FALSE
