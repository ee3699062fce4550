SPECIFICATION UpdateHistorySpec
CONSTANTS
    MaxCommits = 2
    MaxFailures = 2
    NoBackup = NoBackup
    Empty = Empty
    Torn = Torn
INVARIANTS
    OneVersion
PROPERTIES
    PushesRun
