SPECIFICATION HistorySpec
CONSTANTS
    a = a
    b = b
    c = c
    s = s
    t = t
    Nodes = {a, b, c}
    Main = a
    Named = {b, c}
    secret <- MCSecret
    GitHubSecret = s
    None = None
    MaxPushes = 2
    MaxScripts = 3
INVARIANTS
    DeliveredOnce
    RunsAlone
PROPERTIES
    PushesSpread
CHECK_DEADLOCK FALSE
