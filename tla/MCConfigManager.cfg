SPECIFICATION HistorySpec
CONSTANTS
    Keys = {"port", "workers", "level"}
    Values = {"a", "b", "bad"}
    Accepted <- MCAccepted
    Env <- MCEnv
    Requests <- MCRequests
    DefaultEdits <- MCDefaultEdits
    NodeEdits <- MCNodeEdits
    Absent = Absent
    Unreadable = Unreadable
INVARIANTS
    HistoryTypeOK
    InForceWasChecked
    SavedSettingsSurvive
    FilesInForce
