SPECIFICATION IdentityHistorySpec
CONSTANTS
    Handlers = {g, h}
    Profiles = {p, q}
    None = None
INVARIANTS
    OneBrowser
PROPERTIES
    NothingLeft
