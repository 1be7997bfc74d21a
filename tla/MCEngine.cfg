SPECIFICATION FairSpec
CONSTANTS
    MaxHandles = 2
    MaxIds = 1
    Chans = {"x1", "x2"}
    IdOf <- MCIdOf
    EventCap = 1
    InboxCap = 1
    SessionCap = 1
    ChunkSem = 1
    Scenes <- MCScenes
    None = None
INVARIANTS
    MembersAgree
    StreamsDisposed
PROPERTIES
    CloseReturns
CHECK_DEADLOCK FALSE
