SPECIFICATION Spec
CONSTANTS
    Half = 5
    FieldLen = 2
    Limit = 9
    WordLen = 2
    Word = 11
    Reserved = 1
    Conns = {"c1", "c2"}
    MaxStreams = 3
    Calls = {"o1"}
    MaxClassify = 1
    MaxReads = 1
    MaxPending = 1
    Routes <- MCRoutes
    ControlFamily = 0
    MaxFamilies = 2
    MaxControlFrame = 2
    StackCodes <- MCStackCodes
    Unspecified = 0
    RlpSingle = 2
    RlpShort = 1
    RlpLong = 2
    IntLen = 1
    Scenes <- MCScenes
    None = None
INVARIANTS
    HeaderSlots
    NoOrphanStream
    RoutedAsSent
    SharedToTheEnd
    CodecCanonical
PROPERTIES
    OpensOwned
CHECK_DEADLOCK FALSE
