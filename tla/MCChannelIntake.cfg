SPECIFICATION FairSpec
CONSTANTS
    p1 = p1
    p2 = p2
    s1 = s1
    s2 = s2
    c1 = c1
    Peers = {p1, p2}
    Streams = {s1, s2}
    PeerOf <- MCPeerOf
    ChunkOf <- MCChunkOf
    Chunks = {c1}
    DataChunks = 1
    MaxParked = 1
    MaxReads = 1
    InboxCap = 1
    MaxConn = 3
    MaxOpen = 1
    Scenes <- MCScenes
INVARIANTS
    NoLeakedStream
    NoReadStall
    DecoderOwned
    PeersAreMembers
    NoIdleSession
PROPERTIES
    CloseReturns
    StreamSettles
CHECK_DEADLOCK FALSE
