SPECIFICATION Spec
CONSTANTS
    p1 = p1
    p2 = p2
    s1 = s1
    s2 = s2
    c1 = c1
    Peers = {p1, p2}
    Streams = {s1, s2}
    PeerOf <- MCPeerOf
    ChunkOf <- MCChunkOf
    Chunks = {c1}
    DataChunks = 1
    MaxParked = 1
    MaxReads = 1
    InboxCap = 2
    MaxConn = 1
    MaxOpen = 2
    Scenes <- StaleScenes
PROPERTY ReconstructedByDecode
CHECK_DEADLOCK FALSE
