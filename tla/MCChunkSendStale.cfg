SPECIFICATION Spec
CONSTANTS
    p1 = p1  p2 = p2  c1 = c1  c2 = c2
    Peers = {p1, p2}
    Chunks = {c1, c2}
    DataChunks = 1
    ForwardMultiplier = 1
    BitmapThreshold = 50
    OutboxCap = 1
    Scenes <- StaleScenes
SYMMETRY ChunkSymmetry
CHECK_DEADLOCK FALSE
INVARIANTS
    InflightExact
