SPECIFICATION FairSpec
CONSTANTS
    h1 = h1  h2 = h2
    s1 = s1  s2 = s2  s3 = s3
    BCAST = BCAST  SESS = SESS
    Peers = {p1, p2}
    Handles <- MCHandles
    Streams <- MCStreams
    Protocols <- MCProtocols
    ProtocolOf <- MCProtocolOf
    MaxQueued <- MCMaxQueued
    NoHandle = NoHandle
    NoPeer = NoPeer
CHECK_DEADLOCK FALSE
INVARIANTS
    ReplacedDownFirst
    NoLostWake
    TakeTurns
    QueueCountExact
    NoStrandedStream
PROPERTIES
    EventOrder
    EveryEventReturned
