SPECIFICATION FairSpec
CONSTANTS
    c1 = c1  k1 = k1
    Channels = {c1}
    Keys = {k1}
    ChannelOf <- MCChannelOf
    MaxGen = 2
    MaxEpoch = 2
    SlotUpdateCap = 1
CHECK_DEADLOCK FALSE
INVARIANTS
    ChannelsSettled
    SessionsSettled
    NoForeignFrame
    NoForgottenStream
PROPERTIES
    WireOrder
    EndsClean
