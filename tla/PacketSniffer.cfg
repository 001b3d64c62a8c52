CONSTANTS
    MaxPacketLength = 30
    Streams <- MCStreams
    ReadSizes <- MCReadSizes
    StaleBytes <- MCStaleBytes
CHECK_DEADLOCK FALSE
SPECIFICATION FairSpec
INVARIANT BufferIsTail
INVARIANT PacketsAreTheItems
INVARIANT UbloxComesWhole
PROPERTY PacketsArrive
PROPERTY RepeatedPacketGetsThrough
PROPERTY PacketsAreCut
PROPERTY ParsingAdvances
