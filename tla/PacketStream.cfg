SPECIFICATION Spec
CONSTANTS
    HeaderSize = 2
    MaxPayload = 3
    ChunkSize = 3
    InitialCapacity = 4
    PayloadSizes = {0, 1, 3, 4, 5}
    MaxSent = 4
INVARIANTS
    BufferIsStream
    FramingIgnoresChunks
    OnlyMalformedRejected
    ReadFits
    CapacityBounded
