SPECIFICATION FairSpec
CONSTANTS
    MaxPendingBytes = 6
    MaxBatchPackets = 2
    MaxBatchBytes = 3
    SizeModulus = 64
    PacketSizes = {1, 2, 4}
    MaxOffered = 6
INVARIANTS
    SingleWriter
    NothingStranded
    BytesBounded
    BatchIsLongestPrefix
PROPERTIES
    ImplementsStream
    AcceptedIsSent
