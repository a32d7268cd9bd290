SPECIFICATION MetricsSpec
CONSTANTS
    MaxPendingBytes = 3
    MaxBatchPackets = 2
    MaxBatchBytes = 3
    SizeModulus = 64
    PacketSizes = {1, 2}
    MaxOffered = 3
    Publishers = {p1, p2}
SYMMETRY
    PublisherSymmetry
INVARIANTS
    GaugesTellTruth
    PostedPeakExact
    TotalsAddUp
