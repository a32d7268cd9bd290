SPECIFICATION FairSpec
CONSTANTS
    NumClients = 3
    WarmupMoves = 1
    MeasuredMoves = 1
    MaxFaults = 1
    MaxSamples = 210
    SizeModulus = 16384
INVARIANTS
    CleanStart
    ExpectedDeliveries
    SummaryIsNearest
PROPERTIES
    OrderlyLeave
    
CHECK_DEADLOCK FALSE
