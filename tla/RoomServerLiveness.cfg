SPECIFICATION FairSpec
CONSTANTS
    MaxSessions = 2
    Positions = {origin}
    Origin = origin
    Absent = absent
    MaxPackets = 2
    MaxThrows = 0
    MaxFailures = 1
    StaleReads = TRUE
PROPERTIES
    StoppedSessionEnds
    AcceptedCommandsApplied
    ServerTerminates
