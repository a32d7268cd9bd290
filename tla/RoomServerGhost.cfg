SPECIFICATION Spec
CONSTANTS
    MaxSessions = 2
    Positions = {origin}
    Origin = origin
    Absent = absent
    MaxPackets = 3
    MaxThrows = 0
    MaxFailures = 0
    StaleReads = TRUE
INVARIANTS
    NoGhostPlayer
