SPECIFICATION FairSpec
CONSTANTS
    Capacity = 2
    MaxSessions = 3
    MaxCommands = 1
    MaxReports = 2
INVARIANTS
    NoSelfDeadlock
    RingIsRecent
    ReportIsPartition
PROPERTIES
    EndedIsRetired
