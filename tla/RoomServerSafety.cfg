SPECIFICATION Spec
CONSTANTS
    MaxSessions = 2
    Positions = {origin}
    Origin = origin
    Absent = absent
    MaxPackets = 3
    MaxThrows = 1
    MaxFailures = 1
    StaleReads = TRUE
INVARIANTS
    NoCommandRejected
    MembersMatchRoom
    QueueOutlivesSessions
    
PROPERTIES
    EventsPostedInOrder
