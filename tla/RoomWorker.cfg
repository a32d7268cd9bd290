SPECIFICATION Spec
CONSTANTS
    MaxSessions = 2
    Positions = {origin, square}
    Origin = origin
    Absent = absent
    Submitters = {t1, t2}
    MaxCommands = 3
INVARIANTS
    NoLostWakeup
    RoomIsReplay
    SummaryIsFinal
PROPERTIES
    ImplementsService
