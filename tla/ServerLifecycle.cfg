SPECIFICATION FairSpec
CONSTANTS
    MaxSessions = 3
INVARIANTS
    NothingCutOff
PROPERTIES
    ProcessEndsAfterCancel
    ReportsGoOn
CHECK_DEADLOCK FALSE
