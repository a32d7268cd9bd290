SPECIFICATION FairSpec
CONSTANTS
    MaxSessions = 1
PROPERTIES
    StartFailureEndsReporter
CHECK_DEADLOCK FALSE
