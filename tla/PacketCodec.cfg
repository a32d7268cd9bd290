SPECIFICATION Spec
CONSTANTS
    ByteBase = 12
    MaxPayload = 16
    MaxMessages = 2
INVARIANTS
    ReceivedIsSent
    OnlyForeignRejected
CHECK_DEADLOCK FALSE
