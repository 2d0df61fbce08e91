\* Binary bytes, a buffer of twelve, three messages one behind the other.
CONSTANTS
    Base = 2
    MaxLength = 12
    Message <- Messages
    Fatal = {2}
    MaxSent = 3
SPECIFICATION FairSpec
INVARIANTS
    TypeOK
    StreamIsInbox
    EndsForAReason
PROPERTIES
    ImplementsQueue
    AllReceived
CHECK_DEADLOCK FALSE
