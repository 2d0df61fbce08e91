\* One tick with a long silence on UDP is enough.
CONSTANTS
    Messages <- NoMessages
    Datagrams <- Voice
    MaxInbox = 2
SPECIFICATION Spec
INVARIANT
    FallsBackToTcp
