\* Any server, any datagram, any order of connect, run and disconnect, under the
\* fairness of the event loop.
CONSTANTS
    Messages <- AnyMessage
    Datagrams <- AnyDatagram
    MaxInbox = 3
SPECIFICATION FairSpec
INVARIANTS
    TypeOK
    KeyedVoice
    Listening
    DownMeansOver
    RunEndsDown
    ConnectedIsLive
PROPERTIES
    ConnectedOnlyFromLogin
    TimeoutOnlyWhenLost
    LossDetected
    LoginCompletes
