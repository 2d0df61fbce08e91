\* One key long enough to carry twice and to reuse slots of the history, or a
\* second key set up while datagrams of the first are in flight.
CONSTANTS
    Base = 8
    Half = 4
    LateWindow = 3
    MaxSent = 10
    MaxKey = 2
    Nonces <- RekeyNonces
SPECIFICATION Spec
INVARIANTS
    TypeOK
    NoReplay
    WindowRemembered
    LostExact
    FreshAccepted
PROPERTY
    ImplementsWindow
