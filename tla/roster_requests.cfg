\* Every kind of change and of request; two users, two names among them, and two
\* channels, of which one comes and goes.
CONSTANTS
    Sessions = {1, 2}
    Channels = {0, 1}
    Names = {a, b}
    a = a
    b = b
    ChannelNames = {"r"}
    Home <- RootOnly
    Changes <- Everything
    MaxWire = 2
    MaxNames = 2
    MaxOutbox = 1
SYMMETRY Symmetry
SPECIFICATION RequestsSpec
INVARIANTS
    TypeOK
    UsersTracked
    ChannelsTracked
    MutesTracked
    NamesKnown
    LocationsKnown
    OwnChannelKnown
    TextWhereBeen
