\* A user is given another name.
CONSTANTS
    Sessions = {1, 2}
    Channels = {0}
    Names = {"a", "b"}
    ChannelNames = {"r"}
    Home <- RootOnly
    Changes <- Renames
    MaxWire = 4
    MaxNames = 2
SPECIFICATION Spec
INVARIANT
    RecordsTracked
