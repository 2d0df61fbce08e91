\* The server puts the client into another channel than the root.
CONSTANTS
    Sessions = {1, 2}
    Channels = {0, 1}
    Names = {"a"}
    ChannelNames = {"r"}
    Home <- Anywhere
    Changes <- ChannelAdds
    MaxWire = 4
    MaxNames = 2
SPECIFICATION Spec
INVARIANT
    OwnChannelTracked
