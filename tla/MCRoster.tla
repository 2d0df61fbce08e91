------------------------------ MODULE MCRoster ------------------------------
EXTENDS Roster

RootOnly == {0}
Anywhere == {0, 1}

ChannelAdds == {"channel"}
Renames == {"rename"}
=============================================================================
