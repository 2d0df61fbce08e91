----------------------------- MODULE MCRequests -----------------------------
EXTENDS Requests, TLC

Everything == {"join", "leave", "move", "partial", "rename", "channel", "renameChannel"}

RootOnly == {0}

Symmetry == Permutations(Names)
=============================================================================
