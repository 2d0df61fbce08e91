---------------------------- MODULE MCVoiceTarget ----------------------------
EXTENDS VoiceTarget, TLC

Symmetry == Permutations(Ids) \cup Permutations(Targets)
=============================================================================
