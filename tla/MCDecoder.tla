----------------------------- MODULE MCDecoder ------------------------------
EXTENDS Decoder, TLC

\* A frame of ten samples, or OPUS_INVALID_PACKET, -4.
AnyResult == {10, -4}

AnySpeaker == Permutations(Sessions)
=============================================================================
