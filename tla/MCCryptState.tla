---------------------------- MODULE MCCryptState ----------------------------
EXTENDS CryptState

\* A nonce just below a carry of byte 0, in a round whose byte 1 is not the
\* value the history starts with.
CarryNonces == {[lo |-> 6, hi |-> 1]}

\* A nonce near a carry and one in the first round, where byte 1 is 0.
RekeyNonces == {[lo |-> 6, hi |-> 1], [lo |-> 7, hi |-> 0]}

\* A nonce whose byte 1 is 0, the value the history starts with.
ZeroNonces == {[lo |-> 2, hi |-> 0]}
=============================================================================
