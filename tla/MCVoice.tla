------------------------------ MODULE MCVoice -------------------------------
EXTENDS Voice, TLC

\* 5 ms, 10 ms and 60 ms at 48 kbit/s: 360 bytes need two bytes of length.
Payloads == (240 :> 30) @@ (480 :> 60) @@ (2880 :> 360)

\* Sequence numbers next to 2^7, 2^14, 2^21 and 2^28.
Silences == {21, 2730, 349525, 44739242}

OtherCodecs == {"CeltAlpha", "Speex"}

\* What was in the buffer before: zeros, or bytes that lead the longest forms.
Leftovers == {[i \in 1 .. 9 |-> 0], [i \in 1 .. 9 |-> 255]}

\* A clock of 2022, and one from before the nine-byte form.
Clocks == {1660435200, 100000000}
=============================================================================
