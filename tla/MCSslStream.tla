---------------------------- MODULE MCSslStream -----------------------------
EXTENDS SslStream

Ones(n) == [i \in 1 .. n |-> 1]

\* Nothing but the header, short payloads, one that just fills the buffer of
\* twelve bytes and one that is a byte too long for it; type 2 is fatal.
Messages ==
    {[type |-> 1, payload |-> p] : p \in {<< >>, <<0, 1>>, Ones(6), Ones(7)}}
        \cup {[type |-> 2, payload |-> p] : p \in {<< >>, <<1>>}}
=============================================================================
