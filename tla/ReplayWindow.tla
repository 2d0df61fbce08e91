---------------------------- MODULE ReplayWindow ----------------------------
(***************************************************************************)
(* What the datagram cipher promises its caller, without bytes, histories  *)
(* or reconstructed nonces: a sender numbers its datagrams one after the   *)
(* other from a start agreed with the key, the network does what it likes  *)
(* with them, and the receiver takes each one at most once and only while  *)
(* it is in a window around the highest number it has taken.               *)
(***************************************************************************)
EXTENDS Integers, Sequences

CONSTANTS
    Starts,  \* the numbers a key's sequence may start after
    Behind,  \* a datagram this far behind the highest is no longer taken
    Beyond   \* a datagram more than this far ahead of it is not taken yet

VARIABLES
    starts,  \* starts[k] is where the numbering of key k started
    sent,    \* the datagrams the network has seen, as [key, num]
    key,     \* the key the receiver uses, 0 before it has one
    high,    \* the highest number the receiver has taken under that key
    got,     \* the datagrams the receiver has taken
    good     \* how many datagrams it has handed to its caller

vars == <<starts, sent, key, high, got, good>>

Numbers(k) == {p.num : p \in {q \in sent : q.key = k}}

Init ==
    /\ starts = << >>
    /\ sent = {}
    /\ key = 0
    /\ high = 0
    /\ got = {}
    /\ good = 0

\* The sender draws a new key and a start for its numbering.
Rekey(n) ==
    /\ starts' = Append(starts, n)
    /\ UNCHANGED <<sent, key, high, got, good>>

\* The sender's next datagram has the smallest number not used yet.
Send ==
    /\ starts # << >>
    /\ \E num \in {starts[Len(starts)] + 1} \cup {m + 1 : m \in Numbers(Len(starts))} :
        /\ num \notin Numbers(Len(starts))
        /\ sent' = sent \cup {[key |-> Len(starts), num |-> num]}
    /\ UNCHANGED <<starts, key, high, got, good>>

\* The receiver moves on to the next key.
Install ==
    /\ key < Len(starts)
    /\ key' = key + 1
    /\ high' = starts[key + 1]
    /\ UNCHANGED <<starts, sent, got, good>>

\* The receiver takes a datagram it has not taken before.
Receive(p) ==
    /\ p.key = key
    /\ p \notin got
    /\ high - Behind < p.num
    /\ p.num <= high + Beyond
    /\ got' = got \cup {p}
    /\ high' = IF p.num > high THEN p.num ELSE high
    /\ good' = good + 1
    /\ UNCHANGED <<starts, sent, key>>

Next ==
    \/ \E n \in Starts : Rekey(n)
    \/ Send
    \/ Install
    \/ \E p \in sent : Receive(p)

Spec == Init /\ [][Next]_vars
=============================================================================
