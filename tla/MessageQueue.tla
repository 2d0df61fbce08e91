---------------------------- MODULE MessageQueue ----------------------------
(***************************************************************************)
(* What the control connection promises to the layers above, and what the  *)
(* modules Transport and Roster take it to be: whole messages, in the      *)
(* order in which they were sent, each at most once, until the reading     *)
(* ends.  It ends with a message, processed or refused, and then for good. *)
(***************************************************************************)
EXTENDS Sequences

CONSTANT Message

VARIABLES
    inbox,     \* messages sent and not yet received
    received,  \* messages processed, in order
    open       \* whether the reading goes on

vars == <<inbox, received, open>>

Init == inbox = << >> /\ received = << >> /\ open = TRUE

Send(m) ==
    /\ inbox' = Append(inbox, m)
    /\ UNCHANGED <<received, open>>

Receive ==
    /\ open
    /\ inbox # << >>
    /\ received' = Append(received, Head(inbox))
    /\ inbox' = Tail(inbox)
    /\ open' \in BOOLEAN

\* The first message is refused.
Refuse ==
    /\ open
    /\ inbox # << >>
    /\ open' = FALSE
    /\ UNCHANGED <<inbox, received>>

Next == (\E m \in Message : Send(m)) \/ Receive \/ Refuse

Spec == Init /\ [][Next]_vars
=============================================================================
