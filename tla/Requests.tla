------------------------------ MODULE Requests ------------------------------
(***************************************************************************)
(* What the application asks of the server through Mumlib2Private, on top  *)
(* of what the server reports (module Roster): to join a channel, to       *)
(* change a flag of its own user, to pass on a text.  A request goes over  *)
(* the same connection in the other direction; the server reads it later,  *)
(* and answers a change of the user with a report to all.                  *)
(*                                                                         *)
(* The checks of a request look at what the client knows at the moment of  *)
(* the call.  sendControlMessage drops it unless the state is CONNECTED,   *)
(* which it becomes with ServerSync; the caller is told nothing of that.   *)
(***************************************************************************)
EXTENDS Roster

CONSTANTS
    MaxOutbox  \* bound: requests in flight

ASSUME OutboxAssumption == MaxOutbox \in Nat

VARIABLES
    outbox,  \* requests sent and not yet read by the server
    been     \* history: the channels the client's user has been in since its
             \* session began

all == <<vars, outbox, been>>

JoinRequest(c) == [type |-> "USERSTATE", channel_id |-> c]
FlagRequest == [type |-> "USERSTATE", channel_id |-> NoId]
TextMessage(c) == [type |-> "TEXTMESSAGE", channel_id |-> c]

RequestsInit == Init /\ outbox = << >> /\ been = {}

-----------------------------------------------------------------------------
Connected == link = "up" /\ session_id # 0

TransportSendControl(m) == outbox' = IF Connected THEN Append(outbox, m) ELSE outbox

Asks(m) ==
    /\ Len(outbox) < MaxOutbox
    /\ TransportSendControl(m)
    /\ UNCHANGED vars

\* A channel the client does not know is refused at once.
ChannelJoin(c) == ChannelExists(c) /\ Asks(JoinRequest(c))

\* The first channel with the name, in order of arrival.
ChannelFind(n) ==
    LET i == SelectInSeq(channel_list, LAMBDA ch : ch.name = n)
    IN  IF i = 0 THEN NoId ELSE channel_list[i].channelId

\* Mumlib2::ChannelJoin with a name; one that no channel has is refused at once.
ChannelJoinByName(n) == ChannelFind(n) # NoId /\ ChannelJoin(ChannelFind(n))

\* A flag or the comment of the client's own user.
UserSendState == Asks(FlagRequest)

TextSend == Asks(TextMessage(channel_current))

-----------------------------------------------------------------------------
(***************************************************************************)
(* The server reads the next request                                       *)
(***************************************************************************)

Reads(type) ==
    /\ outbox # << >>
    /\ Head(outbox).type = type
    /\ outbox' = Tail(outbox)
    /\ UNCHANGED <<link, channels, own, client>>

\* A channel that is gone by now is ignored; a change is reported back to all.
ReadsUserState ==
    LET c == Head(outbox).channel_id
    IN  /\ Reads("USERSTATE")
        /\ Len(wire) < MaxWire
        /\ IF c \in DOMAIN channels \cup {NoId}
           THEN /\ users' = IF c = NoId THEN users ELSE [users EXCEPT ![own].channel = c]
                /\ wire' = Append(wire, UserState(own, NoName, c))
           ELSE UNCHANGED <<users, wire>>

\* The text goes to whoever is in the channel.
ReadsText == Reads("TEXTMESSAGE") /\ UNCHANGED <<users, wire>>

\* The requests in flight go with the connection.
ConnectionChanges ==
    /\ TransportConnect \/ TransportLost \/ TransportDisconnect
    /\ outbox' = << >>

Application ==
    \/ \E c \in Channels : ChannelJoin(c)
    \/ \E n \in ChannelNames : ChannelJoinByName(n)
    \/ UserSendState
    \/ TextSend

ServerReads == ReadsUserState \/ ReadsText

\* Where the client's user is after the step, and where it was before.
Wanders ==
    been' = IF link' = "down" THEN {}
            ELSE (IF link = "down" THEN {} ELSE been) \cup {users'[own'].channel}

RequestsNext ==
    /\ \/ ConnectionChanges
       \/ Server /\ UNCHANGED outbox
       \/ Client /\ UNCHANGED outbox
       \/ Application
       \/ ServerReads
    /\ Wanders

RequestsSpec == RequestsInit /\ [][RequestsNext]_all

-----------------------------------------------------------------------------
(***************************************************************************)
(* Properties                                                              *)
(***************************************************************************)

\* Where a user is about whom nothing is in flight, the client has it or, after a
\* report without a channel, no channel at all: joins, the server's moves and the
\* answers to the client's own requests never leave it with an old one.
LocationsKnown ==
    link = "up" =>
        \A s \in DOMAIN users :
            AboutUser(s) = {} => user_map[s].channelId \in {users[s].channel, NoId}

\* The same for the channel the client takes itself to be in.
OwnChannelKnown ==
    link = "up" /\ session_id # 0 /\ AboutUser(own) = {} =>
        channel_current \in {users[own].channel, NoId}

\* A text is on its way to a channel its sender has been in since it logged in, or
\* to none: never to one of an earlier session, nor to one it has asked to join and
\* is not in yet.
TextWhereBeen ==
    \A i \in DOMAIN outbox :
        outbox[i].type = "TEXTMESSAGE" => outbox[i].channel_id \in been \cup {NoId}

=============================================================================
