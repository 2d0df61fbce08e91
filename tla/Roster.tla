------------------------------- MODULE Roster -------------------------------
(***************************************************************************)
(* What Mumlib2Private keeps about the server it is connected to: the      *)
(* users, with the mute the application has put on them, the channels, the *)
(* session that is its own and the channel it takes itself to be in.  The  *)
(* control messages that change it arrive in order over one connection;    *)
(* the application asks for mutes at any moment in between.                *)
(*                                                                         *)
(* The server is external: it has the true users and channels, opens a     *)
(* session with one message per channel and per user and then ServerSync,  *)
(* and from then on reports every change, naming only what has changed.    *)
(***************************************************************************)
EXTENDS Integers, Sequences, FiniteSets, SequencesExt

CONSTANTS
    Sessions,  \* the session numbers the server gives out, from 1
    Channels,  \* channel numbers; 0 is the root channel
    Names,     \* names of users
    ChannelNames,
    Home,      \* the channels a login may put the client in
    Changes,   \* the kinds of change the server reports
    MaxWire,   \* bound: messages in flight before the server changes anything
    MaxNames   \* bound: names of a user, from the beginning of its session on

ASSUME NumbersAssumption ==
    /\ Sessions \subseteq Nat \ {0}
    /\ Channels \subseteq Nat
    /\ 0 \in Channels
    /\ Home \subseteq Channels
    /\ Home # {}
ASSUME ChangesAssumption ==
    Changes \subseteq {"join", "leave", "move", "partial", "rename", "channel", "renameChannel"}
ASSUME WireAssumption == MaxWire \in Nat /\ MaxNames \in Nat

\* The -1 that stands for an absent field; as an unsigned channel number the
\* same bits read 2^32 - 1, which is not a channel either.
NoId == -1

\* The empty string, an absent name.
NoName == "none"
ASSUME NamesAssumption == NoName \notin Names /\ ChannelNames # {}

VARIABLES
    link,             \* whether the session's connection is up
    users, channels,  \* the server's users by session and channel names by number;
                      \* "had" is history: the names a user has had since this
                      \* connection, or its own session, began
    own,              \* the session the server has given this client, 0 for none
    wire,             \* control messages sent and not yet processed
    session_id,       \* the client's own session, 0 before ServerSync
    channel_current,  \* the channel the client takes itself to be in
    channel_list,     \* the channels the client knows, in order of arrival
    user_map,         \* the users the client knows, by session
    asked             \* history: the present users the application has muted

server == <<link, users, channels, own>>
client == <<session_id, channel_current, channel_list, user_map, asked>>
vars == <<server, wire, client>>

\* A user is named by the first message about it.
User == [name : Names, channelId : Channels \cup {NoId}, local_mute : BOOLEAN]

\* f with x mapped to y, and f without x.
Put(f, x, y) == [z \in DOMAIN f \cup {x} |-> IF z = x THEN y ELSE f[z]]
Drop(f, x) == [z \in DOMAIN f \ {x} |-> f[z]]

Newcomer(n, c) == [name |-> n, had |-> {n}, channel |-> c]

NoUsers == [s \in {} |-> {}]

UserState(s, name, channel) ==
    [type |-> "USERSTATE", session |-> s, name |-> name, channel_id |-> channel]
UserRemove(s) == [type |-> "USERREMOVE", session |-> s]
ChannelState(c, name) == [type |-> "CHANNELSTATE", channel_id |-> c, name |-> name]
ChannelRemove(c) == [type |-> "CHANNELREMOVE", channel_id |-> c]
ServerSync(s) == [type |-> "SERVERSYNC", session |-> s]

Init ==
    /\ link = "down"
    /\ users = NoUsers
    /\ \E n \in ChannelNames : channels = [c \in {0} |-> n]
    /\ own = 0
    /\ wire = << >>
    /\ session_id = 0
    /\ channel_current = 0
    /\ channel_list = << >>
    /\ user_map = NoUsers
    /\ asked = {}

-----------------------------------------------------------------------------
(***************************************************************************)
(* The connection                                                          *)
(***************************************************************************)

\* Mutant: channel and users survive the session.
GeneralClearPartial ==
    /\ session_id' = 0
    /\ channel_list' = << >>
    /\ asked' = {}
    /\ UNCHANGED <<channel_current, user_map>>

GeneralClear ==
    /\ session_id' = 0
    /\ channel_current' = 0
    /\ channel_list' = << >>
    /\ user_map' = NoUsers
    /\ asked' = {}

\* TransportConnect, and the login with which the server answers: all it
\* knows, the client's own user included, and ServerSync at the end.
TransportConnect ==
    /\ link = "down"
    /\ GeneralClear
    /\ link' = "up"
    /\ UNCHANGED channels
    /\ \E s \in Sessions \ DOMAIN users, n \in Names, c \in Home \cap DOMAIN channels :
          /\ own' = s
          /\ users' = Put([t \in DOMAIN users |-> [users[t] EXCEPT !.had = {users[t].name}]],
                          s, Newcomer(n, c))
          /\ wire' = [i \in 1 .. Cardinality(DOMAIN channels) |->
                        LET d == SetToSeq(DOMAIN channels)[i] IN ChannelState(d, channels[d])]
                  \o [i \in 1 .. Cardinality(DOMAIN users') |->
                        LET t == SetToSeq(DOMAIN users')[i]
                        IN  UserState(t, users'[t].name, users'[t].channel)]
                  \o << ServerSync(s) >>

\* Messages still in flight are never read, and the server drops the user.
CloseConnection ==
    /\ link' = "down"
    /\ own' = 0
    /\ users' = Drop(users, own)
    /\ wire' = << >>
    /\ UNCHANGED channels

\* The connection is lost; what the client knows stays until it connects again.
TransportLost ==
    /\ link = "up"
    /\ CloseConnection
    /\ UNCHANGED client

\* TransportDisconnect forgets it at once.
TransportDisconnect ==
    /\ GeneralClear
    /\ CloseConnection

-----------------------------------------------------------------------------
(***************************************************************************)
(* The server changes, and says so if there is a connection                *)
(***************************************************************************)

Reports(kind, m) ==
    /\ kind \in Changes
    /\ Len(wire) < MaxWire
    /\ wire' = IF link = "up" THEN Append(wire, m) ELSE wire
    /\ UNCHANGED <<link, own, client>>

UserJoins(s, n, c) ==
    /\ s \notin DOMAIN users
    /\ users' = Put(users, s, Newcomer(n, c))
    /\ Reports("join", UserState(s, n, c))
    /\ UNCHANGED channels

\* Another user's session ends; its number may be given out again.
UserLeaves(s) ==
    /\ s # own
    /\ users' = Drop(users, s)
    /\ Reports("leave", UserRemove(s))
    /\ UNCHANGED channels

UserMoves(s, c) ==
    /\ users' = [users EXCEPT ![s].channel = c]
    /\ Reports("move", UserState(s, NoName, c))
    /\ UNCHANGED channels

\* A mute, a deafening, a comment: neither the name nor the channel is in it.
UserChanges(s) ==
    /\ Reports("partial", UserState(s, NoName, NoId))
    /\ UNCHANGED <<users, channels>>

UserRenamed(s, n) ==
    /\ n # users[s].name
    /\ Cardinality(users[s].had) < MaxNames
    /\ users' = [users EXCEPT ![s].name = n, ![s].had = @ \cup {n}]
    /\ Reports("rename", UserState(s, n, NoId))
    /\ UNCHANGED channels

ChannelAdded(c, n) ==
    /\ c \notin DOMAIN channels
    /\ channels' = Put(channels, c, n)
    /\ Reports("channel", ChannelState(c, n))
    /\ UNCHANGED users

ChannelRemoved(c) ==
    /\ c # 0
    /\ \A s \in DOMAIN users : users[s].channel # c
    /\ channels' = Drop(channels, c)
    /\ Reports("channel", ChannelRemove(c))
    /\ UNCHANGED users

ChannelRenamed(c, n) ==
    /\ channels' = [channels EXCEPT ![c] = n]
    /\ Reports("renameChannel", ChannelState(c, n))
    /\ UNCHANGED users

Server ==
    \/ \E s \in Sessions, n \in Names, c \in DOMAIN channels : UserJoins(s, n, c)
    \/ \E s \in DOMAIN users :
        \/ UserLeaves(s)
        \/ UserChanges(s)
        \/ \E c \in DOMAIN channels : UserMoves(s, c)
        \/ \E n \in Names : UserRenamed(s, n)
    \/ \E c \in Channels, n \in ChannelNames : ChannelAdded(c, n)
    \/ \E c \in DOMAIN channels :
        \/ ChannelRemoved(c)
        \/ \E n \in ChannelNames : ChannelRenamed(c, n)

-----------------------------------------------------------------------------
(***************************************************************************)
(* The client processes the next message                                   *)
(***************************************************************************)

Processes(type) ==
    /\ wire # << >>
    /\ Head(wire).type = type
    /\ wire' = Tail(wire)
    /\ UNCHANGED server

\* Mutant: the search starts one entry too far on.
ChannelExistsFromOne(c) == \E i \in DOMAIN channel_list \ {1} : channel_list[i].channelId = c

ChannelExists(c) == \E i \in DOMAIN channel_list : channel_list[i].channelId = c

ChannelStatePacket ==
    /\ Processes("CHANNELSTATE")
    /\ LET m == Head(wire)
       IN  channel_list' =
              IF ChannelExists(m.channel_id) THEN channel_list
              ELSE Append(channel_list, [channelId |-> m.channel_id, name |-> m.name])
    /\ UNCHANGED <<session_id, channel_current, user_map, asked>>

\* channelErase: the list without its first entry with the number.
ChannelErase(c) ==
    IF ChannelExists(c)
    THEN RemoveAt(channel_list, SelectInSeq(channel_list, LAMBDA ch : ch.channelId = c))
    ELSE channel_list

ChannelRemovePacket ==
    /\ Processes("CHANNELREMOVE")
    /\ channel_list' = ChannelErase(Head(wire).channel_id)
    /\ UNCHANGED <<session_id, channel_current, user_map, asked>>

\* Mutants: the stored user is overwritten by what the message says; it keeps
\* the channel it was in.
UpdatedAfresh(m) == [name |-> m.name, channelId |-> m.channel_id, local_mute |-> FALSE]
UpdatedOnce(m) ==
    IF m.session \in DOMAIN user_map THEN user_map[m.session] ELSE UpdatedAfresh(m)

\* userUpdate: the mute and the name of a known user are carried over.
Updated(m) ==
    IF m.session \in DOMAIN user_map
    THEN [user_map[m.session] EXCEPT !.channelId = m.channel_id]
    ELSE [name |-> m.name, channelId |-> m.channel_id, local_mute |-> FALSE]

UserStatePacket ==
    /\ Processes("USERSTATE")
    /\ LET m == Head(wire)
       IN  /\ channel_current' = IF m.session = session_id THEN m.channel_id ELSE channel_current
           /\ user_map' = Put(user_map, m.session, Updated(m))
    /\ UNCHANGED <<session_id, channel_list, asked>>

\* Mutant: the user is left in the map.
UserRemovePacketIgnored ==
    /\ Processes("USERREMOVE")
    /\ asked' = asked \ {Head(wire).session}
    /\ UNCHANGED <<session_id, channel_current, channel_list, user_map>>

UserRemovePacket ==
    /\ Processes("USERREMOVE")
    /\ user_map' = Drop(user_map, Head(wire).session)
    /\ asked' = asked \ {Head(wire).session}
    /\ UNCHANGED <<session_id, channel_current, channel_list>>

ServerSyncPacket ==
    /\ Processes("SERVERSYNC")
    /\ session_id' = Head(wire).session
    /\ UNCHANGED <<channel_current, channel_list, user_map, asked>>

\* The application mutes or unmutes a user it knows.
UserMute(s, mute_state) ==
    /\ s \in DOMAIN user_map
    /\ user_map' = [user_map EXCEPT ![s].local_mute = mute_state]
    /\ asked' = IF mute_state THEN asked \cup {s} ELSE asked \ {s}
    /\ UNCHANGED <<server, wire, session_id, channel_current, channel_list>>

Client ==
    \/ ChannelStatePacket
    \/ ChannelRemovePacket
    \/ UserStatePacket
    \/ UserRemovePacket
    \/ ServerSyncPacket
    \/ \E s \in Sessions, mute_state \in BOOLEAN : UserMute(s, mute_state)

Next == TransportConnect \/ TransportLost \/ TransportDisconnect \/ Server \/ Client

Spec == Init /\ [][Next]_vars

-----------------------------------------------------------------------------
(***************************************************************************)
(* Properties                                                              *)
(***************************************************************************)

\* Every variable has its type.
TypeOK ==
    /\ link \in {"down", "up"}
    /\ DOMAIN users \subseteq Sessions
    /\ \A s \in DOMAIN users : users[s] \in [name : Names, had : SUBSET Names, channel : DOMAIN channels]
    /\ DOMAIN channels \subseteq Channels
    /\ \A c \in DOMAIN channels : channels[c] \in ChannelNames
    /\ own \in DOMAIN users \cup {0}
    /\ session_id \in {0} \cup Sessions
    /\ channel_current \in Channels \cup {NoId}
    /\ channel_list \in Seq([channelId : Channels, name : ChannelNames])
    /\ DOMAIN user_map \subseteq Sessions
    /\ \A s \in DOMAIN user_map : user_map[s] \in User
    /\ asked \subseteq DOMAIN user_map

\* The messages in flight that are about a user, and about a channel.
AboutUser(s) ==
    {i \in DOMAIN wire : wire[i].type \in {"USERSTATE", "USERREMOVE"} /\ wire[i].session = s}
AboutChannel(c) ==
    {i \in DOMAIN wire :
        wire[i].type \in {"CHANNELSTATE", "CHANNELREMOVE"} /\ wire[i].channel_id = c}

\* The last message in flight about it, or else what the client has, says
\* whether the server has it now.
UsersTracked ==
    link = "up" =>
        \A s \in Sessions :
            s \in DOMAIN users <=>
                IF AboutUser(s) = {} THEN s \in DOMAIN user_map
                ELSE wire[Max(AboutUser(s))].type = "USERSTATE"

\* The same for channels, and the client never lists a channel twice.
ChannelsTracked ==
    /\ link = "up" =>
        \A c \in Channels :
            c \in DOMAIN channels <=>
                IF AboutChannel(c) = {} THEN ChannelExists(c)
                ELSE wire[Max(AboutChannel(c))].type = "CHANNELSTATE"
    /\ \A i, j \in DOMAIN channel_list :
        channel_list[i].channelId = channel_list[j].channelId => i = j

\* Exactly the users the application has muted are muted: a mute outlives every
\* update of its user, and ends with the user's session and with the client's,
\* so that a session number given out again starts unmuted.
MutesTracked == {s \in DOMAIN user_map : user_map[s].local_mute} = asked

\* A user about whom nothing is in flight has at the client a name it has had since this
\* connection, or its own session, began: no message without a name takes it away, and
\* none of an earlier user of the session number, or of an earlier connection, is left.
NamesKnown ==
    link = "up" =>
        \A s \in DOMAIN users : AboutUser(s) = {} => user_map[s].name \in users[s].had

\* mumble.proto on UserState: "Sent by the server when it communicates new and changed
\* users to client", with their names and "Channel on which the user is."  Once what it
\* has sent about a user is processed, the client has the user's name and its channel.
RecordsTracked ==
    link = "up" =>
        \A s \in DOMAIN users :
            AboutUser(s) = {} =>
                /\ user_map[s].name = users[s].name
                /\ user_map[s].channelId = users[s].channel

\* Once the server state is synchronised, a client about whom nothing is in
\* flight takes itself to be in the channel it is in: that is where TextSend
\* sends its messages.
OwnChannelTracked ==
    link = "up" /\ session_id # 0 /\ AboutUser(own) = {} =>
        channel_current = users[own].channel
=============================================================================
