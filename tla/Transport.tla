----------------------------- MODULE Transport ------------------------------
(***************************************************************************)
(* mumlib2::Transport with the entry points of Mumlib2Private that create, *)
(* connect, run and destroy it.  One event loop runs the completion        *)
(* handlers of the operations that are pending: TCP connect, TLS           *)
(* handshake, control read, datagram receive, datagram send and the ping   *)
(* timer.  A handler runs to its end, to an early return or to an          *)
(* exception, which leaves run() and is what the application sees.         *)
(*                                                                         *)
(* Around it are the server, which follows the login sequence and answers  *)
(* pings until it or the network is gone, and an application that connects *)
(* and runs, sends from its callbacks and from between handlers, and may   *)
(* destroy the transport, connect it again or run it again whenever run()  *)
(* is over.  Time is not measured: the timer may fire at any moment, also  *)
(* twice in a row, as it does after a handler that took long.  Of a        *)
(* message only its kind is kept.                                          *)
(***************************************************************************)
EXTENDS Integers, Sequences

CONSTANTS
    Messages,   \* what the server may send beyond the login and ping replies
    Datagrams,  \* what may come out of the UDP socket
    MaxInbox    \* bound: control messages on their way to the client

ASSUME MessagesAssumption ==
    Messages \subseteq {"CONTROL", "UDPTUNNEL", "NONCE", "UNKNOWN", "UNDECODABLE", "OVERSIZED"}
ASSUME DatagramsAssumption ==
    Datagrams \subseteq {"audio", "repeat", "undecodable", "stray", "error"}
ASSUME InboxAssumption == MaxInbox \in Nat \ {0}

VARIABLES
    transport,  \* the fields of the Transport object
    run,        \* where the application is with it
    peer,       \* the TCP connection as the server and the network see it
    inbox,      \* control messages sent by the server and not yet read
    srv         \* the server's side of the session

vars == <<transport, run, peer, inbox, srv>>
server == <<peer, inbox, srv>>

\* DISCONNECTING is held only inside disconnect().
State == {"NOT_CONNECTED", "IN_PROGRESS", "CONNECTED", "FAILED"}
Operation == {"connect", "handshake", "sslRead", "udpRead", "udpSend", "tick"}
Message == Messages \cup {"CRYPTSETUP", "SERVERSYNC", "PING", "REJECT"}

\* Of these, fellBack and again are history: the timer has announced the
\* fallback to TCP; the application has connected or run an object whose run()
\* was over, where a new object was called for.
Fields ==
    [state : State, ping_state : {"NONE", "PING", "PONG"}, udpActive : BOOLEAN,
     crypt : BOOLEAN, tcp : BOOLEAN, udp : BOOLEAN, stopped : BOOLEAN,
     fellBack : BOOLEAN, again : BOOLEAN, pending : SUBSET Operation]
Session == [stage : {"none", "auth", "crypt", "synced", "rejected"}, pingDue : BOOLEAN]

\* A new object: the constructor has armed the timer.
Fresh ==
    [state |-> "NOT_CONNECTED", ping_state |-> "NONE", udpActive |-> FALSE,
     crypt |-> FALSE, tcp |-> FALSE, udp |-> FALSE, stopped |-> FALSE,
     fellBack |-> FALSE, again |-> FALSE, pending |-> {"tick"}]

\* Mumlib2Private::_transport is null.
Absent == [Fresh EXCEPT !.pending = {}]

NoSession == [stage |-> "none", pingDue |-> FALSE]

Init ==
    /\ transport = Absent
    /\ run = "absent"
    /\ peer = "none"
    /\ inbox = << >>
    /\ srv = NoSession

-----------------------------------------------------------------------------
(***************************************************************************)
(* What handlers do to the object, as functions of it                      *)
(***************************************************************************)

\* Mutants: the reads are not armed again once the key is there; the datagram
\* read is not once one has been heard.
ArmUntilKeyed(c, op) ==
    IF c.crypt /\ op \in {"sslRead", "udpRead"} THEN c
    ELSE [c EXCEPT !.pending = @ \cup {op}]

ArmUntilHeard(c, op) ==
    IF c.udpActive /\ op = "udpRead" THEN c ELSE [c EXCEPT !.pending = @ \cup {op}]

Arm(c, op) == [c EXCEPT !.pending = @ \cup {op}]

\* Mutant: the last assignment is missing.
DisconnectHalfway(c) ==
    [c EXCEPT !.state = "DISCONNECTING", !.stopped = TRUE, !.tcp = FALSE, !.udp = FALSE]

\* The loop is stopped for good: nothing ever restarts ioService.
Disconnect(c) ==
    [c EXCEPT !.state = "NOT_CONNECTED", !.stopped = TRUE, !.tcp = FALSE, !.udp = FALSE]

\* Mutant: a write that fails closes the connection and leaves the state.
SendSslQuiet(c, ok) ==
    IF ok /\ c.tcp THEN c ELSE [c EXCEPT !.stopped = TRUE, !.tcp = FALSE, !.udp = FALSE]

\* A blocking write; ok is what the network makes of it.
SendSsl(c, ok) ==
    IF ok /\ c.tcp THEN c ELSE [Disconnect(c) EXCEPT !.state = "FAILED"]

\* A write fails only on a connection that is closed or broken.
Writes == {ok \in BOOLEAN : ok \/ peer # "up"}

\* A packet of more than 1020 bytes is refused by an exception, and no frame of the
\* encoder, at its constant 48 kbit/s, is ever that long.
SendUdp(c) == Arm(c, "udpSend")

\* What the application may send, from a callback or between two handlers.
\* Both entry points drop it unless the state is CONNECTED.
Reactions == {"nothing", "control", "audio"}
Send(c, what, ok) ==
    IF what = "nothing" \/ c.state # "CONNECTED" THEN c
    ELSE IF what = "audio" /\ c.udpActive THEN SendUdp(c)
    ELSE SendSsl(c, ok)

\* Mutants: the flag is set before it is looked at; it is not looked at.
SendSslPingSwapped(c, ok) == Disconnect([c EXCEPT !.ping_state = "PING"])
SendSslPingPatient(c, ok) == SendSsl([c EXCEPT !.ping_state = "PING"], ok)

SendSslPing(c, ok) ==
    IF c.ping_state = "PING" THEN Disconnect(c)
    ELSE SendSsl([c EXCEPT !.ping_state = "PING"], ok)

-----------------------------------------------------------------------------
(***************************************************************************)
(* The ways a handler ends                                                 *)
(***************************************************************************)

Fires(op) == run = "running" /\ ~transport.stopped /\ op \in transport.pending
Completed(op) == [transport EXCEPT !.pending = @ \ {op}]

Returns(c) == transport' = c /\ run' = "running"

\* Mutant: the exception is caught inside the loop.
ThrowsCaught(c) == transport' = [c EXCEPT !.state = "FAILED"] /\ run' = "running"

\* throwTransportException: the state is FAILED and run() throws.
Throws(c) == transport' = [c EXCEPT !.state = "FAILED"] /\ run' = "TransportException"

\* Any other exception (AudioPacketException, Mumlib2Exception, ...) leaves
\* run() as well, with the state as it was.
Escapes(c) == transport' = c /\ run' = "OtherException"

-----------------------------------------------------------------------------
(***************************************************************************)
(* The application                                                         *)
(***************************************************************************)

\* Mumlib2Private::TransportConnect and Transport::connect up to the point
\* where the TCP connect is pending, or the exception that connect throws.
TransportConnect ==
    /\ run # "running"
    /\ transport.state \notin {"CONNECTED", "IN_PROGRESS"}
    /\ LET c == [(IF run = "absent" THEN Fresh ELSE transport)
                    EXCEPT !.udpActive = FALSE, !.fellBack = FALSE, !.state = "IN_PROGRESS",
                           !.again = run # "absent"]
           open == [c EXCEPT !.udp = TRUE]
           listening == Arm(open, "udpRead")
       IN  \/ \* the host does not resolve, or udpSocket is still open
              /\ transport' = [c EXCEPT !.state = "FAILED"]
              /\ UNCHANGED server
           \/ \* the first datagram is refused
              /\ ~c.udp
              /\ transport' = [open EXCEPT !.state = "FAILED"]
              /\ UNCHANGED server
           \/ \* the second lookup fails
              /\ ~c.udp
              /\ transport' = [listening EXCEPT !.state = "FAILED"]
              /\ UNCHANGED server
           \/ /\ ~c.udp
              /\ transport' = Arm(listening, "connect")
              /\ peer' = "none"
              /\ inbox' = << >>
              /\ srv' = NoSession
    /\ run' = "idle"

TransportRun ==
    /\ run \notin {"absent", "running"}
    /\ transport' = [transport EXCEPT !.again = @ \/ run # "idle" \/ transport.state = "FAILED"]
    /\ run' = "running"
    /\ UNCHANGED server

\* ioService.run() returns once the loop has been stopped.
RunReturns ==
    /\ run = "running"
    /\ transport.stopped
    /\ run' = "returned"
    /\ UNCHANGED <<transport, server>>

\* Mumlib2Private::TransportDisconnect, outside run(): the object is destroyed.
TransportDisconnect ==
    /\ run \notin {"absent", "running"}
    /\ transport' = Absent
    /\ run' = "absent"
    /\ peer' = "none"
    /\ inbox' = << >>
    /\ srv' = NoSession

\* sendControlMessage or sendEncodedAudioPacket between two handlers.
AppSend ==
    /\ run = "running"
    /\ ~transport.stopped
    /\ \E what \in Reactions, ok \in Writes : Returns(Send(transport, what, ok))
    /\ UNCHANGED server

-----------------------------------------------------------------------------
(***************************************************************************)
(* The handlers                                                            *)
(***************************************************************************)

SslConnectHandler ==
    /\ Fires("connect")
    /\ \/ /\ Returns(Arm([Completed("connect") EXCEPT !.tcp = TRUE], "handshake"))
          /\ peer' = "up"
       \/ /\ Returns(Disconnect(Completed("connect")))
          /\ UNCHANGED peer
    /\ UNCHANGED <<inbox, srv>>

SslHandshakeHandler ==
    /\ Fires("handshake")
    /\ \/ \E ok \in Writes :
            /\ Returns(SendSsl(Arm(Completed("handshake"), "sslRead"), ok))
            /\ srv' = [srv EXCEPT !.stage = IF peer = "up" THEN "auth" ELSE @]
       \/ /\ Throws(Completed("handshake"))
          /\ UNCHANGED srv
    /\ UNCHANGED <<peer, inbox>>

\* processMessageInternal for the first message, and the read that follows it.
ReceiveSsl ==
    /\ Fires("sslRead")
    /\ inbox # << >>
    /\ inbox' = Tail(inbox)
    /\ LET c == Completed("sslRead")
           m == Head(inbox)
           Continue(d) == Returns(Arm(d, "sslRead"))
       IN  \/ /\ m = "PING"
              /\ Continue([c EXCEPT !.ping_state = "PONG"])
           \/ /\ m = "CRYPTSETUP"
              /\ Continue(SendUdp([c EXCEPT !.crypt = TRUE]))
           \/ /\ m = "SERVERSYNC"
              /\ \E what \in Reactions, ok \in Writes :
                    Continue(Send([c EXCEPT !.state = "CONNECTED"], what, ok))
           \/ /\ m \in {"CONTROL", "UDPTUNNEL"}
              /\ \E what \in Reactions, ok \in Writes : Continue(Send(c, what, ok))
           \/ \* a refused login, a CryptSetup without all three parts, a
              \* message longer than the buffer
              /\ m \in {"REJECT", "NONCE", "OVERSIZED"}
              /\ Throws(c)
           \/ /\ m \in {"UNKNOWN", "UNDECODABLE"}
              /\ Escapes(c)
    /\ UNCHANGED <<peer, srv>>

\* A piece of the read fails.  The completion condition does not look at the error: it
\* asks for the same bytes again, and the read stays pending.
ReceiveSslError ==
    /\ Fires("sslRead")
    /\ peer = "gone"
    /\ inbox = << >>
    /\ Returns(transport)
    /\ UNCHANGED server

\* A datagram of the session: the first makes UDP the way voice is sent.
ReceiveUdp ==
    /\ Fires("udpRead")
    /\ LET c == Completed("udpRead")
           heard == [c EXCEPT !.udpActive = TRUE, !.fellBack = FALSE]
       IN  \/ /\ "error" \in Datagrams
              /\ Throws(c)
           \/ /\ "stray" \in Datagrams
              /\ ~c.crypt
              /\ Throws(c)
           \/ /\ c.crypt
              /\ {"repeat", "stray"} \cap Datagrams # {}
              /\ Throws(heard)
           \/ /\ c.crypt
              /\ "undecodable" \in Datagrams
              /\ Escapes(heard)
           \/ /\ c.crypt
              /\ "audio" \in Datagrams
              /\ \E what \in Reactions, ok \in Writes :
                    Returns(Arm(Send(heard, what, ok), "udpRead"))
    /\ UNCHANGED server

UdpSent ==
    /\ Fires("udpSend")
    /\ \/ Returns(Completed("udpSend"))
       \/ "error" \in Datagrams /\ Throws(Completed("udpSend"))
    /\ UNCHANGED server

\* Mutant: pings start before the session does.
DueEarly(c) == c.state # "NOT_CONNECTED"

\* Pings are sent while the state is CONNECTED.
Due(c) == c.state = "CONNECTED"

\* The timer fires with a ping due.  The silence it measures on UDP
\* is only written to the log.
Ping(c, ok, silent) ==
    [SendUdp(SendSslPing(c, ok)) EXCEPT !.fellBack = @ \/ (c.udpActive /\ silent)]

PingTimerTick ==
    /\ Fires("tick")
    /\ \E ok \in Writes, silent \in BOOLEAN :
          LET c == Completed("tick")
              d == IF Due(c) THEN Ping(c, ok, silent) ELSE c
              e == IF d.state = "NOT_CONNECTED" /\ d.ping_state = "PING"
                   THEN Disconnect(d) ELSE d
          IN  /\ Returns(Arm(e, "tick"))
              /\ srv' = [srv EXCEPT !.pingDue =
                            @ \/ (peer = "up" /\ Due(c) /\ ~d.stopped)]
    /\ UNCHANGED <<peer, inbox>>

-----------------------------------------------------------------------------
(***************************************************************************)
(* The server and the network                                              *)
(***************************************************************************)

Deliver(m) ==
    /\ peer = "up"
    /\ Len(inbox) < MaxInbox
    /\ inbox' = Append(inbox, m)
    /\ UNCHANGED <<transport, run, peer>>

\* Key material, or the refusal, answers Authenticate.
ServerAuthenticates ==
    /\ srv.stage = "auth"
    /\ \/ Deliver("CRYPTSETUP") /\ srv' = [srv EXCEPT !.stage = "crypt"]
       \/ Deliver("REJECT") /\ srv' = [srv EXCEPT !.stage = "rejected"]

ServerSyncs ==
    /\ srv.stage = "crypt"
    /\ Deliver("SERVERSYNC")
    /\ srv' = [srv EXCEPT !.stage = "synced"]

ServerAnswersPing ==
    /\ srv.pingDue
    /\ Deliver("PING")
    /\ srv' = [srv EXCEPT !.pingDue = FALSE]

ServerSends ==
    /\ srv.stage \in {"crypt", "synced"}
    /\ \E m \in Messages : Deliver(m)
    /\ UNCHANGED srv

\* The server or the path to it is lost; what was sent before may still be read.
PeerDies ==
    /\ peer = "up"
    /\ peer' = "gone"
    /\ UNCHANGED <<transport, run, inbox, srv>>

-----------------------------------------------------------------------------
Application == TransportConnect \/ TransportRun \/ TransportDisconnect \/ AppSend

Handlers ==
    \/ SslConnectHandler
    \/ SslHandshakeHandler
    \/ ReceiveSsl
    \/ ReceiveSslError
    \/ ReceiveUdp
    \/ UdpSent
    \/ PingTimerTick

Server ==
    \/ ServerAuthenticates
    \/ ServerSyncs
    \/ ServerAnswersPing
    \/ ServerSends
    \/ PeerDies

Next == Application \/ RunReturns \/ Handlers \/ Server

Spec == Init /\ [][Next]_vars

\* The loop runs what is ready and the timer keeps firing; TCP connect ends one
\* way or the other.  The handshake and the reads end for sure only while the
\* server is there, and a live server works through the login and answers pings
\* whenever the connection keeps taking its messages.
Fairness ==
    /\ WF_vars(RunReturns)
    /\ WF_vars(SslConnectHandler)
    /\ WF_vars(peer = "up" /\ SslHandshakeHandler)
    /\ WF_vars(ReceiveSsl)
    /\ WF_vars(PingTimerTick)
    /\ SF_vars(ServerAuthenticates)
    /\ SF_vars(ServerSyncs)
    /\ SF_vars(ServerAnswersPing)

FairSpec == Spec /\ Fairness

-----------------------------------------------------------------------------
(***************************************************************************)
(* Properties                                                              *)
(***************************************************************************)

\* Every variable has its type.
TypeOK ==
    /\ transport \in Fields
    /\ run \in {"absent", "idle", "running", "returned", "TransportException", "OtherException"}
    /\ peer \in {"none", "up", "gone"}
    /\ inbox \in Seq(Message)
    /\ Len(inbox) <= MaxInbox
    /\ srv \in Session

\* Nothing is encrypted before the server's key is installed: sendUdpAsync
\* does not look at isValid, so it is up to the order of the messages that
\* the timer, a callback or the application never gets there too early.
KeyedVoice == "udpSend" \in transport.pending => transport.crypt

\* While the application sits in run() on a session that is not over, both
\* reads are armed: every path through a handler that does not end the loop
\* has come back to doReceiveSsl and doReceiveUdp.
Listening ==
    run = "running" /\ transport.state = "CONNECTED" /\ ~transport.again =>
        {"sslRead", "udpRead"} \subseteq transport.pending \/ transport.stopped

\* run() never stays inside a session that has failed or been closed: the
\* loop has then been stopped and only has to return.
DownMeansOver ==
    run = "running" /\ transport.state \in {"NOT_CONNECTED", "FAILED"} /\ ~transport.again =>
        transport.stopped

\* When run() is over, by returning or by a TransportException, the state lets
\* the application connect again.
RunEndsDown ==
    run \in {"returned", "TransportException"} /\ ~transport.again =>
        transport.state \in {"NOT_CONNECTED", "FAILED"}

\* A client that is CONNECTED has a live loop, an open TCP connection and a
\* server that has let it in, also when the application has connected or run a
\* used object.
ConnectedIsLive ==
    transport.state = "CONNECTED" =>
        /\ ~transport.stopped
        /\ transport.tcp /\ transport.udp
        /\ peer # "none"
        /\ srv.stage = "synced"

\* CONNECTED is reached only from a login in progress: a late ServerSync
\* never brings a session back that has failed or been closed.
ConnectedOnlyFromLogin ==
    [][transport'.state = "CONNECTED" /\ ~transport'.again =>
          transport.state \in {"IN_PROGRESS", "CONNECTED"}]_vars

\* The reply to the last ping is outstanding, or has come and waits to be read.
PingUnanswered == srv.pingDue \/ \E i \in DOMAIN inbox : inbox[i] = "PING"

\* The timer closes a session only when the server has gone or has not had its
\* reply read since the last tick: no path forgets to note a reply, and none
\* leaves an unanswered ping behind from an earlier session.
TimeoutOnlyWhenLost ==
    [][run = "running" /\ transport.state = "CONNECTED" /\ transport'.state = "NOT_CONNECTED"
          => peer = "gone" \/ PingUnanswered]_vars

\* A session that has lost its server, or that no longer reads because an
\* exception kept its read from being armed again, is noticed by the timer: it
\* does not stay CONNECTED for ever, although a failed read is only tried again.
LossDetected ==
    (/\ run = "running"
     /\ transport.state = "CONNECTED"
     /\ peer = "gone" \/ "sslRead" \notin transport.pending)
        ~> transport.state # "CONNECTED" \/ run # "running"

\* A login with a server that stays there does not hang: it ends in a session
\* or in an error.
LoginCompletes ==
    run = "running" /\ transport.state = "IN_PROGRESS" /\ ~transport.again
        ~> \/ transport.state # "IN_PROGRESS"
           \/ run # "running"
           \/ peer = "gone"

\* After the timer has noted that it is falling back to TCP, voice no longer
\* goes by UDP until a datagram is heard again.
FallsBackToTcp == transport.fellBack => ~transport.udpActive
=============================================================================
