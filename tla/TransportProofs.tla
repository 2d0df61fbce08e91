-------------------------- MODULE TransportProofs ---------------------------
(***************************************************************************)
(* Properties of Transport for every bound on the messages in flight,      *)
(* every selection of messages and datagrams, and, where it is said,       *)
(* every way the application uses the object.                              *)
(***************************************************************************)
EXTENDS Transport, TLAPS

-----------------------------------------------------------------------------
(***************************************************************************)
(* The helpers keep the type of the object.                                *)
(***************************************************************************)

LEMMA FreshType == Fresh \in Fields /\ Absent \in Fields /\ NoSession \in Session
BY DEF Fresh, Absent, Fields, NoSession, Session, State, Operation

LEMMA ArmType ==
    ASSUME NEW c \in Fields, NEW op \in Operation
    PROVE  Arm(c, op) \in Fields
BY DEF Arm, Fields

LEMMA DisconnectType == ASSUME NEW c \in Fields PROVE Disconnect(c) \in Fields
BY DEF Disconnect, Fields, State

LEMMA SendSslType ==
    ASSUME NEW c \in Fields, NEW ok \in BOOLEAN
    PROVE  SendSsl(c, ok) \in Fields
<1>1. [Disconnect(c) EXCEPT !.state = "FAILED"] \in Fields
  BY DisconnectType DEF Fields, State
<1> QED BY <1>1 DEF SendSsl

LEMMA SendType ==
    ASSUME NEW c \in Fields, NEW what \in Reactions, NEW ok \in BOOLEAN
    PROVE  Send(c, what, ok) \in Fields
<1>1. SendUdp(c) \in Fields
  BY ArmType DEF SendUdp, Operation
<1> QED BY <1>1, SendSslType DEF Send

LEMMA CompletedType ==
    ASSUME transport \in Fields, NEW op \in Operation
    PROVE  Completed(op) \in Fields
BY DEF Completed, Fields

LEMMA PingType ==
    ASSUME NEW c \in Fields, NEW ok \in BOOLEAN, NEW silent \in BOOLEAN
    PROVE  Ping(c, ok, silent) \in Fields
<1>1. [c EXCEPT !.ping_state = "PING"] \in Fields
  BY DEF Fields
<1>2. SendSslPing(c, ok) \in Fields
  BY <1>1, DisconnectType, SendSslType DEF SendSslPing
<1>3. SendUdp(SendSslPing(c, ok)) \in Fields
  BY <1>2, ArmType DEF SendUdp, Operation
<1>4. c.udpActive \in BOOLEAN
  BY DEF Fields
<1> DEFINE d == SendUdp(SendSslPing(c, ok))
<1>5. (d.fellBack \/ (c.udpActive /\ silent)) \in BOOLEAN
  OBVIOUS
<1>6. [d EXCEPT !.fellBack = @ \/ (c.udpActive /\ silent)] \in Fields
  <2> HIDE DEF d
  <2> QED BY <1>3, <1>5 DEF Fields, d
<1> QED BY <1>6 DEF Ping

LEMMA WritesType == Writes \subseteq BOOLEAN
BY DEF Writes

LEMMA NoMessage == << >> \in Seq(Message) /\ Len(<< >>) <= MaxInbox
<1>1. Len(<< >>) = 0 /\ << >> \in Seq(Message)
  OBVIOUS
<1> QED BY <1>1, InboxAssumption

-----------------------------------------------------------------------------
(***************************************************************************)
(* Type correctness, for every application                                 *)
(***************************************************************************)

\* The three ways a handler can end leave a well-typed object and a known
\* place of the application.
EndsWell ==
    /\ transport' \in Fields
    /\ run' \in {"running", "TransportException", "OtherException"}

LEMMA ReturnsType == ASSUME NEW c \in Fields, Returns(c) PROVE EndsWell
BY DEF Returns, EndsWell

LEMMA ThrowsType == ASSUME NEW c \in Fields, Throws(c) PROVE EndsWell
BY DEF Throws, EndsWell, Fields, State

LEMMA EscapesType == ASSUME NEW c \in Fields, Escapes(c) PROVE EndsWell
BY DEF Escapes, EndsWell

LEMMA TransportConnectType == ASSUME TypeOK, TransportConnect PROVE TypeOK'
<1> DEFINE c == [(IF run = "absent" THEN Fresh ELSE transport)
                    EXCEPT !.udpActive = FALSE, !.fellBack = FALSE, !.state = "IN_PROGRESS",
                           !.again = run # "absent"]
           u == [c EXCEPT !.udp = TRUE]
           listening == Arm(u, "udpRead")
<1>1. c \in Fields
  <2>1. (IF run = "absent" THEN Fresh ELSE transport) \in Fields
    BY FreshType DEF TypeOK
  <2> QED BY <2>1, ZenonT(30) DEF Fields, State
<1>2. u \in Fields
  <2> HIDE DEF c
  <2> QED BY <1>1 DEF Fields
<1>3. listening \in Fields
  <2> HIDE DEF u
  <2> QED BY <1>2, ArmType DEF Operation
<1>4. /\ [c EXCEPT !.state = "FAILED"] \in Fields
      /\ [u EXCEPT !.state = "FAILED"] \in Fields
      /\ [listening EXCEPT !.state = "FAILED"] \in Fields
      /\ Arm(listening, "connect") \in Fields
  <2> HIDE DEF c, u, listening
  <2> QED BY <1>1, <1>3, <1>2, ArmType DEF Fields, State, Operation
<1>5. transport' \in Fields
  BY <1>4 DEF TransportConnect
<1>6. UNCHANGED server \/ (peer' = "none" /\ inbox' = << >> /\ srv' = NoSession)
  BY DEF TransportConnect
<1>7. /\ peer' \in {"none", "up", "gone"} /\ inbox' \in Seq(Message)
      /\ Len(inbox') <= MaxInbox /\ srv' \in Session
  BY <1>6, FreshType, NoMessage DEF server, TypeOK
<1> QED BY <1>5, <1>7 DEF TransportConnect, TypeOK

LEMMA AppSendType == ASSUME TypeOK, AppSend PROVE TypeOK'
<1>1. PICK what \in Reactions, ok \in Writes : Returns(Send(transport, what, ok))
  BY DEF AppSend
<1>2. EndsWell
  BY <1>1, SendType, WritesType, ReturnsType DEF TypeOK
<1> QED BY <1>2 DEF EndsWell, AppSend, server, TypeOK

LEMMA OtherAppType ==
    ASSUME TypeOK, TransportRun \/ RunReturns \/ TransportDisconnect
    PROVE  TypeOK'
<1>1. CASE TransportRun
  <2>1. transport' \in Fields
    <3> DEFINE b == transport.again \/ run # "idle" \/ transport.state = "FAILED"
    <3>1. b \in BOOLEAN /\ transport \in Fields
      BY DEF TypeOK, Fields
    <3>2. transport' = [transport EXCEPT !.again = b]
      BY <1>1 DEF TransportRun
    <3> HIDE DEF b
    <3> QED BY <3>1, <3>2 DEF Fields
  <2> QED BY <1>1, <2>1 DEF TransportRun, server, TypeOK
<1>2. CASE RunReturns
  BY <1>2 DEF RunReturns, server, TypeOK
<1>3. CASE TransportDisconnect
  BY <1>3, FreshType, NoMessage DEF TransportDisconnect, TypeOK
<1> QED BY <1>1, <1>2, <1>3

LEMMA SslConnectHandlerType == ASSUME TypeOK, SslConnectHandler PROVE TypeOK'
<1>1. Completed("connect") \in Fields
  BY CompletedType DEF TypeOK, Operation
<1>2. /\ Arm([Completed("connect") EXCEPT !.tcp = TRUE], "handshake") \in Fields
      /\ Disconnect(Completed("connect")) \in Fields
  <2>1. [Completed("connect") EXCEPT !.tcp = TRUE] \in Fields
    BY <1>1 DEF Fields
  <2> QED BY <1>1, <2>1, ArmType, DisconnectType DEF Operation
<1>3. EndsWell
  BY <1>2, ReturnsType DEF SslConnectHandler
<1> QED BY <1>3 DEF EndsWell, SslConnectHandler, TypeOK

LEMMA SslHandshakeHandlerType == ASSUME TypeOK, SslHandshakeHandler PROVE TypeOK'
<1>1. Completed("handshake") \in Fields
  BY CompletedType DEF TypeOK, Operation
<1>2. Arm(Completed("handshake"), "sslRead") \in Fields
  BY <1>1, ArmType DEF Operation
<1>3. EndsWell
  BY <1>1, <1>2, SendSslType, WritesType, ReturnsType, ThrowsType DEF SslHandshakeHandler
<1>4. srv' \in Session
  BY DEF SslHandshakeHandler, TypeOK, Session
<1> QED BY <1>3, <1>4 DEF EndsWell, SslHandshakeHandler, TypeOK

LEMMA ReceiveSslType == ASSUME TypeOK, ReceiveSsl PROVE TypeOK'
<1> DEFINE c == Completed("sslRead")
           m == Head(inbox)
<1>1. c \in Fields
  BY CompletedType DEF TypeOK, Operation
<1>2. /\ [c EXCEPT !.ping_state = "PONG"] \in Fields
      /\ [c EXCEPT !.crypt = TRUE] \in Fields
      /\ [c EXCEPT !.state = "CONNECTED"] \in Fields
  <2> HIDE DEF c
  <2> QED BY <1>1 DEF Fields, State
<1>3. ASSUME NEW d \in Fields, Returns(Arm(d, "sslRead")) PROVE EndsWell
  BY <1>3, ArmType, ReturnsType DEF Operation
<1>4. EndsWell
  <2>1. CASE m = "PING"
    BY <2>1, <1>2, <1>3 DEF ReceiveSsl
  <2>2. CASE m = "CRYPTSETUP"
    <3>1. SendUdp([c EXCEPT !.crypt = TRUE]) \in Fields
      BY <1>2, ArmType DEF SendUdp, Operation
    <3> QED BY <2>2, <3>1, <1>3 DEF ReceiveSsl
  <2>3. CASE m = "SERVERSYNC"
    <3>1. PICK what \in Reactions, ok \in Writes :
            Returns(Arm(Send([c EXCEPT !.state = "CONNECTED"], what, ok), "sslRead"))
      BY <2>3 DEF ReceiveSsl
    <3> QED BY <3>1, <1>2, <1>3, SendType, WritesType
  <2>4. CASE m \in {"CONTROL", "UDPTUNNEL"}
    <3>1. PICK what \in Reactions, ok \in Writes :
            Returns(Arm(Send(c, what, ok), "sslRead"))
      BY <2>4 DEF ReceiveSsl
    <3> QED BY <3>1, <1>1, <1>3, SendType, WritesType
  <2>5. CASE m \in {"REJECT", "NONCE", "OVERSIZED"}
    BY <2>5, <1>1, ThrowsType DEF ReceiveSsl
  <2>6. CASE m \in {"UNKNOWN", "UNDECODABLE"}
    BY <2>6, <1>1, EscapesType DEF ReceiveSsl
  <2> QED BY <2>1, <2>2, <2>3, <2>4, <2>5, <2>6 DEF ReceiveSsl
<1>5. inbox' \in Seq(Message) /\ Len(inbox') <= MaxInbox
  BY InboxAssumption DEF ReceiveSsl, TypeOK
<1> QED BY <1>4, <1>5 DEF EndsWell, ReceiveSsl, TypeOK

LEMMA ReceiveSslErrorType == ASSUME TypeOK, ReceiveSslError PROVE TypeOK'
<1>1. EndsWell
  BY ReturnsType DEF ReceiveSslError, TypeOK
<1> QED BY <1>1 DEF EndsWell, ReceiveSslError, server, TypeOK

LEMMA ReceiveUdpType == ASSUME TypeOK, ReceiveUdp PROVE TypeOK'
<1> DEFINE c == Completed("udpRead")
           heard == [c EXCEPT !.udpActive = TRUE, !.fellBack = FALSE]
<1>1. c \in Fields
  BY CompletedType DEF TypeOK, Operation
<1>2. heard \in Fields
  <2> HIDE DEF c
  <2> QED BY <1>1 DEF Fields
<1>3. EndsWell
  <2>1. CASE Throws(c) \/ Throws(heard) \/ Escapes(heard)
    BY <2>1, <1>1, <1>2, ThrowsType, EscapesType
  <2>2. CASE \E what \in Reactions, ok \in Writes :
                Returns(Arm(Send(heard, what, ok), "udpRead"))
    BY <2>2, <1>2, SendType, WritesType, ArmType, ReturnsType DEF Operation
  <2> QED BY <2>1, <2>2 DEF ReceiveUdp
<1> QED BY <1>3 DEF EndsWell, ReceiveUdp, server, TypeOK

LEMMA UdpSentType == ASSUME TypeOK, UdpSent PROVE TypeOK'
<1>1. EndsWell
  BY CompletedType, ReturnsType, ThrowsType DEF UdpSent, TypeOK, Operation
<1> QED BY <1>1 DEF EndsWell, UdpSent, server, TypeOK

LEMMA PingTimerTickType == ASSUME TypeOK, PingTimerTick PROVE TypeOK'
<1> DEFINE c == Completed("tick")
           d(ok, silent) == IF c.state = "CONNECTED" THEN Ping(c, ok, silent) ELSE c
           e(ok, silent) ==
                IF d(ok, silent).state = "NOT_CONNECTED" /\ d(ok, silent).ping_state = "PING"
                THEN Disconnect(d(ok, silent)) ELSE d(ok, silent)
<1>1. c \in Fields
  BY CompletedType DEF TypeOK, Operation
<1>2. PICK ok \in Writes, silent \in BOOLEAN :
        /\ Returns(Arm(e(ok, silent), "tick"))
        /\ srv' = [srv EXCEPT !.pingDue =
              @ \/ (peer = "up" /\ c.state = "CONNECTED" /\ ~d(ok, silent).stopped)]
  BY DEF PingTimerTick, Due
<1>3. d(ok, silent) \in Fields
  <2> HIDE DEF c
  <2> QED BY <1>1, PingType, WritesType
<1>4. e(ok, silent) \in Fields
  BY <1>3, DisconnectType
<1>5. EndsWell
  <2> HIDE DEF e
  <2> QED BY <1>2, <1>4, ArmType, ReturnsType DEF Operation
<1>6. srv' \in Session
  <2> DEFINE due == srv.pingDue \/ (peer = "up" /\ c.state = "CONNECTED" /\ ~d(ok, silent).stopped)
  <2>1. due \in BOOLEAN
    BY DEF TypeOK, Session
  <2> HIDE DEF c, d
  <2>2. srv' = [srv EXCEPT !.pingDue = due]
    BY <1>2
  <2> QED BY <2>1, <2>2 DEF TypeOK, Session
<1> QED BY <1>5, <1>6 DEF EndsWell, PingTimerTick, TypeOK

LEMMA ServerType == ASSUME TypeOK, Server PROVE TypeOK'
<1>1. ASSUME NEW m \in Message, Deliver(m)
      PROVE  /\ transport' \in Fields /\ inbox' \in Seq(Message) /\ Len(inbox') <= MaxInbox
             /\ run' = run /\ peer' = peer
  BY <1>1, InboxAssumption DEF Deliver, TypeOK
<1>2. CASE ServerAuthenticates
  BY <1>1, <1>2 DEF ServerAuthenticates, Message, TypeOK, Session
<1>3. CASE ServerSyncs
  BY <1>1, <1>3 DEF ServerSyncs, Message, TypeOK, Session
<1>4. CASE ServerAnswersPing
  BY <1>1, <1>4 DEF ServerAnswersPing, Message, TypeOK, Session
<1>5. CASE ServerSends
  BY <1>1, <1>5 DEF ServerSends, Message, TypeOK
<1>6. CASE PeerDies
  BY <1>6 DEF PeerDies, TypeOK
<1> QED BY <1>2, <1>3, <1>4, <1>5, <1>6 DEF Server

LEMMA StepType == TypeOK /\ [Next]_vars => TypeOK'
<1> SUFFICES ASSUME TypeOK, [Next]_vars PROVE TypeOK'
  OBVIOUS
<1>1. CASE Application
  BY <1>1, TransportConnectType, OtherAppType, AppSendType DEF Application
<1>2. CASE RunReturns
  BY <1>2, OtherAppType
<1>3. CASE Handlers
  BY <1>3, SslConnectHandlerType, SslHandshakeHandlerType, ReceiveSslType, ReceiveSslErrorType,
     ReceiveUdpType, UdpSentType, PingTimerTickType DEF Handlers
<1>4. CASE Server
  BY <1>4, ServerType
<1>5. CASE UNCHANGED vars
  BY <1>5 DEF vars, TypeOK
<1> QED BY <1>1, <1>2, <1>3, <1>4, <1>5 DEF Next

\* Every variable keeps its type, whatever the application does.
THEOREM TypeCorrect == Spec => []TypeOK
<1>1. Init => TypeOK
  BY FreshType, InboxAssumption DEF Init, TypeOK
<1>2. TypeOK /\ [Next]_vars => TypeOK'
  BY StepType
<1> QED BY <1>1, <1>2, PTL DEF Spec

-----------------------------------------------------------------------------
(***************************************************************************)
(* How the object can change inside a handler, apart from its fields       *)
(* ping_state, udpActive, tcp, udp and fellBack.                           *)
(***************************************************************************)

Evolves(c, d) ==
    /\ d.crypt = c.crypt
    /\ c.pending \subseteq d.pending
    /\ "udpSend" \in d.pending => "udpSend" \in c.pending \/ c.state = "CONNECTED"
    /\ \/ d.state = c.state /\ d.stopped = c.stopped
       \/ d.state \in {"NOT_CONNECTED", "FAILED"} /\ d.stopped

LEMMA DisconnectEvolves == ASSUME NEW c \in Fields PROVE Evolves(c, Disconnect(c))
BY DEF Disconnect, Evolves, Fields

LEMMA SendSslEvolves ==
    ASSUME NEW c \in Fields, NEW ok \in BOOLEAN PROVE Evolves(c, SendSsl(c, ok))
BY DEF SendSsl, Disconnect, Evolves, Fields

LEMMA SendEvolves ==
    ASSUME NEW c \in Fields, NEW what \in Reactions, NEW ok \in BOOLEAN
    PROVE  Evolves(c, Send(c, what, ok))
<1>1. CASE what = "nothing" \/ c.state # "CONNECTED"
  BY <1>1 DEF Send, Evolves
<1>2. CASE ~(what = "nothing" \/ c.state # "CONNECTED") /\ what = "audio" /\ c.udpActive
  BY <1>2 DEF Send, SendUdp, Arm, Evolves, Fields
<1>3. CASE ~(what = "nothing" \/ c.state # "CONNECTED") /\ ~(what = "audio" /\ c.udpActive)
  BY <1>3, SendSslEvolves DEF Send
<1> QED BY <1>1, <1>2, <1>3

LEMMA PingEvolves ==
    ASSUME NEW c \in Fields, NEW ok \in BOOLEAN, NEW silent \in BOOLEAN, c.state = "CONNECTED"
    PROVE  Evolves(c, Ping(c, ok, silent))
<1> DEFINE p == [c EXCEPT !.ping_state = "PING"]
           d == SendSslPing(c, ok)
<1>1. p \in Fields /\ p.crypt = c.crypt /\ p.pending = c.pending
      /\ p.state = c.state /\ p.stopped = c.stopped
  BY DEF Fields
<1>2. d \in Fields
  BY <1>1, DisconnectType, SendSslType DEF SendSslPing
<1>3. Evolves(c, d)
  <2>1. CASE c.ping_state = "PING"
    BY <2>1, DisconnectEvolves DEF SendSslPing
  <2>2. CASE c.ping_state # "PING"
    <3> HIDE DEF p
    <3>1. Evolves(p, SendSsl(p, ok)) /\ d = SendSsl(p, ok)
      BY <1>1, <2>2, SendSslEvolves DEF SendSslPing, p
    <3> QED BY <3>1, <1>1 DEF Evolves
  <2> QED BY <2>1, <2>2
<1>4. Evolves(c, SendUdp(d))
  <2> HIDE DEF d
  <2> QED BY <1>2, <1>3 DEF SendUdp, Arm, Evolves, Fields
<1>5. SendUdp(d) \in Fields
  BY <1>2, ArmType DEF SendUdp, Operation
<1> DEFINE u == SendUdp(d)
<1>6. /\ Ping(c, ok, silent).crypt = u.crypt /\ Ping(c, ok, silent).pending = u.pending
      /\ Ping(c, ok, silent).state = u.state /\ Ping(c, ok, silent).stopped = u.stopped
  <2>1. Ping(c, ok, silent) = [u EXCEPT !.fellBack = @ \/ (c.udpActive /\ silent)]
    BY DEF Ping
  <2> HIDE DEF u
  <2> QED BY <2>1, <1>5 DEF Fields, u
<1> QED BY <1>4, <1>6 DEF Evolves

\* The whole effect of a tick on the object.
LEMMA TickEvolves ==
    ASSUME TypeOK, PingTimerTick
    PROVE  \E e \in Fields : Evolves(Completed("tick"), e) /\ Returns(Arm(e, "tick"))
<1> DEFINE c == Completed("tick")
           d(ok, silent) == IF c.state = "CONNECTED" THEN Ping(c, ok, silent) ELSE c
           e(ok, silent) ==
                IF d(ok, silent).state = "NOT_CONNECTED" /\ d(ok, silent).ping_state = "PING"
                THEN Disconnect(d(ok, silent)) ELSE d(ok, silent)
<1>1. c \in Fields
  BY CompletedType DEF TypeOK, Operation
<1>2. PICK ok \in Writes, silent \in BOOLEAN : Returns(Arm(e(ok, silent), "tick"))
  BY DEF PingTimerTick, Due
<1>3. d(ok, silent) \in Fields /\ Evolves(c, d(ok, silent))
  <2> HIDE DEF c
  <2>1. CASE c.state = "CONNECTED"
    BY <2>1, <1>1, PingType, PingEvolves, WritesType
  <2>2. CASE c.state # "CONNECTED"
    BY <2>2, <1>1 DEF Evolves
  <2> QED BY <2>1, <2>2
<1>4. e(ok, silent) \in Fields /\ Evolves(c, e(ok, silent))
  <2> HIDE DEF d
  <2>1. Evolves(d(ok, silent), Disconnect(d(ok, silent)))
    BY <1>3, DisconnectEvolves
  <2>2. Evolves(c, Disconnect(d(ok, silent)))
    <3>1. Disconnect(d(ok, silent)).state = "NOT_CONNECTED" /\ Disconnect(d(ok, silent)).stopped
      BY <1>3 DEF Disconnect, Fields
    <3> HIDE DEF c
    <3> QED BY <2>1, <3>1, <1>3 DEF Evolves
  <2> QED BY <2>2, <1>3, DisconnectType
<1> QED BY <1>2, <1>4

-----------------------------------------------------------------------------
(***************************************************************************)
(* No encryption without a key, for every application.  The invariant      *)
(* follows the key material through the connection: whatever lets the      *)
(* state become CONNECTED has the CryptSetup before it.                    *)
(***************************************************************************)

Sound(c) ==
    /\ c.state = "CONNECTED" => c.crypt
    /\ "udpSend" \in c.pending => c.crypt

SyncAfterKey ==
    \A i \in DOMAIN inbox :
        inbox[i] = "SERVERSYNC" =>
            \/ transport.crypt
            \/ \E j \in DOMAIN inbox : j < i /\ inbox[j] = "CRYPTSETUP"

KeyUnderWay ==
    srv.stage \in {"crypt", "synced"} =>
        \/ transport.crypt
        \/ \E j \in DOMAIN inbox : inbox[j] = "CRYPTSETUP"

AbsentIsSilent ==
    run = "absent" => inbox = << >> /\ srv = NoSession /\ peer = "none"

KeyInv ==
    /\ TypeOK
    /\ Sound(transport)
    /\ SyncAfterKey
    /\ KeyUnderWay
    /\ AbsentIsSilent

LEMMA EvolvesSound ==
    ASSUME NEW c, NEW d, Sound(c), Evolves(c, d)
    PROVE  Sound(d) /\ d.crypt = c.crypt
BY DEF Sound, Evolves

LEMMA ArmSound ==
    ASSUME NEW c \in Fields, Sound(c), NEW op \in Operation, op # "udpSend"
    PROVE  Sound(Arm(c, op)) /\ Arm(c, op).crypt = c.crypt
BY DEF Sound, Arm, Fields

LEMMA CompletedSound ==
    ASSUME transport \in Fields, Sound(transport), NEW op \in Operation
    PROVE  Sound(Completed(op)) /\ Completed(op).crypt = transport.crypt
BY DEF Sound, Completed, Fields

\* A step that reads no message and does not lose the key keeps the rest.
LEMMA SilentKey ==
    ASSUME KeyInv, TypeOK', Sound(transport'), transport'.crypt = transport.crypt,
           inbox' = inbox,
           srv'.stage = srv.stage \/ srv'.stage = "auth",
           run # "absent", run' # "absent"
    PROVE  KeyInv'
<1>1. SyncAfterKey'
  BY DEF KeyInv, SyncAfterKey
<1>2. KeyUnderWay'
  BY DEF KeyInv, KeyUnderWay
<1>3. AbsentIsSilent'
  BY DEF AbsentIsSilent
<1> QED BY <1>1, <1>2, <1>3 DEF KeyInv

LEMMA EndsPresent ==
    ASSUME NEW c, Returns(c) \/ Throws(c) \/ Escapes(c)
    PROVE  run' # "absent"
BY DEF Returns, Throws, Escapes

LEMMA ThrowsSound ==
    ASSUME NEW c \in Fields, Sound(c), Throws(c)
    PROVE  Sound(transport') /\ transport'.crypt = c.crypt
BY DEF Sound, Throws, Fields

LEMMA TransportConnectKey == ASSUME KeyInv, TransportConnect PROVE KeyInv'
<1>1. TypeOK /\ TypeOK'
  BY TransportConnectType DEF KeyInv
<1> DEFINE b == IF run = "absent" THEN Fresh ELSE transport
           c == [b EXCEPT !.udpActive = FALSE, !.fellBack = FALSE, !.state = "IN_PROGRESS",
                          !.again = run # "absent"]
           listening == Arm([c EXCEPT !.udp = TRUE], "udpRead")
<1>2. b \in Fields /\ Sound(b) /\ (run # "absent" => b.crypt = transport.crypt)
  BY FreshType DEF KeyInv, TypeOK, Sound, Fresh
<1>3. c \in Fields /\ Sound(c) /\ c.crypt = b.crypt /\ c.state = "IN_PROGRESS"
  <2> HIDE DEF b
  <2> QED BY <1>2 DEF Fields, State, Sound
<1>4. listening \in Fields /\ Sound(listening) /\ listening.crypt = b.crypt
  <2> HIDE DEF c
  <2>1. [c EXCEPT !.udp = TRUE] \in Fields /\ Sound([c EXCEPT !.udp = TRUE])
        /\ [c EXCEPT !.udp = TRUE].crypt = c.crypt
    BY <1>3 DEF Fields, Sound
  <2> QED BY <2>1, <1>3, ArmType, ArmSound DEF Operation
<1>5. Sound(transport') /\ transport'.crypt = b.crypt
  <2> HIDE DEF c, listening
  <2>1. CASE \/ transport' = [c EXCEPT !.state = "FAILED"]
             \/ transport' = [[c EXCEPT !.udp = TRUE] EXCEPT !.state = "FAILED"]
    BY <2>1, <1>3 DEF Fields, Sound
  <2>2. CASE transport' = [listening EXCEPT !.state = "FAILED"]
    BY <2>2, <1>4 DEF Fields, Sound
  <2>3. CASE transport' = Arm(listening, "connect")
    BY <2>3, <1>4, ArmSound DEF Operation
  <2> QED BY <2>1, <2>2, <2>3 DEF TransportConnect, c, listening
<1>6. run' # "absent"
  BY DEF TransportConnect
<1>7. CASE inbox' = << >> /\ srv' = NoSession
  BY <1>7, <1>1, <1>5, <1>6 DEF KeyInv, SyncAfterKey, KeyUnderWay, AbsentIsSilent, NoSession
<1>8. CASE UNCHANGED server /\ run # "absent"
  BY <1>8, <1>1, <1>2, <1>5, <1>6, SilentKey DEF server
<1>9. CASE UNCHANGED server /\ run = "absent"
  BY <1>7, <1>9 DEF server, KeyInv, AbsentIsSilent
<1> QED BY <1>7, <1>8, <1>9 DEF TransportConnect

LEMMA ApplicationKey == ASSUME KeyInv, Application PROVE KeyInv'
<1>1. CASE TransportConnect
  BY <1>1, TransportConnectKey
<1>2. CASE TransportRun
  <2>1. TypeOK'
    BY <1>2, OtherAppType DEF KeyInv
  <2>2. Sound(transport') /\ transport'.crypt = transport.crypt
    <3> DEFINE b == transport.again \/ run # "idle" \/ transport.state = "FAILED"
    <3>1. transport' = [transport EXCEPT !.again = b] /\ transport \in Fields
      BY <1>2 DEF TransportRun, KeyInv, TypeOK
    <3> HIDE DEF b
    <3> QED BY <3>1 DEF Fields, Sound, KeyInv
  <2> QED BY <1>2, <2>1, <2>2, SilentKey DEF TransportRun, server
<1>3. CASE TransportDisconnect
  <2>1. TypeOK'
    BY <1>3, OtherAppType DEF KeyInv
  <2> QED BY <1>3, <2>1 DEF TransportDisconnect, KeyInv, Sound, Absent, Fresh,
             SyncAfterKey, KeyUnderWay, AbsentIsSilent, NoSession
<1>4. CASE AppSend
  <2>1. TypeOK'
    BY <1>4, AppSendType DEF KeyInv
  <2>2. PICK what \in Reactions, ok \in Writes : Returns(Send(transport, what, ok))
    BY <1>4 DEF AppSend
  <2>3. Sound(transport') /\ transport'.crypt = transport.crypt
    BY <2>2, SendEvolves, EvolvesSound, WritesType DEF Returns, KeyInv, TypeOK
  <2> QED BY <1>4, <2>1, <2>3, SilentKey DEF AppSend, server, Returns
<1> QED BY <1>1, <1>2, <1>3, <1>4 DEF Application

\* Handlers other than the one that reads a message.
LEMMA QuietHandlersKey ==
    ASSUME KeyInv,
           SslConnectHandler \/ SslHandshakeHandler \/ ReceiveSslError
             \/ ReceiveUdp \/ UdpSent \/ PingTimerTick
    PROVE  KeyInv'
<1>1. TypeOK /\ transport \in Fields /\ Sound(transport) /\ TypeOK'
  BY SslConnectHandlerType, SslHandshakeHandlerType, ReceiveSslErrorType, ReceiveUdpType,
     UdpSentType, PingTimerTickType DEF KeyInv, TypeOK
<1>2. ASSUME NEW op \in Operation
      PROVE  /\ Completed(op) \in Fields /\ Sound(Completed(op))
             /\ Completed(op).crypt = transport.crypt
  BY <1>1, CompletedType, CompletedSound
<1>3. Sound(transport') /\ transport'.crypt = transport.crypt
  <2>1. CASE SslConnectHandler
    <3> DEFINE c == Completed("connect")
               d == [c EXCEPT !.tcp = TRUE]
    <3>1. c \in Fields /\ Sound(c) /\ c.crypt = transport.crypt
      BY <1>2 DEF Operation
    <3>2. d \in Fields /\ Sound(d) /\ d.crypt = transport.crypt
      <4> HIDE DEF c
      <4> QED BY <3>1 DEF Fields, Sound
    <3>3. CASE transport' = Arm(d, "handshake")
      <4> HIDE DEF d
      <4> QED BY <3>2, <3>3, ArmSound DEF Operation
    <3>4. CASE transport' = Disconnect(c)
      <4> HIDE DEF c
      <4> QED BY <3>1, <3>4, DisconnectEvolves, EvolvesSound
    <3> QED BY <2>1, <3>3, <3>4 DEF SslConnectHandler, Returns
  <2>2. CASE SslHandshakeHandler
    <3> DEFINE c == Completed("handshake")
               d == Arm(c, "sslRead")
    <3>1. c \in Fields /\ Sound(c) /\ c.crypt = transport.crypt
      BY <1>2 DEF Operation
    <3>2. d \in Fields /\ Sound(d) /\ d.crypt = transport.crypt
      BY <3>1, ArmSound, ArmType DEF Operation
    <3>3. ASSUME NEW ok \in Writes, transport' = SendSsl(d, ok)
          PROVE  Sound(transport') /\ transport'.crypt = transport.crypt
      <4> HIDE DEF d
      <4> QED BY <3>2, <3>3, SendSslEvolves, EvolvesSound, WritesType
    <3>4. CASE Throws(c)
      BY <3>1, <3>4, ThrowsSound
    <3> QED BY <2>2, <3>3, <3>4 DEF SslHandshakeHandler, Returns
  <2>3. CASE ReceiveSslError
    BY <2>3, <2>2 DEF ReceiveSslError, Returns, KeyInv, TypeOK
  <2>4. CASE ReceiveUdp
    <3> DEFINE c == Completed("udpRead")
               heard == [c EXCEPT !.udpActive = TRUE, !.fellBack = FALSE]
    <3>1. c \in Fields /\ Sound(c) /\ c.crypt = transport.crypt
      BY <1>2 DEF Operation
    <3>2. heard \in Fields /\ Sound(heard) /\ heard.crypt = transport.crypt
      <4> HIDE DEF c
      <4> QED BY <3>1 DEF Fields, Sound
    <3> HIDE DEF c, heard
    <3>3. CASE Throws(c) \/ Throws(heard)
      BY <3>1, <3>2, <3>3, ThrowsSound
    <3>4. CASE Escapes(heard)
      BY <3>2, <3>4 DEF Escapes
    <3>5. ASSUME NEW what \in Reactions, NEW ok \in Writes,
                 Returns(Arm(Send(heard, what, ok), "udpRead"))
          PROVE  Sound(transport') /\ transport'.crypt = transport.crypt
      <4>1. /\ Send(heard, what, ok) \in Fields
            /\ Sound(Send(heard, what, ok)) /\ Send(heard, what, ok).crypt = transport.crypt
        BY <3>2, SendType, SendEvolves, EvolvesSound, WritesType
      <4> QED BY <4>1, <3>5, ArmSound DEF Returns, Operation
    <3> QED BY <2>4, <3>3, <3>4, <3>5 DEF ReceiveUdp, c, heard
  <2>5. CASE UdpSent
    <3>1. Returns(Completed("udpSend")) \/ Throws(Completed("udpSend"))
      BY <2>5 DEF UdpSent
    <3> QED BY <3>1, <1>2, ThrowsSound DEF Returns, Operation
  <2>6. CASE PingTimerTick
    <3>1. PICK e \in Fields : Evolves(Completed("tick"), e) /\ Returns(Arm(e, "tick"))
      BY <2>6, <1>1, TickEvolves
    <3>2. Sound(e) /\ e.crypt = transport.crypt
      BY <3>1, <1>2, EvolvesSound DEF Operation
    <3> QED BY <3>1, <3>2, ArmSound DEF Returns, Operation
  <2> QED BY <2>1, <2>2, <2>3, <2>4, <2>5, <2>6
<1>4. run # "absent"
  BY DEF SslConnectHandler, SslHandshakeHandler, ReceiveSslError, ReceiveUdp, UdpSent,
         PingTimerTick, Fires
<1>5. run' # "absent"
  BY EndsPresent DEF SslConnectHandler, SslHandshakeHandler, ReceiveSslError, ReceiveUdp,
         UdpSent, PingTimerTick
<1>6. inbox' = inbox /\ (srv'.stage = srv.stage \/ srv'.stage = "auth")
  <2>1. srv \in Session
    BY <1>1 DEF TypeOK
  <2>2. CASE SslHandshakeHandler
    BY <2>1, <2>2 DEF SslHandshakeHandler, Session
  <2>3. CASE PingTimerTick
    BY <2>1, <2>3 DEF PingTimerTick, Session
  <2>4. CASE SslConnectHandler \/ ReceiveSslError \/ ReceiveUdp \/ UdpSent
    BY <2>4 DEF SslConnectHandler, ReceiveSslError, ReceiveUdp, UdpSent, server
  <2> QED BY <2>2, <2>3, <2>4
<1> QED BY <1>1, <1>3, <1>4, <1>5, <1>6, SilentKey

\* What the handler of a message leaves of the object.
LEMMA ReceiveSslSound ==
    ASSUME TypeOK, Sound(transport), ReceiveSsl,
           Head(inbox) = "SERVERSYNC" => transport.crypt
    PROVE  /\ Sound(transport')
           /\ (transport.crypt \/ (Head(inbox) = "CRYPTSETUP" /\ run' = "running")) => transport'.crypt
<1> DEFINE c == Completed("sslRead")
           m == Head(inbox)
<1>1. c \in Fields /\ Sound(c) /\ c.crypt = transport.crypt
  BY CompletedType, CompletedSound DEF TypeOK, Operation
<1>2. ASSUME NEW d \in Fields, Sound(d), Returns(Arm(d, "sslRead"))
      PROVE  Sound(transport') /\ transport'.crypt = d.crypt
  BY <1>2, ArmSound DEF Returns, Operation
<1> HIDE DEF c
<1>3. CASE m = "PING"
  <2>1. [c EXCEPT !.ping_state = "PONG"] \in Fields /\ Sound([c EXCEPT !.ping_state = "PONG"])
        /\ [c EXCEPT !.ping_state = "PONG"].crypt = c.crypt
    BY <1>1 DEF Fields, Sound
  <2> QED BY <1>3, <2>1, <1>1, <1>2 DEF ReceiveSsl, c
<1>4. CASE m = "CRYPTSETUP"
  <2> DEFINE d == SendUdp([c EXCEPT !.crypt = TRUE])
  <2>1. d \in Fields /\ Sound(d) /\ d.crypt
    BY <1>1 DEF SendUdp, Arm, Fields, Sound, Operation
  <2> QED BY <1>4, <2>1, <1>2 DEF ReceiveSsl, c
<1>5. CASE m = "SERVERSYNC"
  <2> DEFINE d == [c EXCEPT !.state = "CONNECTED"]
  <2>1. d \in Fields /\ Sound(d) /\ d.crypt = c.crypt
    BY <1>1, <1>5 DEF Fields, Sound, State
  <2>2. PICK what \in Reactions, ok \in Writes :
          Returns(Arm(Send(d, what, ok), "sslRead"))
    BY <1>5 DEF ReceiveSsl, c
  <2> HIDE DEF d
  <2>3. /\ Send(d, what, ok) \in Fields
        /\ Sound(Send(d, what, ok)) /\ Send(d, what, ok).crypt = c.crypt
    BY <2>1, SendType, SendEvolves, EvolvesSound, WritesType
  <2> QED BY <2>2, <2>3, <1>1, <1>2, <1>5
<1>6. CASE m \in {"CONTROL", "UDPTUNNEL"}
  <2>1. PICK what \in Reactions, ok \in Writes :
          Returns(Arm(Send(c, what, ok), "sslRead"))
    BY <1>6 DEF ReceiveSsl, c
  <2>2. /\ Send(c, what, ok) \in Fields
        /\ Sound(Send(c, what, ok)) /\ Send(c, what, ok).crypt = c.crypt
    BY <1>1, SendType, SendEvolves, EvolvesSound, WritesType
  <2> QED BY <2>1, <2>2, <1>1, <1>2, <1>6
<1>7. CASE m \in {"REJECT", "NONCE", "OVERSIZED"}
  <2>1. Throws(c)
    BY <1>7 DEF ReceiveSsl, c
  <2> QED BY <2>1, <1>1, <1>7, ThrowsSound
<1>8. CASE m \in {"UNKNOWN", "UNDECODABLE"}
  BY <1>1, <1>8 DEF ReceiveSsl, Escapes, c
<1> QED BY <1>3, <1>4, <1>5, <1>6, <1>7, <1>8 DEF ReceiveSsl

\* Reading the first message shifts the others; it was not a ServerSync unless
\* the key is there, and if it was the CryptSetup, the key is there now.
LEMMA ReceiveSslKey == ASSUME KeyInv, ReceiveSsl PROVE KeyInv'
<1>1. TypeOK /\ TypeOK' /\ inbox \in Seq(Message) /\ inbox # << >> /\ inbox' = Tail(inbox)
  BY ReceiveSslType DEF KeyInv, ReceiveSsl, TypeOK
<1>2. Head(inbox) = inbox[1] /\ 1 \in DOMAIN inbox
  BY <1>1
<1>3. Head(inbox) = "SERVERSYNC" => transport.crypt
  BY <1>1, <1>2 DEF KeyInv, SyncAfterKey
<1>4. /\ Sound(transport')
      /\ (transport.crypt \/ (Head(inbox) = "CRYPTSETUP" /\ run' = "running")) => transport'.crypt
  BY <1>3, ReceiveSslSound DEF KeyInv
<1>5. Head(inbox) = "CRYPTSETUP" => run' = "running"
  BY DEF ReceiveSsl, Returns
<1>6. \A i \in DOMAIN inbox' : i + 1 \in DOMAIN inbox /\ inbox'[i] = inbox[i + 1] /\ i \in Nat
  BY <1>1
<1>7. \A j \in DOMAIN inbox : j # 1 => j - 1 \in DOMAIN inbox' /\ inbox'[j - 1] = inbox[j]
  BY <1>1
<1>8. SyncAfterKey'
  <2> SUFFICES ASSUME NEW i \in DOMAIN inbox', inbox'[i] = "SERVERSYNC", ~transport'.crypt
               PROVE  \E j \in DOMAIN inbox' : j < i /\ inbox'[j] = "CRYPTSETUP"
    BY DEF SyncAfterKey
  <2>1. ~transport.crypt /\ inbox[1] # "CRYPTSETUP"
    BY <1>2, <1>4, <1>5
  <2>2. PICK j \in DOMAIN inbox : j < i + 1 /\ inbox[j] = "CRYPTSETUP"
    BY <1>6, <2>1 DEF KeyInv, SyncAfterKey
  <2>3. j # 1 /\ j \in Nat /\ i \in Nat
    BY <2>1, <2>2, <1>1, <1>6
  <2>4. j - 1 \in DOMAIN inbox' /\ inbox'[j - 1] = "CRYPTSETUP"
    BY <1>7, <2>2, <2>3
  <2> QED BY <2>2, <2>3, <2>4
<1>9. KeyUnderWay'
  <2> SUFFICES ASSUME srv'.stage \in {"crypt", "synced"}, ~transport'.crypt
               PROVE  \E j \in DOMAIN inbox' : inbox'[j] = "CRYPTSETUP"
    BY DEF KeyUnderWay
  <2>1. ~transport.crypt /\ inbox[1] # "CRYPTSETUP" /\ srv' = srv
    BY <1>2, <1>4, <1>5 DEF ReceiveSsl
  <2>2. PICK j \in DOMAIN inbox : inbox[j] = "CRYPTSETUP"
    BY <2>1 DEF KeyInv, KeyUnderWay
  <2> QED BY <1>7, <2>1, <2>2
<1>10. AbsentIsSilent'
  <2>1. run' # "absent"
    BY DEF ReceiveSsl, Returns, Throws, Escapes
  <2> QED BY <2>1 DEF AbsentIsSilent
<1> QED BY <1>1, <1>4, <1>8, <1>9, <1>10 DEF KeyInv

\* A message is added at the end; a ServerSync is added only when the
\* CryptSetup has been.
LEMMA ServerKey == ASSUME KeyInv, Server PROVE KeyInv'
<1>1. TypeOK /\ TypeOK' /\ inbox \in Seq(Message)
  BY ServerType DEF KeyInv, TypeOK
<1>2. ASSUME NEW m \in Message, Deliver(m),
             m = "SERVERSYNC" => srv.stage = "crypt",
             srv'.stage \in {"crypt", "synced"} =>
                srv.stage \in {"crypt", "synced"} \/ m = "CRYPTSETUP"
      PROVE  KeyInv'
  <2>1. /\ inbox' = Append(inbox, m) /\ transport' = transport /\ run' = run /\ peer' = peer
        /\ peer = "up"
    BY <1>2 DEF Deliver
  <2>2. /\ DOMAIN inbox' = 1 .. Len(inbox) + 1 /\ DOMAIN inbox = 1 .. Len(inbox)
        /\ Len(inbox) \in Nat
        /\ inbox'[Len(inbox) + 1] = m
        /\ \A j \in DOMAIN inbox : inbox'[j] = inbox[j]
    BY <2>1, <1>1
  <2>3. SyncAfterKey'
    <3> SUFFICES ASSUME NEW i \in DOMAIN inbox', inbox'[i] = "SERVERSYNC", ~transport.crypt
                 PROVE  \E j \in DOMAIN inbox' : j < i /\ inbox'[j] = "CRYPTSETUP"
      BY <2>1 DEF SyncAfterKey
    <3>1. CASE i \in DOMAIN inbox
      <4>1. PICK j \in DOMAIN inbox : j < i /\ inbox[j] = "CRYPTSETUP"
        BY <3>1, <2>2 DEF KeyInv, SyncAfterKey
      <4> QED BY <4>1, <2>2
    <3>2. CASE i = Len(inbox) + 1
      <4>1. srv.stage = "crypt"
        BY <3>2, <2>2, <1>2
      <4>2. PICK j \in DOMAIN inbox : inbox[j] = "CRYPTSETUP"
        BY <4>1 DEF KeyInv, KeyUnderWay
      <4> QED BY <4>2, <3>2, <2>2
    <3> QED BY <3>1, <3>2, <2>2
  <2>4. KeyUnderWay'
    <3> SUFFICES ASSUME srv'.stage \in {"crypt", "synced"}, ~transport.crypt
                 PROVE  \E j \in DOMAIN inbox' : inbox'[j] = "CRYPTSETUP"
      BY <2>1 DEF KeyUnderWay
    <3>1. CASE m = "CRYPTSETUP"
      BY <3>1, <2>2
    <3>2. CASE srv.stage \in {"crypt", "synced"}
      <4>1. PICK j \in DOMAIN inbox : inbox[j] = "CRYPTSETUP"
        BY <3>2 DEF KeyInv, KeyUnderWay
      <4> QED BY <4>1, <2>2
    <3> QED BY <3>1, <3>2, <1>2
  <2>5. AbsentIsSilent'
    BY <2>1 DEF KeyInv, AbsentIsSilent
  <2> QED BY <2>1, <2>3, <2>4, <2>5, <1>1 DEF KeyInv
<1>3. srv \in Session
  BY <1>1 DEF TypeOK
<1>4. CASE ServerAuthenticates
  <2>1. CASE Deliver("CRYPTSETUP")
    BY <2>1, <1>2 DEF Message
  <2>2. CASE Deliver("REJECT") /\ srv' = [srv EXCEPT !.stage = "rejected"]
    BY <2>2, <1>2, <1>3 DEF Message, Session
  <2> QED BY <1>4, <2>1, <2>2 DEF ServerAuthenticates
<1>5. CASE ServerSyncs
  BY <1>5, <1>2 DEF ServerSyncs, Message
<1>6. CASE ServerAnswersPing
  BY <1>6, <1>2, <1>3 DEF ServerAnswersPing, Message, Session
<1>7. CASE ServerSends
  <2>1. PICK m \in Messages : Deliver(m)
    BY <1>7 DEF ServerSends
  <2>2. m # "SERVERSYNC"
    BY <2>1, MessagesAssumption
  <2> QED BY <1>7, <2>1, <2>2, <1>2 DEF ServerSends, Message
<1>8. CASE PeerDies
  BY <1>1, <1>8 DEF PeerDies, KeyInv, Sound, SyncAfterKey, KeyUnderWay, AbsentIsSilent
<1> QED BY <1>4, <1>5, <1>6, <1>7, <1>8 DEF Server

LEMMA KeyInvariance == Spec => []KeyInv
<1>1. Init => KeyInv
  <2> SUFFICES ASSUME Init PROVE KeyInv
    OBVIOUS
  <2>1. TypeOK
    BY FreshType, NoMessage DEF Init, TypeOK
  <2> QED BY <2>1 DEF Init, KeyInv, Sound, Absent, Fresh, SyncAfterKey, KeyUnderWay,
             AbsentIsSilent, NoSession
<1>2. KeyInv /\ [Next]_vars => KeyInv'
  <2> SUFFICES ASSUME KeyInv, [Next]_vars PROVE KeyInv'
    OBVIOUS
  <2>1. CASE Application
    BY <2>1, ApplicationKey
  <2>2. CASE RunReturns
    <3>1. TypeOK'
      BY <2>2, OtherAppType DEF KeyInv
    <3> QED BY <2>2, <3>1, SilentKey DEF RunReturns, server, KeyInv
  <2>3. CASE Handlers
    BY <2>3, ReceiveSslKey, QuietHandlersKey DEF Handlers
  <2>4. CASE Server
    BY <2>4, ServerKey
  <2>5. CASE UNCHANGED vars
    BY <2>5 DEF vars, KeyInv, TypeOK, Sound, SyncAfterKey, KeyUnderWay, AbsentIsSilent
  <2> QED BY <2>1, <2>2, <2>3, <2>4, <2>5 DEF Next
<1> QED BY <1>1, <1>2, PTL DEF Spec

\* Nothing is encrypted with a key that has not been set, however the
\* application uses the object and whatever else the server sends.
THEOREM NoKeylessDatagram == Spec => []KeyedVoice
<1>1. KeyInv => KeyedVoice
  BY DEF KeyInv, Sound, KeyedVoice
<1> QED BY <1>1, KeyInvariance, PTL
-----------------------------------------------------------------------------
(***************************************************************************)
(* A session that the application sits in is alive, and one that is over   *)
(* is known to be.  The invariant ties together what the object holds      *)
(* open, which operations are pending, what the server has sent, and where *)
(* the application is.  A stopped loop runs no handler, so most of it is   *)
(* about objects whose loop has not been stopped.                          *)
(***************************************************************************)

Down == {"NOT_CONNECTED", "FAILED"}

\* The object by itself: what is pending or awaited has its socket.
Held(c) ==
    /\ c.state = "CONNECTED" => ~c.stopped /\ c.tcp /\ c.udp
    /\ c.stopped /\ ~c.again => c.state \in Down
    /\ ~c.stopped =>
        /\ {"connect", "handshake", "sslRead"} \cap c.pending # {} => c.udp
        /\ {"handshake", "sslRead"} \cap c.pending # {} => c.tcp
        /\ c.ping_state = "PING" => c.udp

\* One operation at a time makes the connection; until the handshake is done
\* the server has said nothing; a ping that is out has a reply on its way.
Staged(c) ==
    ~c.stopped =>
        /\ "connect" \in c.pending => "handshake" \notin c.pending /\ "sslRead" \notin c.pending
        /\ "handshake" \in c.pending => "sslRead" \notin c.pending
        /\ {"connect", "handshake"} \cap c.pending # {} =>
                srv.stage = "none" /\ inbox = << >> /\ c.ping_state # "PING"
        /\ {"handshake", "sslRead"} \cap c.pending # {} => peer # "none"
        /\ c.ping_state = "PING" => peer = "gone" \/ PingUnanswered

\* The server has said ServerSync before the client can have read it, and is
\* asked for a ping reply only by a client that it has answered.
LetIn(c) ==
    /\ srv.pingDue => srv.stage # "none"
    /\ c.state = "CONNECTED" => peer # "none" /\ srv.stage = "synced"
    /\ \A i \in DOMAIN inbox : inbox[i] = "SERVERSYNC" => srv.stage = "synced"

\* Where an application that does not reuse an object finds itself.
FirstUse(c) ==
    /\ run = "idle" => c.state \in {"IN_PROGRESS", "FAILED"}
    /\ run \in {"idle", "running"} /\ ~c.again /\ ~c.stopped
            /\ c.state \in {"IN_PROGRESS", "CONNECTED"} =>
        "udpRead" \in c.pending

LiveInv ==
    /\ TypeOK
    /\ AbsentIsSilent
    /\ run = "absent" => transport = Absent
    /\ Held(transport)
    /\ Staged(transport)
    /\ LetIn(transport)
    /\ FirstUse(transport)
    /\ Listening
    /\ DownMeansOver
    /\ RunEndsDown


LEMMA ConnectedLives == LiveInv => ConnectedIsLive
BY DEF LiveInv, Held, LetIn, ConnectedIsLive

\* What sending from a handler can do to the object.
Works(c, d) ==
    /\ d \in Fields
    /\ d.again = c.again /\ d.ping_state = c.ping_state
    /\ c.pending \subseteq d.pending /\ d.pending \subseteq c.pending \cup {"udpSend"}
    /\ \/ d.state = c.state /\ d.stopped = c.stopped /\ d.tcp = c.tcp /\ d.udp = c.udp
       \/ d.state \in Down /\ d.stopped

LEMMA DisconnectWorks == ASSUME NEW c \in Fields PROVE Works(c, Disconnect(c))
BY DisconnectType DEF Disconnect, Works, Fields, Down

LEMMA SendSslWorks ==
    ASSUME NEW c \in Fields, NEW ok \in BOOLEAN PROVE Works(c, SendSsl(c, ok))
<1>1. SendSsl(c, ok) \in Fields
  BY SendSslType
<1>2. CASE ok /\ c.tcp
  BY <1>1, <1>2 DEF SendSsl, Works
<1>3. CASE ~(ok /\ c.tcp)
  <2>1. SendSsl(c, ok) = [Disconnect(c) EXCEPT !.state = "FAILED"]
    BY <1>3 DEF SendSsl
  <2> QED BY <1>1, <2>1 DEF Disconnect, Works, Fields, Down
<1> QED BY <1>2, <1>3

LEMMA SendUdpWorks == ASSUME NEW c \in Fields PROVE Works(c, SendUdp(c))
<1>1. SendUdp(c) \in Fields
  BY ArmType DEF SendUdp, Operation
<1> QED BY <1>1 DEF SendUdp, Arm, Works, Fields

LEMMA SendWorks ==
    ASSUME NEW c \in Fields, NEW what \in Reactions, NEW ok \in BOOLEAN
    PROVE  Works(c, Send(c, what, ok))
<1>1. Works(c, c)
  BY DEF Works
<1> QED BY <1>1, SendSslWorks, SendUdpWorks DEF Send

LEMMA PingWorks ==
    ASSUME NEW c \in Fields, NEW ok \in BOOLEAN, NEW silent \in BOOLEAN
    PROVE  Works([c EXCEPT !.ping_state = "PING"], Ping(c, ok, silent))
<1> DEFINE p == [c EXCEPT !.ping_state = "PING"]
           d == SendSslPing(c, ok)
           u == SendUdp(d)
<1>1. p \in Fields /\ (c.ping_state = "PING" => p = c)
  BY DEF Fields
<1>2. Works(p, d)
  <2>1. CASE c.ping_state = "PING"
    BY <2>1, <1>1, DisconnectWorks DEF SendSslPing
  <2>2. CASE c.ping_state # "PING"
    <3>1. d = SendSsl(p, ok)
      BY <2>2 DEF SendSslPing
    <3> HIDE DEF p, d
    <3> QED BY <3>1, <1>1, SendSslWorks
  <2> QED BY <2>1, <2>2
<1> HIDE DEF p, d
<1>3. Works(d, u) /\ d \in Fields
  BY <1>2, SendUdpWorks DEF Works
<1>4. Works(p, u)
  <2> HIDE DEF u
  <2> QED BY <1>2, <1>3 DEF Works
<1>5. Ping(c, ok, silent) = [u EXCEPT !.fellBack = @ \/ (c.udpActive /\ silent)]
  BY DEF Ping, u, d
<1>6. Ping(c, ok, silent) \in Fields
  BY PingType
<1> HIDE DEF u
<1>7. /\ Ping(c, ok, silent).again = u.again /\ Ping(c, ok, silent).ping_state = u.ping_state
      /\ Ping(c, ok, silent).pending = u.pending /\ Ping(c, ok, silent).state = u.state
      /\ Ping(c, ok, silent).stopped = u.stopped /\ Ping(c, ok, silent).tcp = u.tcp
      /\ Ping(c, ok, silent).udp = u.udp
  BY <1>4, <1>5 DEF Works, Fields
<1>8. Works(p, Ping(c, ok, silent))
  BY <1>4, <1>6, <1>7 DEF Works
<1> QED BY <1>8 DEF p

LEMMA CompletedFields ==
    ASSUME transport \in Fields, NEW op \in Operation
    PROVE  /\ Completed(op) \in Fields
           /\ Completed(op).pending = transport.pending \ {op}
           /\ Completed(op).again = transport.again
           /\ Completed(op).ping_state = transport.ping_state
           /\ Completed(op).state = transport.state
           /\ Completed(op).stopped = transport.stopped
           /\ Completed(op).tcp = transport.tcp
           /\ Completed(op).udp = transport.udp
BY CompletedType DEF Completed, Fields

\* An object whose handlers run, as a handler finds it or has made it.
Ready(b) ==
    /\ b \in Fields
    /\ ~b.stopped
    /\ Held(b)
    /\ ~b.again =>
        /\ b.state \notin Down
        /\ "udpRead" \in b.pending
        /\ b.state = "CONNECTED" => "sslRead" \in b.pending

\* How a handler that has made b of the object ends.
Handled(b) ==
    /\ transport' \in Fields
    /\ run' \in {"running", "TransportException", "OtherException"}
    /\ transport'.again = b.again
    /\ \A op \in {"connect", "handshake", "sslRead"} :
            op \in transport'.pending => op \in b.pending
    /\ "udpRead" \in b.pending => "udpRead" \in transport'.pending \/ run' # "running"
    /\ "sslRead" \in b.pending =>
            "sslRead" \in transport'.pending \/ run' # "running"
    /\ transport'.ping_state = "PING" => b.ping_state = "PING" \/ b.state = "CONNECTED"
    /\ run' = "TransportException" => transport'.state = "FAILED"
    /\ \/ transport'.state \in Down /\ transport'.stopped
       \/ /\ transport'.stopped = b.stopped
          /\ transport'.tcp = b.tcp
          /\ transport'.udp = b.udp
          /\ transport'.state = b.state \/ (transport'.state = "FAILED" /\ run' # "running")

LEMMA HandledLives ==
    ASSUME NEW b, Ready(b), Handled(b), peer' = peer \/ b.state # "CONNECTED"
    PROVE  /\ Held(transport)' /\ FirstUse(transport)'
           /\ Listening' /\ DownMeansOver' /\ RunEndsDown'
<1>1. Held(transport)'
  BY DEF Ready, Handled, Held, Down
<1>2. FirstUse(transport)'
  BY DEF Ready, Handled, FirstUse, Down
<1>3. Listening'
  BY DEF Ready, Handled, Listening, Down
<1>4. DownMeansOver'
  BY DEF Ready, Handled, DownMeansOver, Down
<1>5. RunEndsDown'
  BY DEF Ready, Handled, RunEndsDown, Down
<1> QED BY <1>1, <1>2, <1>3, <1>4, <1>5

LEMMA FiresReady ==
    ASSUME LiveInv, run = "running", ~transport.stopped PROVE Ready(transport)
<1>1. transport \in Fields /\ Held(transport)
  BY DEF LiveInv, TypeOK
<1>2. ASSUME ~transport.again PROVE transport.state \notin Down
  BY <1>2 DEF LiveInv, DownMeansOver, Down
<1>3. ASSUME ~transport.again PROVE "udpRead" \in transport.pending
  BY <1>1, <1>2, <1>3 DEF LiveInv, FirstUse, Down, Fields, State
<1>4. ASSUME ~transport.again, transport.state = "CONNECTED"
      PROVE  "sslRead" \in transport.pending
  BY <1>4 DEF LiveInv, Listening
<1> QED BY <1>1, <1>2, <1>3, <1>4 DEF Ready

\* A handler that neither reads a message nor moves the connection on.
Quiet ==
    /\ run = "running" /\ ~transport.stopped
    /\ Handled(transport)
    /\ peer' = peer /\ inbox' = inbox /\ srv'.stage = srv.stage
    /\ srv.pingDue => srv'.pingDue
    /\ srv'.pingDue => srv.pingDue \/ transport.state = "CONNECTED"
    /\ transport'.ping_state = "PING" /\ ~transport'.stopped =>
            transport.ping_state = "PING" \/ peer = "gone" \/ srv'.pingDue

LEMMA QuietLives == ASSUME LiveInv, TypeOK', Quiet PROVE LiveInv'
<1>1. Ready(transport)
  BY FiresReady DEF Quiet
<1>2. /\ Held(transport)' /\ FirstUse(transport)'
      /\ Listening' /\ DownMeansOver' /\ RunEndsDown'
  BY <1>1, HandledLives DEF Quiet
<1>3. AbsentIsSilent' /\ run' # "absent"
  BY DEF Quiet, Handled, AbsentIsSilent
<1>4. LetIn(transport)'
  BY DEF Quiet, Handled, LiveInv, LetIn, Down
<1>5. Staged(transport)'
  <2> SUFFICES ASSUME ~transport'.stopped PROVE Staged(transport)'
    BY DEF Staged
  <2>1. /\ \A op \in {"connect", "handshake", "sslRead"} :
                op \in transport'.pending => op \in transport.pending
        /\ Staged(transport) /\ ~transport.stopped
    BY DEF Quiet, Handled, LiveInv
  <2>2. transport.ping_state = "PING" => transport'.ping_state = "PING" \/ peer = "gone" \/ PingUnanswered
    BY <2>1 DEF Staged
  <2>3. PingUnanswered => PingUnanswered'
    BY DEF Quiet, PingUnanswered
  <2>4. srv'.pingDue => PingUnanswered'
    BY DEF PingUnanswered
  <2>5. transport'.ping_state = "PING" => peer' = "gone" \/ PingUnanswered'
    BY <2>1, <2>3, <2>4 DEF Quiet, Staged
  <2>6. transport'.ping_state = "PING" =>
            "connect" \notin transport'.pending /\ "handshake" \notin transport'.pending
    <3>1. transport.state = "CONNECTED" => srv.stage = "synced"
      BY DEF LiveInv, LetIn
    <3> QED BY <2>1, <3>1 DEF Quiet, Handled, Staged
  <2>7. transport.pending \cap {"connect", "handshake"} = {} =>
            transport'.pending \cap {"connect", "handshake"} = {}
    BY <2>1
  <2> QED BY <2>1, <2>5, <2>6 DEF Staged, Quiet
<1> QED BY <1>2, <1>3, <1>4, <1>5 DEF LiveInv

LEMMA AppSendQuiet == ASSUME LiveInv, AppSend PROVE Quiet
<1>1. PICK what \in Reactions, ok \in Writes : Returns(Send(transport, what, ok))
  BY DEF AppSend
<1>2. Works(transport, Send(transport, what, ok))
  BY SendWorks, WritesType DEF LiveInv, TypeOK
<1>3. transport' = Send(transport, what, ok) /\ run' = "running"
  BY <1>1 DEF Returns
<1>4. Works(transport, transport')
  BY <1>2, <1>3
<1> QED BY <1>3, <1>4 DEF AppSend, Quiet, Works, Handled, server

LEMMA ReceiveSslErrorQuiet == ASSUME LiveInv, ReceiveSslError PROVE Quiet
<1>1. transport' = transport /\ run' = "running" /\ UNCHANGED server
      /\ run = "running" /\ ~transport.stopped /\ transport \in Fields
  BY DEF ReceiveSslError, Returns, Fires, LiveInv, TypeOK
<1> QED BY <1>1 DEF Quiet, Handled, server

LEMMA UdpSentQuiet == ASSUME LiveInv, UdpSent PROVE Quiet
<1> DEFINE c == Completed("udpSend")
<1>1. c \in Fields /\ c.pending = transport.pending \ {"udpSend"} /\ c.again = transport.again
      /\ c.ping_state = transport.ping_state /\ c.state = transport.state
      /\ c.stopped = transport.stopped /\ c.tcp = transport.tcp /\ c.udp = transport.udp
  BY CompletedFields DEF LiveInv, TypeOK, Operation
<1>2. Returns(c) \/ Throws(c)
  BY DEF UdpSent
<1>3. UNCHANGED server /\ run = "running" /\ ~transport.stopped
  BY DEF UdpSent, Fires
<1> HIDE DEF c
<1>4. CASE Returns(c)
  BY <1>1, <1>3, <1>4 DEF Returns, Quiet, Handled, server
<1>5. CASE Throws(c)
  BY <1>1, <1>3, <1>5 DEF Throws, Quiet, Handled, server, Fields, State
<1> QED BY <1>2, <1>4, <1>5

LEMMA ReceiveUdpQuiet == ASSUME LiveInv, ReceiveUdp PROVE Quiet
<1> DEFINE c == Completed("udpRead")
           heard == [c EXCEPT !.udpActive = TRUE, !.fellBack = FALSE]
           Same(d) == d \in Fields /\ d.pending = transport.pending \ {"udpRead"}
                /\ d.again = transport.again
                /\ d.ping_state = transport.ping_state /\ d.state = transport.state
                /\ d.stopped = transport.stopped /\ d.tcp = transport.tcp /\ d.udp = transport.udp
<1>1. Same(c)
  BY CompletedFields DEF LiveInv, TypeOK, Operation
<1>2. Same(heard)
  <2> HIDE DEF c
  <2> QED BY <1>1 DEF Fields
<1>3. UNCHANGED server /\ run = "running" /\ ~transport.stopped
  BY DEF ReceiveUdp, Fires
<1>4. \/ Throws(c) \/ Throws(heard) \/ Escapes(heard)
      \/ \E what \in Reactions, ok \in Writes : Returns(Arm(Send(heard, what, ok), "udpRead"))
  BY DEF ReceiveUdp
<1> HIDE DEF c, heard
<1>5. ASSUME NEW d, Same(d), Throws(d) PROVE Quiet
  BY <1>3, <1>5 DEF Throws, Quiet, Handled, server, Fields, State
<1>6. ASSUME NEW d, Same(d), Escapes(d) PROVE Quiet
  BY <1>3, <1>6 DEF Escapes, Quiet, Handled, server
<1>7. ASSUME NEW what \in Reactions, NEW ok \in Writes, Returns(Arm(Send(heard, what, ok), "udpRead"))
      PROVE Quiet
  <2> DEFINE s == Send(heard, what, ok)
  <2>1. Works(heard, s)
    BY <1>2, SendWorks, WritesType
  <2> HIDE DEF s
  <2>2. transport' = Arm(s, "udpRead") /\ run' = "running"
    BY <1>7 DEF Returns, s
  <2>3. s \in Fields /\ transport' \in Fields
    BY <2>1, <2>2, ArmType DEF Works, Operation
  <2>4. /\ transport'.pending = s.pending \cup {"udpRead"} /\ transport'.again = s.again
        /\ transport'.ping_state = s.ping_state /\ transport'.state = s.state
        /\ transport'.stopped = s.stopped /\ transport'.tcp = s.tcp /\ transport'.udp = s.udp
    BY <2>2, <2>3 DEF Arm, Fields
  <2> QED BY <1>2, <1>3, <2>1, <2>2, <2>3, <2>4 DEF Works, Quiet, Handled, server
<1> QED BY <1>1, <1>2, <1>4, <1>5, <1>6, <1>7

\* The tick: a ping goes out only on a session, and then either its reply is
\* awaited or the server is gone.
LEMMA PingTimerTickQuiet == ASSUME LiveInv, PingTimerTick PROVE Quiet
<1> DEFINE c == Completed("tick")
           d(ok, silent) == IF c.state = "CONNECTED" THEN Ping(c, ok, silent) ELSE c
           e(ok, silent) ==
                IF d(ok, silent).state = "NOT_CONNECTED" /\ d(ok, silent).ping_state = "PING"
                THEN Disconnect(d(ok, silent)) ELSE d(ok, silent)
           pinged == IF c.state = "CONNECTED" THEN [c EXCEPT !.ping_state = "PING"] ELSE c
<1>1. c \in Fields /\ c.pending = transport.pending \ {"tick"} /\ c.again = transport.again
      /\ c.ping_state = transport.ping_state /\ c.state = transport.state
      /\ c.stopped = transport.stopped /\ c.tcp = transport.tcp /\ c.udp = transport.udp
  BY CompletedFields DEF LiveInv, TypeOK, Operation
<1>2. PICK ok \in Writes, silent \in BOOLEAN :
        /\ Returns(Arm(e(ok, silent), "tick"))
        /\ srv' = [srv EXCEPT !.pingDue =
              @ \/ (peer = "up" /\ c.state = "CONNECTED" /\ ~d(ok, silent).stopped)]
  BY DEF PingTimerTick, Due
<1>3. /\ run = "running" /\ ~transport.stopped /\ peer' = peer /\ inbox' = inbox
      /\ srv \in Session /\ peer \in {"none", "up", "gone"}
  BY DEF PingTimerTick, Fires, LiveInv, TypeOK
<1> HIDE DEF c
<1>4. /\ pinged \in Fields /\ pinged.pending = c.pending /\ pinged.again = c.again
      /\ pinged.state = c.state /\ pinged.stopped = c.stopped
      /\ pinged.tcp = c.tcp /\ pinged.udp = c.udp
      /\ pinged.ping_state = IF c.state = "CONNECTED" THEN "PING" ELSE c.ping_state
  BY <1>1 DEF Fields
<1>5. Works(pinged, d(ok, silent))
  <2>1. CASE c.state = "CONNECTED"
    BY <2>1, <1>1, PingWorks, WritesType
  <2>2. CASE c.state # "CONNECTED"
    BY <2>2, <1>1 DEF Works
  <2> QED BY <2>1, <2>2
<1> HIDE DEF d, pinged
<1>6. Works(pinged, e(ok, silent))
      /\ (e(ok, silent).stopped \/ e(ok, silent).stopped = d(ok, silent).stopped)
  <2>1. CASE d(ok, silent).state = "NOT_CONNECTED" /\ d(ok, silent).ping_state = "PING"
    <3>1. Works(d(ok, silent), e(ok, silent)) /\ e(ok, silent).stopped
      BY <2>1, <1>5, DisconnectWorks, ZenonT(30) DEF Works, Disconnect, Fields
    <3> HIDE DEF e
    <3> QED BY <3>1, <1>5 DEF Works
  <2>2. CASE ~(d(ok, silent).state = "NOT_CONNECTED" /\ d(ok, silent).ping_state = "PING")
    BY <2>2, <1>5
  <2> QED BY <2>1, <2>2
<1> DEFINE a == Arm(e(ok, silent), "tick")
<1> HIDE DEF e
<1>7. /\ a \in Fields /\ a.pending = e(ok, silent).pending \cup {"tick"}
      /\ a.again = e(ok, silent).again
      /\ a.ping_state = e(ok, silent).ping_state /\ a.state = e(ok, silent).state
      /\ a.stopped = e(ok, silent).stopped
      /\ a.tcp = e(ok, silent).tcp /\ a.udp = e(ok, silent).udp
  BY <1>6, ArmType, ZenonT(30) DEF Works, Arm, Fields, Operation
<1>8. transport' = a /\ run' = "running"
  BY <1>2 DEF Returns
<1> HIDE DEF a
<1>9. Handled(transport)
  BY <1>1, <1>4, <1>6, <1>7, <1>8 DEF Handled, Works
<1>10. /\ srv'.stage = srv.stage
       /\ srv'.pingDue = (srv.pingDue
              \/ (peer = "up" /\ c.state = "CONNECTED" /\ ~d(ok, silent).stopped))
  BY <1>2, <1>3 DEF Session
<1>11. transport'.ping_state = "PING" /\ ~transport'.stopped =>
            transport.ping_state = "PING" \/ peer = "gone" \/ srv'.pingDue
  <2> SUFFICES ASSUME transport'.ping_state = "PING", ~transport'.stopped,
                      transport.ping_state # "PING", peer # "gone"
               PROVE  srv'.pingDue
    OBVIOUS
  <2>1. c.state = "CONNECTED"
    BY <1>1, <1>4, <1>6, <1>7, <1>8 DEF Works
  <2>2. ~d(ok, silent).stopped
    BY <1>6, <1>7, <1>8
  <2>3. peer = "up"
    BY <2>1, <1>1, <1>3 DEF LiveInv, LetIn
  <2> QED BY <2>1, <2>2, <2>3, <1>10
<1> QED BY <1>1, <1>3, <1>9, <1>10, <1>11 DEF Quiet

LEMMA SslConnectHandlerLives == ASSUME LiveInv, SslConnectHandler PROVE LiveInv'
<1> DEFINE c == Completed("connect")
           o == [c EXCEPT !.tcp = TRUE]
           b == [transport EXCEPT !.tcp = TRUE, !.pending = @ \cup {"handshake"}]
<1>1. c \in Fields /\ c.pending = transport.pending \ {"connect"} /\ c.again = transport.again
      /\ c.ping_state = transport.ping_state /\ c.state = transport.state
      /\ c.stopped = transport.stopped /\ c.tcp = transport.tcp /\ c.udp = transport.udp
  BY CompletedFields DEF LiveInv, TypeOK, Operation
<1>2. /\ run = "running" /\ ~transport.stopped /\ "connect" \in transport.pending
      /\ inbox' = inbox /\ srv' = srv /\ transport \in Fields /\ TypeOK'
  BY SslConnectHandlerType DEF SslConnectHandler, Fires, LiveInv, TypeOK
<1>3. /\ srv.stage = "none" /\ inbox = << >> /\ transport.ping_state # "PING"
      /\ "handshake" \notin transport.pending /\ "sslRead" \notin transport.pending
      /\ transport.state # "CONNECTED" /\ transport.udp
  BY <1>2 DEF LiveInv, Staged, LetIn, Held
<1>4. /\ b \in Fields /\ b.pending = transport.pending \cup {"handshake"}
      /\ b.again = transport.again /\ b.tcp
      /\ b.ping_state = transport.ping_state /\ b.state = transport.state
      /\ b.stopped = transport.stopped /\ b.udp = transport.udp
  BY <1>2 DEF Fields, Operation
<1> HIDE DEF b, c
<1>5. Ready(b)
  <2>1. Ready(transport)
    BY <1>2, FiresReady
  <2> QED BY <2>1, <1>2, <1>3, <1>4 DEF Ready, Held, Down
<1>6. /\ Handled(b)
      /\ \/ transport'.stopped
         \/ /\ peer' = "up" /\ "connect" \notin transport'.pending
            /\ "sslRead" \notin transport'.pending
            /\ transport'.ping_state # "PING"
  <2>1. CASE Returns(Arm(o, "handshake")) /\ peer' = "up"
    <3>1. Arm(o, "handshake") \in Fields
      <4>1. o \in Fields
        BY <1>1 DEF Fields
      <4> QED BY <4>1, ArmType DEF Operation
    <3>2. /\ transport' \in Fields
          /\ transport'.pending = (transport.pending \ {"connect"}) \cup {"handshake"}
          /\ transport'.again = transport.again /\ transport'.tcp
          /\ transport'.ping_state = transport.ping_state /\ transport'.state = transport.state
          /\ transport'.stopped = transport.stopped /\ transport'.udp = transport.udp
          /\ run' = "running"
      BY <2>1, <3>1, <1>1 DEF Returns, Arm, Fields
    <3> QED BY <2>1, <3>2, <1>3, <1>4 DEF Handled, Fields
  <2>2. CASE Returns(Disconnect(c)) /\ UNCHANGED peer
    <3>1. Works(c, Disconnect(c)) /\ Disconnect(c).stopped /\ Disconnect(c).state \in Down
      BY <1>1, DisconnectWorks DEF Disconnect, Fields, Down
    <3>2. Works(c, transport') /\ transport'.stopped /\ transport'.state \in Down /\ run' = "running"
      BY <2>2, <3>1 DEF Returns
    <3> QED BY <3>2, <1>1, <1>4 DEF Works, Handled
  <2> QED BY <2>1, <2>2 DEF SslConnectHandler, c
<1>7. /\ Held(transport)' /\ FirstUse(transport)'
      /\ Listening' /\ DownMeansOver' /\ RunEndsDown'
  BY <1>3, <1>4, <1>5, <1>6, HandledLives
<1>8. LetIn(transport)'
  <2>1. transport'.state # "CONNECTED"
    BY <1>3, <1>4, <1>6 DEF Handled, Down
  <2>2. DOMAIN inbox' = {}
    BY <1>2, <1>3
  <2>3. srv'.pingDue => srv'.stage # "none"
    BY <1>2 DEF LiveInv, LetIn
  <2> QED BY <2>1, <2>2, <2>3 DEF LetIn
<1>9. Staged(transport)'
  BY <1>2, <1>3, <1>6 DEF Staged
<1>10. AbsentIsSilent' /\ run' # "absent"
  BY <1>6 DEF Handled, AbsentIsSilent
<1> QED BY <1>2, <1>7, <1>8, <1>9, <1>10 DEF LiveInv

LEMMA SslHandshakeHandlerLives == ASSUME LiveInv, SslHandshakeHandler PROVE LiveInv'
<1> DEFINE c == Completed("handshake")
           a == Arm(c, "sslRead")
           b == [transport EXCEPT !.pending = @ \cup {"sslRead"}]
<1>1. c \in Fields /\ c.pending = transport.pending \ {"handshake"} /\ c.again = transport.again
      /\ c.ping_state = transport.ping_state /\ c.state = transport.state
      /\ c.stopped = transport.stopped /\ c.tcp = transport.tcp /\ c.udp = transport.udp
  BY CompletedFields DEF LiveInv, TypeOK, Operation
<1>2. /\ run = "running" /\ ~transport.stopped /\ "handshake" \in transport.pending
      /\ inbox' = inbox /\ peer' = peer /\ transport \in Fields /\ TypeOK'
  BY SslHandshakeHandlerType DEF SslHandshakeHandler, Fires, LiveInv, TypeOK
<1>3. /\ srv.stage = "none" /\ inbox = << >> /\ transport.ping_state # "PING"
      /\ "connect" \notin transport.pending /\ "sslRead" \notin transport.pending
      /\ transport.state # "CONNECTED" /\ transport.udp /\ transport.tcp /\ peer # "none"
  BY <1>2 DEF LiveInv, Staged, LetIn, Held
<1>4. /\ b \in Fields /\ b.pending = transport.pending \cup {"sslRead"}
      /\ b.again = transport.again /\ b.tcp = transport.tcp
      /\ b.ping_state = transport.ping_state /\ b.state = transport.state
      /\ b.stopped = transport.stopped /\ b.udp = transport.udp
  BY <1>2 DEF Fields, Operation
<1>5. /\ a \in Fields /\ a.pending = c.pending \cup {"sslRead"}
      /\ a.again = c.again /\ a.tcp = c.tcp
      /\ a.ping_state = c.ping_state /\ a.state = c.state
      /\ a.stopped = c.stopped /\ a.udp = c.udp
  BY <1>1, ArmType, ZenonT(30) DEF Arm, Fields, Operation
<1> HIDE DEF a, b, c
<1>6. Ready(b)
  <2>1. Ready(transport)
    BY <1>2, FiresReady
  <2> QED BY <2>1, <1>2, <1>3, <1>4 DEF Ready, Held, Down
<1>7. /\ Handled(b) /\ "connect" \notin transport'.pending
      /\ "handshake" \notin transport'.pending /\ transport'.ping_state # "PING"
  <2>1. ASSUME NEW ok \in Writes, Returns(SendSsl(a, ok))
        PROVE  /\ Handled(b) /\ "connect" \notin transport'.pending
               /\ "handshake" \notin transport'.pending /\ transport'.ping_state # "PING"
    <3>1. Works(a, SendSsl(a, ok))
      BY <1>5, SendSslWorks, WritesType
    <3>2. Works(a, transport') /\ run' = "running"
      BY <2>1, <3>1 DEF Returns
    <3> QED BY <3>2, <1>1, <1>3, <1>4, <1>5, ZenonT(30) DEF Works, Handled
  <2>2. CASE Throws(c)
    BY <2>2, <1>1, <1>3, <1>4 DEF Throws, Handled, Fields, State
  <2> QED BY <2>1, <2>2 DEF SslHandshakeHandler, a, c
<1>8. /\ Held(transport)' /\ FirstUse(transport)'
      /\ Listening' /\ DownMeansOver' /\ RunEndsDown'
  BY <1>2, <1>6, <1>7, HandledLives
<1>9. LetIn(transport)'
  <2>1. transport'.state # "CONNECTED"
    BY <1>3, <1>4, <1>7 DEF Handled, Down
  <2>2. DOMAIN inbox' = {}
    BY <1>2, <1>3
  <2>3. srv'.pingDue => srv'.stage # "none"
    BY <1>2 DEF SslHandshakeHandler, LiveInv, LetIn, TypeOK, Session
  <2> QED BY <2>1, <2>2, <2>3 DEF LetIn
<1>10. Staged(transport)'
  BY <1>2, <1>3, <1>7 DEF Staged
<1>11. AbsentIsSilent' /\ run' # "absent"
  BY <1>7 DEF Handled, AbsentIsSilent
<1> QED BY <1>2, <1>8, <1>9, <1>10, <1>11 DEF LiveInv

\* What the handler of a message makes of the object: a ServerSync puts it
\* in a session before the application's callback is called.
LEMMA ReceiveSslHandled ==
    ASSUME LiveInv, ReceiveSsl,
           NEW b, b = (IF Head(inbox) = "SERVERSYNC" THEN [transport EXCEPT !.state = "CONNECTED"]
                       ELSE transport)
    PROVE  /\ Handled(b)
           /\ transport'.ping_state = "PING" =>
                transport.ping_state = "PING" /\ Head(inbox) # "PING"
<1> DEFINE c == Completed("sslRead")
           m == Head(inbox)
           Same(d) ==
                /\ d \in Fields /\ d.pending = transport.pending \ {"sslRead"}
                /\ d.again = transport.again /\ d.state = b.state
                /\ d.stopped = transport.stopped /\ d.tcp = transport.tcp /\ d.udp = transport.udp
           Goal == /\ Handled(b)
                   /\ transport'.ping_state = "PING" => transport.ping_state = "PING" /\ m # "PING"
<1>1. c \in Fields /\ c.pending = transport.pending \ {"sslRead"} /\ c.again = transport.again
      /\ c.ping_state = transport.ping_state /\ c.state = transport.state
      /\ c.stopped = transport.stopped /\ c.tcp = transport.tcp /\ c.udp = transport.udp
  BY CompletedFields DEF LiveInv, TypeOK, Operation
<1>2. /\ b \in Fields /\ b.pending = transport.pending /\ b.again = transport.again
      /\ b.ping_state = transport.ping_state
      /\ b.stopped = transport.stopped /\ b.tcp = transport.tcp /\ b.udp = transport.udp
      /\ b.state = IF m = "SERVERSYNC" THEN "CONNECTED" ELSE transport.state
  BY DEF LiveInv, TypeOK, Fields, State
<1> HIDE DEF c
<1>3. ASSUME NEW d, NEW s, Same(d), Works(d, s), Returns(Arm(s, "sslRead")),
             d.ping_state = "PING" => transport.ping_state = "PING" /\ m # "PING"
      PROVE  Goal
  <2>1. transport' = Arm(s, "sslRead") /\ run' = "running" /\ transport' \in Fields
    BY <1>3, ArmType DEF Returns, Works, Operation
  <2>2. /\ transport'.pending = s.pending \cup {"sslRead"} /\ transport'.again = s.again
        /\ transport'.ping_state = s.ping_state /\ transport'.state = s.state
        /\ transport'.stopped = s.stopped /\ transport'.tcp = s.tcp /\ transport'.udp = s.udp
    BY <2>1, <1>3 DEF Works, Arm, Fields
  <2>3. /\ \A op \in {"connect", "handshake", "sslRead"} :
                op \in transport'.pending => op \in b.pending
        /\ "udpRead" \in b.pending => "udpRead" \in transport'.pending
        /\ "sslRead" \in transport'.pending
    <3>1. "sslRead" \in b.pending
      BY <1>2 DEF ReceiveSsl, Fires
    <3>2. s.pending \subseteq d.pending \cup {"udpSend"} /\ d.pending \subseteq s.pending
          /\ d.pending = b.pending \ {"sslRead"}
      BY <1>2, <1>3 DEF Works
    <3> QED BY <2>2, <3>1, <3>2
  <2>4. /\ s.again = b.again /\ s.ping_state = d.ping_state
        /\ \/ s.state = b.state /\ s.stopped = b.stopped /\ s.tcp = b.tcp /\ s.udp = b.udp
           \/ s.state \in Down /\ s.stopped
    BY <1>2, <1>3 DEF Works
  <2> HIDE DEF Same
  <2> QED BY <2>1, <2>2, <2>3, <2>4, <1>2, <1>3 DEF Handled
<1>4. ASSUME NEW d \in Fields PROVE Works(d, d)
  BY DEF Works
<1>5. CASE m = "PING"
  <2> DEFINE d == [c EXCEPT !.ping_state = "PONG"]
  <2>1. Same(d) /\ d.ping_state = "PONG"
    BY <1>1, <1>2, <1>5 DEF Fields
  <2>2. Returns(Arm(d, "sslRead"))
    BY <1>5 DEF ReceiveSsl, c
  <2> HIDE DEF d
  <2> QED BY <2>1, <2>2, <1>3, <1>4
<1>6. CASE m = "CRYPTSETUP"
  <2> DEFINE d == [c EXCEPT !.crypt = TRUE]
  <2>1. Same(d) /\ d.ping_state = transport.ping_state
    BY <1>1, <1>2, <1>6 DEF Fields
  <2>2. Returns(Arm(SendUdp(d), "sslRead"))
    BY <1>6 DEF ReceiveSsl, c
  <2> HIDE DEF d
  <2>3. Works(d, SendUdp(d))
    BY <2>1, SendUdpWorks
  <2> QED BY <2>1, <2>2, <2>3, <1>3, <1>6
<1>7. CASE m = "SERVERSYNC"
  <2> DEFINE d == [c EXCEPT !.state = "CONNECTED"]
  <2>1. Same(d) /\ d.ping_state = transport.ping_state
    BY <1>1, <1>2, <1>7 DEF Fields, State
  <2>2. PICK what \in Reactions, ok \in Writes : Returns(Arm(Send(d, what, ok), "sslRead"))
    BY <1>7 DEF ReceiveSsl, c
  <2> HIDE DEF d
  <2>3. Works(d, Send(d, what, ok))
    BY <2>1, SendWorks, WritesType
  <2> QED BY <2>1, <2>2, <2>3, <1>3, <1>7
<1>8. CASE m \in {"CONTROL", "UDPTUNNEL"}
  <2>1. Same(c)
    BY <1>1, <1>2, <1>8
  <2>2. PICK what \in Reactions, ok \in Writes : Returns(Arm(Send(c, what, ok), "sslRead"))
    BY <1>8 DEF ReceiveSsl, c
  <2>3. Works(c, Send(c, what, ok))
    BY <2>1, SendWorks, WritesType
  <2> QED BY <2>1, <2>2, <2>3, <1>1, <1>3, <1>8
<1>9. CASE m \in {"REJECT", "NONCE", "OVERSIZED"}
  <2>1. Throws(c)
    BY <1>9 DEF ReceiveSsl, c
  <2> QED BY <2>1, <1>1, <1>2, <1>9 DEF Throws, Handled, Fields, State
<1>10. CASE m \in {"UNKNOWN", "UNDECODABLE"}
  <2>1. Escapes(c)
    BY <1>10 DEF ReceiveSsl, c
  <2> QED BY <2>1, <1>1, <1>2, <1>10 DEF Escapes, Handled
<1> QED BY <1>5, <1>6, <1>7, <1>8, <1>9, <1>10 DEF ReceiveSsl

LEMMA ReceiveSslLives == ASSUME LiveInv, ReceiveSsl PROVE LiveInv'
<1>1. /\ TypeOK' /\ inbox \in Seq(Message) /\ inbox # << >> /\ inbox' = Tail(inbox)
      /\ peer' = peer /\ srv' = srv /\ run = "running" /\ ~transport.stopped
      /\ "sslRead" \in transport.pending /\ transport \in Fields
  BY ReceiveSslType DEF LiveInv, TypeOK, ReceiveSsl, Fires
<1>2. /\ Head(inbox) = inbox[1] /\ 1 \in DOMAIN inbox
      /\ \A i \in DOMAIN inbox' : i + 1 \in DOMAIN inbox /\ inbox'[i] = inbox[i + 1]
      /\ \A j \in DOMAIN inbox : j # 1 => j - 1 \in DOMAIN inbox' /\ inbox'[j - 1] = inbox[j]
  BY <1>1
<1>3. /\ "connect" \notin transport.pending /\ "handshake" \notin transport.pending
      /\ transport.tcp /\ transport.udp /\ peer # "none"
      /\ (transport.ping_state = "PING" => peer = "gone" \/ PingUnanswered)
  BY <1>1 DEF LiveInv, Staged, Held
<1>4. Head(inbox) = "SERVERSYNC" => srv.stage = "synced"
  BY <1>2 DEF LiveInv, LetIn
<1>5. PICK b : b = (IF Head(inbox) = "SERVERSYNC" THEN [transport EXCEPT !.state = "CONNECTED"]
                    ELSE transport)
  OBVIOUS
<1>6. /\ b \in Fields /\ b.pending = transport.pending /\ b.again = transport.again
      /\ b.ping_state = transport.ping_state
      /\ b.stopped = transport.stopped /\ b.tcp = transport.tcp /\ b.udp = transport.udp
      /\ b.state = IF Head(inbox) = "SERVERSYNC" THEN "CONNECTED" ELSE transport.state
  BY <1>1, <1>5 DEF Fields, State
<1>7. Ready(b)
  <2>1. Ready(transport)
    BY <1>1, FiresReady
  <2> QED BY <2>1, <1>1, <1>3, <1>6 DEF Ready, Held, Down
<1>8. /\ Handled(b)
      /\ transport'.ping_state = "PING" => transport.ping_state = "PING" /\ Head(inbox) # "PING"
  BY <1>5, ReceiveSslHandled
<1>9. /\ Held(transport)' /\ FirstUse(transport)'
      /\ Listening' /\ DownMeansOver' /\ RunEndsDown'
  BY <1>1, <1>7, <1>8, HandledLives
<1>10. LetIn(transport)'
  <2>1. transport'.state = "CONNECTED" => peer' # "none" /\ srv'.stage = "synced"
    <3>1. transport'.state = "CONNECTED" => b.state = "CONNECTED"
      BY <1>8 DEF Handled, Down
    <3> QED BY <3>1, <1>1, <1>3, <1>4, <1>6 DEF LiveInv, LetIn
  <2>2. \A i \in DOMAIN inbox' : inbox'[i] = "SERVERSYNC" => srv'.stage = "synced"
    BY <1>1, <1>2 DEF LiveInv, LetIn
  <2> QED BY <2>1, <2>2, <1>1 DEF LiveInv, LetIn
<1>11. Staged(transport)'
  <2>1. "connect" \notin transport'.pending /\ "handshake" \notin transport'.pending
    BY <1>3, <1>6, <1>8 DEF Handled
  <2>2. PingUnanswered /\ Head(inbox) # "PING" => PingUnanswered'
    BY <1>1, <1>2 DEF PingUnanswered
  <2> QED BY <1>1, <1>3, <1>8, <2>1, <2>2 DEF Staged
<1>12. AbsentIsSilent' /\ run' # "absent"
  BY <1>8 DEF Handled, AbsentIsSilent
<1> QED BY <1>1, <1>9, <1>10, <1>11, <1>12 DEF LiveInv

\* Connecting: a new object is fresh; one used before counts as used again,
\* and gets to the network only when nothing of it is open any more.
LEMMA TransportConnectLives == ASSUME LiveInv, TransportConnect PROVE LiveInv'
<1> DEFINE o == IF run = "absent" THEN Fresh ELSE transport
           c == [o EXCEPT !.udpActive = FALSE, !.fellBack = FALSE, !.state = "IN_PROGRESS",
                          !.again = run # "absent"]
           u == [c EXCEPT !.udp = TRUE]
           l == Arm(u, "udpRead")
           a == Arm(l, "connect")
<1>1. TypeOK' /\ run' = "idle" /\ transport \in Fields /\ peer \in {"none", "up", "gone"}
  BY TransportConnectType DEF LiveInv, TypeOK, TransportConnect
<1>2. /\ o \in Fields /\ (run = "absent" => o = Fresh) /\ (run # "absent" => o = transport)
      /\ o.state # "CONNECTED" /\ Held(o) /\ Staged(o)
  <2>1. CASE run = "absent"
    BY <2>1, FreshType DEF Held, Staged, Fresh
  <2>2. CASE run # "absent"
    BY <2>2, <1>1 DEF TransportConnect, LiveInv
  <2> QED BY <2>1, <2>2
<1> HIDE DEF o
<1>3. /\ c \in Fields /\ c.state = "IN_PROGRESS" /\ c.again = (run # "absent")
      /\ c.pending = o.pending /\ c.ping_state = o.ping_state
      /\ c.stopped = o.stopped /\ c.tcp = o.tcp /\ c.udp = o.udp
  BY <1>2 DEF Fields, State
<1> HIDE DEF c
<1>4. /\ u \in Fields /\ u.state = "IN_PROGRESS" /\ u.again = c.again
       /\ u.pending = c.pending /\ u.ping_state = c.ping_state
       /\ u.stopped = c.stopped /\ u.tcp = c.tcp /\ u.udp
  BY <1>3 DEF Fields
<1> HIDE DEF u
<1>5. /\ l \in Fields /\ l.state = "IN_PROGRESS" /\ l.again = c.again
      /\ l.pending = c.pending \cup {"udpRead"} /\ l.ping_state = c.ping_state
      /\ l.stopped = c.stopped /\ l.tcp = c.tcp /\ l.udp
  <2>1. l \in Fields
    BY <1>4, ArmType DEF Operation
  <2> QED BY <1>4, <2>1 DEF Arm, Fields
<1> HIDE DEF l
<1>6. /\ a \in Fields /\ a.state = "IN_PROGRESS" /\ a.again = l.again
      /\ a.pending = l.pending \cup {"connect"} /\ a.ping_state = l.ping_state
      /\ a.stopped = l.stopped /\ a.tcp = l.tcp /\ a.udp
  BY <1>5, ArmType, ZenonT(30) DEF Arm, Fields, Operation
<1> HIDE DEF a
<1>7. transport'.state # "CONNECTED" /\ AbsentIsSilent' /\ Listening' /\ DownMeansOver' /\ RunEndsDown'
  <2>1. \/ transport' = [c EXCEPT !.state = "FAILED"]
        \/ transport' = [u EXCEPT !.state = "FAILED"]
        \/ transport' = [l EXCEPT !.state = "FAILED"]
        \/ transport' = a
    BY DEF TransportConnect, o, c, u, l, a
  <2>2. transport'.state # "CONNECTED"
    BY <2>1, <1>3, <1>5, <1>6, <1>4 DEF Fields
  <2> QED BY <1>1, <2>2 DEF AbsentIsSilent, Listening, DownMeansOver, RunEndsDown
<1>8. SUFFICES Held(transport)' /\ Staged(transport)' /\ LetIn(transport)' /\ FirstUse(transport)'
  BY <1>1, <1>7 DEF LiveInv
\* Refused before anything is pending: the old server, if any, is still there.
<1>9. ASSUME NEW d, d \in Fields, transport' = [d EXCEPT !.state = "FAILED"], UNCHANGED server,
             d.stopped = o.stopped, d.tcp = o.tcp, o.udp => d.udp, d.ping_state = o.ping_state,
             d.pending \subseteq o.pending \cup {"udpRead"}
      PROVE  Held(transport)' /\ Staged(transport)' /\ LetIn(transport)' /\ FirstUse(transport)'
  <2>1. /\ transport'.state = "FAILED" /\ transport'.again = d.again
        /\ transport'.pending = d.pending /\ transport'.ping_state = d.ping_state
        /\ transport'.stopped = d.stopped /\ transport'.tcp = d.tcp /\ transport'.udp = d.udp
    BY <1>9 DEF Fields
  <2>2. Held(transport)'
    BY <2>1, <1>2, <1>9 DEF Held, Down
  <2>3. Staged(transport)'
    <3>1. PingUnanswered => PingUnanswered'
      BY <1>9 DEF PingUnanswered, server
    <3> QED BY <2>1, <3>1, <1>2, <1>9 DEF Staged, server
  <2>4. LetIn(transport)'
    BY <2>1, <1>9 DEF LiveInv, LetIn, server
  <2>5. FirstUse(transport)'
    BY <2>1 DEF FirstUse
  <2> QED BY <2>2, <2>3, <2>4, <2>5
<1>10. CASE transport' = [c EXCEPT !.state = "FAILED"] /\ UNCHANGED server
  BY <1>10, <1>9, <1>3
<1>11. CASE transport' = [l EXCEPT !.state = "FAILED"] /\ UNCHANGED server
  BY <1>11, <1>9, <1>3, <1>5
<1>12. CASE transport' = [u EXCEPT !.state = "FAILED"] /\ UNCHANGED server
  BY <1>12, <1>9, <1>3, <1>4
<1>13. CASE ~c.udp /\ transport' = a /\ peer' = "none" /\ inbox' = << >> /\ srv' = NoSession
  <2>1. ~o.stopped => /\ "connect" \notin o.pending /\ "handshake" \notin o.pending
                      /\ "sslRead" \notin o.pending /\ o.ping_state # "PING"
    BY <1>2, <1>3, <1>13 DEF Held
  <2>2. run = "absent" => ~o.stopped
    BY <1>2 DEF Fresh
  <2>3. a.stopped = o.stopped /\ a.tcp = o.tcp /\ a.ping_state = o.ping_state
        /\ a.pending = o.pending \cup {"udpRead", "connect"} /\ a.again = (run # "absent")
    BY <1>3, <1>5, <1>6
  <2>4. Held(transport)'
    BY <2>1, <2>2, <2>3, <1>6, <1>13 DEF Held
  <2>5. Staged(transport)'
    BY <2>1, <2>3, <1>13 DEF Staged, NoSession
  <2>6. LetIn(transport)'
    <3>1. DOMAIN inbox' = {}
      BY <1>13
    <3> QED BY <3>1, <1>7, <1>13 DEF LetIn, NoSession
  <2>7. FirstUse(transport)'
    BY <1>1, <1>6, <2>3, <1>13 DEF FirstUse
  <2> QED BY <2>4, <2>5, <2>6, <2>7
<1> QED BY <1>10, <1>11, <1>13, <1>12 DEF TransportConnect, o, c, u, l, a

LEMMA TransportRunLives == ASSUME LiveInv, TransportRun PROVE LiveInv'
<1> DEFINE used == transport.again \/ run # "idle" \/ transport.state = "FAILED"
<1>1. /\ TypeOK' /\ transport \in Fields /\ run # "absent" /\ run' = "running" /\ UNCHANGED server
  BY OtherAppType DEF LiveInv, TypeOK, TransportRun
<1>2. /\ transport'.state = transport.state /\ transport'.again = used
      /\ transport'.pending = transport.pending /\ transport'.ping_state = transport.ping_state
      /\ transport'.stopped = transport.stopped /\ transport'.tcp = transport.tcp
      /\ transport'.udp = transport.udp
  <2>1. transport' = [transport EXCEPT !.again = used]
    BY DEF TransportRun
  <2> HIDE DEF used
  <2> QED BY <2>1, <1>1 DEF Fields
<1>3. used \/ (run = "idle" /\ transport.state = "IN_PROGRESS" /\ ~transport.again)
  BY DEF LiveInv, FirstUse
<1>4. Held(transport)'
  BY <1>2 DEF LiveInv, Held
<1>5. Staged(transport)'
  <2>1. PingUnanswered => PingUnanswered'
    BY <1>1 DEF PingUnanswered, server
  <2> QED BY <1>1, <1>2, <2>1 DEF LiveInv, Staged, server
<1>6. LetIn(transport)'
  BY <1>1, <1>2 DEF LiveInv, LetIn, server
<1>7. FirstUse(transport)' /\ Listening' /\ DownMeansOver' /\ RunEndsDown' /\ AbsentIsSilent'
  BY <1>1, <1>2, <1>3 DEF LiveInv, FirstUse, Listening, DownMeansOver, RunEndsDown, AbsentIsSilent
<1> QED BY <1>1, <1>4, <1>5, <1>6, <1>7 DEF LiveInv

LEMMA RunReturnsLives == ASSUME LiveInv, RunReturns PROVE LiveInv'
<1>1. /\ TypeOK' /\ run = "running" /\ run' = "returned" /\ transport.stopped
      /\ transport' = transport /\ UNCHANGED server
  BY OtherAppType DEF LiveInv, RunReturns
<1>2. Held(transport)' /\ Staged(transport)'
  BY <1>1 DEF LiveInv, Held, Staged
<1>3. LetIn(transport)'
  BY <1>1 DEF LiveInv, LetIn, server
<1>4. FirstUse(transport)' /\ Listening' /\ DownMeansOver' /\ AbsentIsSilent'
  BY <1>1 DEF FirstUse, Listening, DownMeansOver, AbsentIsSilent
<1>5. RunEndsDown'
  BY <1>1 DEF LiveInv, Held, Down, RunEndsDown
<1> QED BY <1>1, <1>2, <1>3, <1>4, <1>5 DEF LiveInv

LEMMA InitLives == Init => LiveInv
<1> SUFFICES ASSUME Init PROVE LiveInv
  OBVIOUS
<1>1. TypeOK
  BY FreshType, NoMessage DEF Init, TypeOK
<1>2. Held(transport) /\ Staged(transport) /\ FirstUse(transport)
  BY DEF Init, Held, Staged, FirstUse, Absent, Fresh
<1>3. LetIn(transport)
  <2>1. DOMAIN inbox = {}
    BY DEF Init
  <2> QED BY <2>1 DEF Init, LetIn, Absent, Fresh, NoSession
<1> QED BY <1>1, <1>2, <1>3
       DEF Init, LiveInv, AbsentIsSilent, Listening, DownMeansOver, RunEndsDown

\* What the server and the network do leaves the object alone.
LEMMA ServerLives == ASSUME LiveInv, Server PROVE LiveInv'
<1>1. TypeOK' /\ inbox \in Seq(Message) /\ transport \in Fields /\ srv \in Session
  BY ServerType DEF LiveInv, TypeOK
<1>2. ASSUME transport' = transport, run' = run, peer = "up", peer' # "none",
             srv.stage # "none" \/ UNCHANGED <<inbox, srv>>,
             srv.stage = "synced" => srv'.stage = "synced",
             PingUnanswered => PingUnanswered',
             srv'.pingDue => srv'.stage # "none",
             \A i \in DOMAIN inbox' : inbox'[i] = "SERVERSYNC" => srv'.stage = "synced"
      PROVE  LiveInv'
  <2>1. Held(transport)' /\ FirstUse(transport)' /\ DownMeansOver' /\ RunEndsDown'
    BY <1>2 DEF LiveInv, Held, FirstUse, DownMeansOver, RunEndsDown
  <2>2. Listening'
    BY <1>2 DEF LiveInv, Listening
  <2>3. LetIn(transport)'
    BY <1>2 DEF LiveInv, LetIn
  <2>4. Staged(transport)'
    BY <1>2 DEF LiveInv, Staged
  <2>5. run # "absent"
    BY <1>2 DEF LiveInv, AbsentIsSilent
  <2> QED BY <1>1, <1>2, <2>1, <2>2, <2>3, <2>4, <2>5 DEF LiveInv, AbsentIsSilent
<1>3. ASSUME NEW m \in Message, Deliver(m), srv.stage # "none",
             srv.stage = "synced" => srv'.stage = "synced",
             srv.pingDue => srv'.pingDue \/ m = "PING", srv'.stage # "none",
             m = "SERVERSYNC" => srv'.stage = "synced"
      PROVE  LiveInv'
  <2>1. /\ inbox' = Append(inbox, m) /\ transport' = transport /\ run' = run /\ peer' = peer
        /\ peer = "up"
    BY <1>3 DEF Deliver
  <2>2. /\ DOMAIN inbox' = 1 .. Len(inbox) + 1 /\ DOMAIN inbox = 1 .. Len(inbox)
        /\ Len(inbox) \in Nat
        /\ inbox'[Len(inbox) + 1] = m
        /\ \A j \in DOMAIN inbox : j \in DOMAIN inbox' /\ inbox'[j] = inbox[j]
    BY <2>1, <1>1
  <2>3. PingUnanswered => PingUnanswered'
    BY <1>3, <2>2 DEF PingUnanswered
  <2>4. \A i \in DOMAIN inbox' : inbox'[i] = "SERVERSYNC" => srv'.stage = "synced"
    <3> SUFFICES ASSUME NEW i \in DOMAIN inbox', inbox'[i] = "SERVERSYNC"
                 PROVE  srv'.stage = "synced"
      OBVIOUS
    <3>1. CASE i \in DOMAIN inbox
      BY <3>1, <2>2, <1>3 DEF LiveInv, LetIn
    <3>2. CASE i = Len(inbox) + 1
      BY <3>2, <2>2, <1>3
    <3> QED BY <3>1, <3>2, <2>2
  <2> QED BY <1>2, <1>3, <2>1, <2>3, <2>4
<1>4. srv.pingDue => srv.stage # "none"
  BY DEF LiveInv, LetIn
<1>5. CASE ServerAuthenticates
  BY <1>1, <1>3, <1>5 DEF ServerAuthenticates, Message, Session
<1>6. CASE ServerSyncs
  BY <1>1, <1>3, <1>6 DEF ServerSyncs, Message, Session
<1>7. CASE ServerAnswersPing
  BY <1>1, <1>3, <1>4, <1>7 DEF ServerAnswersPing, Message, Session
<1>8. CASE ServerSends
  <2>1. PICK m \in Messages : Deliver(m)
    BY <1>8 DEF ServerSends
  <2>2. m # "SERVERSYNC"
    BY <2>1, MessagesAssumption
  <2> QED BY <1>3, <1>8, <2>1, <2>2 DEF ServerSends, Message
<1>9. CASE PeerDies
  <2>1. PingUnanswered => PingUnanswered'
    BY <1>9 DEF PeerDies, PingUnanswered
  <2>2. \A i \in DOMAIN inbox' : inbox'[i] = "SERVERSYNC" => srv'.stage = "synced"
    BY <1>9 DEF PeerDies, LiveInv, LetIn
  <2>3. srv'.pingDue => srv'.stage # "none"
    BY <1>9 DEF PeerDies, LiveInv, LetIn
  <2> QED BY <1>2, <1>9, <2>1, <2>2, <2>3 DEF PeerDies
<1> QED BY <1>5, <1>6, <1>7, <1>8, <1>9 DEF Server

LEMMA LiveStep == ASSUME LiveInv, [Next]_vars PROVE LiveInv'
<1>1. CASE Application
  <2>1. CASE AppSend
    BY <2>1, AppSendType, AppSendQuiet, QuietLives DEF LiveInv
  <2>2. CASE TransportDisconnect
    <3>1. Init'
      BY <2>2 DEF TransportDisconnect, Init
    <3>2. Init' => LiveInv'
      BY InitLives, PTL
    <3> QED BY <3>1, <3>2
  <2> QED BY <1>1, <2>1, <2>2, TransportConnectLives, TransportRunLives DEF Application
<1>2. CASE RunReturns
  BY <1>2, RunReturnsLives
<1>3. CASE Handlers
  <2>1. CASE SslConnectHandler \/ SslHandshakeHandler \/ ReceiveSsl
    BY <2>1, SslConnectHandlerLives, SslHandshakeHandlerLives, ReceiveSslLives
  <2>2. CASE ReceiveSslError
    BY <2>2, ReceiveSslErrorType, ReceiveSslErrorQuiet, QuietLives DEF LiveInv
  <2>3. CASE ReceiveUdp
    BY <2>3, ReceiveUdpType, ReceiveUdpQuiet, QuietLives DEF LiveInv
  <2>4. CASE UdpSent
    BY <2>4, UdpSentType, UdpSentQuiet, QuietLives DEF LiveInv
  <2>5. CASE PingTimerTick
    BY <2>5, PingTimerTickType, PingTimerTickQuiet, QuietLives DEF LiveInv
  <2> QED BY <1>3, <2>1, <2>2, <2>3, <2>4, <2>5 DEF Handlers
<1>4. CASE Server
  BY <1>4, ServerLives
<1>5. CASE UNCHANGED vars
  <2>1. transport' = transport /\ run' = run /\ peer' = peer /\ inbox' = inbox /\ srv' = srv
    BY <1>5 DEF vars
  <2> QED BY <2>1 DEF LiveInv, TypeOK, AbsentIsSilent, Held, Staged, LetIn, FirstUse, Listening,
             DownMeansOver, RunEndsDown, PingUnanswered
<1> QED BY <1>1, <1>2, <1>3, <1>4, <1>5 DEF Next

LEMMA LiveInvariance == Spec => []LiveInv
<1>1. Init => LiveInv
  BY InitLives
<1>2. LiveInv /\ [Next]_vars => LiveInv'
  BY LiveStep
<1> QED BY <1>1, <1>2, PTL DEF Spec

\* While the application sits in the run() of a session, both reads are armed,
\* unless the loop is over or the connection is.
THEOREM SessionListens == Spec => []Listening
<1>1. LiveInv => Listening
  BY DEF LiveInv
<1> QED BY <1>1, LiveInvariance, PTL

\* run() does not stay inside a session that has failed or been closed.
THEOREM NothingRunsDown == Spec => []DownMeansOver
<1>1. LiveInv => DownMeansOver
  BY DEF LiveInv
<1> QED BY <1>1, LiveInvariance, PTL

\* When run() is over, by returning or by a TransportException, the state lets
\* the application connect again.
THEOREM RunLeavesDown == Spec => []RunEndsDown
<1>1. LiveInv => RunEndsDown
  BY DEF LiveInv
<1> QED BY <1>1, LiveInvariance, PTL

\* A client that is CONNECTED has a live loop, open sockets and a server that
\* has let it in, however the application uses the object.
THEOREM ConnectedStaysLive == Spec => []ConnectedIsLive
<1>1. LiveInv => ConnectedIsLive
  BY ConnectedLives
<1> QED BY <1>1, LiveInvariance, PTL

-----------------------------------------------------------------------------
(***************************************************************************)
(* What a step may never do: the two action properties.                    *)
(***************************************************************************)

\* Only the ServerSync of a running session makes the state CONNECTED.
LEMMA ConnectedBySync ==
    ASSUME LiveInv, Next, transport'.state = "CONNECTED", transport.state # "CONNECTED"
    PROVE  Ready(transport) /\ transport'.again = transport.again
<1>1. ~Quiet
  BY DEF Quiet, Handled, Down
<1>2. CASE ReceiveSsl
  <2>1. run = "running" /\ ~transport.stopped /\ transport \in Fields
    BY <1>2 DEF ReceiveSsl, Fires, LiveInv, TypeOK
  <2>2. PICK b : b = (IF Head(inbox) = "SERVERSYNC" THEN [transport EXCEPT !.state = "CONNECTED"]
                      ELSE transport)
    OBVIOUS
  <2>3. b.again = transport.again
    BY <2>1, <2>2 DEF Fields
  <2> QED BY <1>2, <2>1, <2>2, <2>3, ReceiveSslHandled, FiresReady DEF Handled
<1>3. ~SslConnectHandler /\ ~SslHandshakeHandler
  <2>1. ASSUME SslConnectHandler \/ SslHandshakeHandler PROVE FALSE
    <3>1. LiveInv' /\ srv.stage = "none" /\ ~transport.stopped
      BY <2>1, SslConnectHandlerLives, SslHandshakeHandlerLives
         DEF SslConnectHandler, SslHandshakeHandler, Fires, LiveInv, Staged
    <3>2. srv' = srv \/ srv'.stage = "auth" \/ srv'.stage = "none"
      BY <2>1, <3>1 DEF SslConnectHandler, SslHandshakeHandler, LiveInv, TypeOK, Session
    <3> QED BY <3>1, <3>2 DEF LiveInv, LetIn
  <2> QED BY <2>1
<1>4. ~TransportConnect
  <2>1. ASSUME TransportConnect PROVE FALSE
    <3>1. LiveInv' /\ run' = "idle"
      BY <2>1, TransportConnectLives DEF TransportConnect
    <3> QED BY <3>1 DEF LiveInv, FirstUse
  <2> QED BY <2>1
<1>5. ~TransportRun /\ ~RunReturns /\ ~Server /\ ~TransportDisconnect
  <2>1. transport \in Fields
    BY DEF LiveInv, TypeOK
  <2>2. ~TransportRun
    <3> DEFINE used == transport.again \/ run # "idle" \/ transport.state = "FAILED"
    <3>1. [transport EXCEPT !.again = used].state = transport.state
      <4> HIDE DEF used
      <4> QED BY <2>1 DEF Fields
    <3> QED BY <3>1 DEF TransportRun
  <2>3. ~RunReturns /\ ~TransportDisconnect
    BY DEF RunReturns, TransportDisconnect, Absent, Fresh
  <2>4. ~Server
    BY DEF Server, ServerAuthenticates, ServerSyncs, ServerAnswersPing, ServerSends, PeerDies, Deliver
  <2> QED BY <2>2, <2>3, <2>4
<1>6. ~(AppSend \/ ReceiveSslError \/ ReceiveUdp \/ UdpSent \/ PingTimerTick)
  BY <1>1, AppSendQuiet, ReceiveSslErrorQuiet, ReceiveUdpQuiet, UdpSentQuiet, PingTimerTickQuiet
<1> QED BY <1>2, <1>3, <1>4, <1>5, <1>6 DEF Next, Application, Handlers

\* A late ServerSync never brings back a session that has failed or been closed.
THEOREM NoLateSession == Spec => ConnectedOnlyFromLogin
<1>1. LiveInv /\ [Next]_vars =>
        [transport'.state = "CONNECTED" /\ ~transport'.again =>
            transport.state \in {"IN_PROGRESS", "CONNECTED"}]_vars
  <2> SUFFICES ASSUME LiveInv, Next, transport'.state = "CONNECTED", ~transport'.again,
                      transport.state # "CONNECTED"
               PROVE  transport.state = "IN_PROGRESS"
    OBVIOUS
  <2>1. Ready(transport) /\ ~transport.again
    BY ConnectedBySync
  <2> QED BY <2>1 DEF Ready, Down, Fields, State
<1> QED BY <1>1, LiveInvariance, PTL DEF Spec, ConnectedOnlyFromLogin

\* Sending closes a session only as failed.
LEMMA SendCloses ==
    ASSUME NEW c \in Fields, NEW what \in Reactions, NEW ok \in BOOLEAN,
           c.state # "NOT_CONNECTED"
    PROVE  /\ SendSsl(c, ok).state # "NOT_CONNECTED"
           /\ Send(c, what, ok).state # "NOT_CONNECTED"
<1>1. SendSsl(c, ok).state # "NOT_CONNECTED"
  BY DEF SendSsl, Disconnect, Fields
<1>2. SendUdp(c).state # "NOT_CONNECTED"
  BY DEF SendUdp, Arm, Fields
<1> QED BY <1>1, <1>2 DEF Send

LEMMA ArmState == ASSUME NEW c \in Fields, NEW op PROVE Arm(c, op).state = c.state
BY DEF Arm, Fields

LEMMA ClosedByTick ==
    ASSUME LiveInv, PingTimerTick, transport.state = "CONNECTED",
           transport'.state = "NOT_CONNECTED"
    PROVE  transport.ping_state = "PING"
<1> SUFFICES ASSUME transport.ping_state # "PING" PROVE FALSE
  OBVIOUS
<1> DEFINE c == Completed("tick")
           p == [c EXCEPT !.ping_state = "PING"]
           e(d) == IF d.state = "NOT_CONNECTED" /\ d.ping_state = "PING" THEN Disconnect(d) ELSE d
<1>1. c \in Fields /\ c.ping_state # "PING" /\ c.state = "CONNECTED"
  BY CompletedFields DEF LiveInv, TypeOK, Operation
<1>2. PICK ok \in Writes, silent \in BOOLEAN : Returns(Arm(e(Ping(c, ok, silent)), "tick"))
  BY <1>1 DEF PingTimerTick, Due
<1> HIDE DEF c
<1>3. p \in Fields /\ p.state = "CONNECTED"
  BY <1>1 DEF Fields
<1> DEFINE s == SendSsl(p, ok)
           u == SendUdp(s)
<1>4. SendSslPing(c, ok) = s
  BY <1>1 DEF SendSslPing
<1> HIDE DEF p
<1>5. s \in Fields /\ s.state # "NOT_CONNECTED"
  BY <1>3, SendSslType, SendCloses, WritesType DEF Reactions
<1> HIDE DEF s
<1>6. u \in Fields /\ u.state # "NOT_CONNECTED"
  BY <1>5, ArmType, ArmState DEF SendUdp, Operation
<1>7. Ping(c, ok, silent) = [u EXCEPT !.fellBack = @ \/ (c.udpActive /\ silent)]
  BY <1>4 DEF Ping
<1>8. Ping(c, ok, silent) \in Fields
  BY <1>1, PingType, WritesType
<1>9. Ping(c, ok, silent).state # "NOT_CONNECTED"
  <2> HIDE DEF u
  <2> QED BY <1>6, <1>7 DEF Fields
<1>10. transport'.state = Ping(c, ok, silent).state
  BY <1>2, <1>8, <1>9, ArmState DEF Returns
<1> QED BY <1>9, <1>10

LEMMA ClosedByTimer ==
    ASSUME LiveInv, Next, run = "running", transport.state = "CONNECTED",
           transport'.state = "NOT_CONNECTED"
    PROVE  PingTimerTick
<1>1. transport \in Fields
  BY DEF LiveInv, TypeOK
<1>2. ~TransportConnect /\ ~TransportDisconnect /\ ~TransportRun /\ ~RunReturns /\ ~Server
  BY DEF TransportConnect, TransportDisconnect, TransportRun, RunReturns, Server,
         ServerAuthenticates, ServerSyncs, ServerAnswersPing, ServerSends, PeerDies, Deliver
<1>3. ~SslConnectHandler /\ ~SslHandshakeHandler
  BY DEF SslConnectHandler, SslHandshakeHandler, Fires, LiveInv, Held, Staged, LetIn
<1>4. ~AppSend
  BY <1>1, SendCloses, WritesType DEF AppSend, Returns
<1>5. ASSUME NEW op \in Operation
      PROVE  Completed(op) \in Fields /\ Completed(op).state = "CONNECTED"
  BY <1>1, CompletedFields
<1>6. ~ReceiveSslError
  BY DEF ReceiveSslError, Returns
<1>7. ~UdpSent
  BY <1>5 DEF UdpSent, Returns, Throws, Operation, Fields
<1>8. ASSUME NEW c \in Fields, NEW op \in Operation, NEW what \in Reactions, NEW ok \in Writes,
             c.state = "CONNECTED"
      PROVE  /\ transport' # Arm(Send(c, what, ok), op) /\ transport' # Arm(c, op)
             /\ transport' # Arm(SendUdp(c), op) /\ ~Throws(c) /\ ~Escapes(c)
  <2>1. Arm(Send(c, what, ok), op).state # "NOT_CONNECTED" /\ Arm(c, op).state = "CONNECTED"
    BY <1>8, SendType, SendCloses, ArmState, WritesType
  <2>2. Arm(SendUdp(c), op).state = "CONNECTED"
    BY <1>8, ArmType, ArmState DEF SendUdp, Operation
  <2> QED BY <2>1, <2>2, <1>8 DEF Throws, Escapes, Fields
<1>9. ~ReceiveUdp
  <2> DEFINE c == Completed("udpRead")
             heard == [c EXCEPT !.udpActive = TRUE, !.fellBack = FALSE]
  <2>1. c \in Fields /\ c.state = "CONNECTED"
    BY <1>5 DEF Operation
  <2>2. heard \in Fields /\ heard.state = "CONNECTED"
    <3> HIDE DEF c
    <3> QED BY <2>1 DEF Fields
  <2>3. TRUE \in Writes /\ "nothing" \in Reactions /\ "udpRead" \in Operation
    BY DEF Writes, Reactions, Operation
  <2>4. ReceiveUdp =>
            \/ Throws(c) \/ Throws(heard) \/ Escapes(heard)
            \/ \E what \in Reactions, ok \in Writes : Returns(Arm(Send(heard, what, ok), "udpRead"))
    BY DEF ReceiveUdp
  <2> HIDE DEF c, heard
  <2> QED BY <2>1, <2>2, <2>3, <2>4, <1>8 DEF Returns
<1>10. ~ReceiveSsl
  <2> DEFINE c == Completed("sslRead")
             a == [c EXCEPT !.ping_state = "PONG"]
             k == [c EXCEPT !.crypt = TRUE]
             s == [c EXCEPT !.state = "CONNECTED"]
  <2>1. c \in Fields /\ c.state = "CONNECTED"
    BY <1>5 DEF Operation
  <2>2. /\ a \in Fields /\ a.state = "CONNECTED" /\ k \in Fields /\ k.state = "CONNECTED"
        /\ s \in Fields /\ s.state = "CONNECTED"
    <3> HIDE DEF c
    <3> QED BY <2>1 DEF Fields, State
  <2>3. TRUE \in Writes /\ "nothing" \in Reactions /\ "sslRead" \in Operation
    BY DEF Writes, Reactions, Operation
  <2>4. ReceiveSsl =>
            \/ Returns(Arm(a, "sslRead")) \/ Returns(Arm(SendUdp(k), "sslRead"))
            \/ \E what \in Reactions, ok \in Writes : Returns(Arm(Send(s, what, ok), "sslRead"))
            \/ \E what \in Reactions, ok \in Writes : Returns(Arm(Send(c, what, ok), "sslRead"))
            \/ Throws(c) \/ Escapes(c)
    BY DEF ReceiveSsl
  <2> HIDE DEF c, a, k, s
  <2> QED BY <2>1, <2>2, <2>3, <2>4, <1>8 DEF Returns
<1> QED BY <1>2, <1>3, <1>4, <1>6, <1>7, <1>9, <1>10 DEF Next, Application, Handlers

\* The timer closes a session only when the server has gone or owes a reply.
THEOREM TimerClosesLost == Spec => TimeoutOnlyWhenLost
<1>1. LiveInv /\ [Next]_vars =>
        [run = "running" /\ transport.state = "CONNECTED" /\ transport'.state = "NOT_CONNECTED"
            => peer = "gone" \/ PingUnanswered]_vars
  <2> SUFFICES ASSUME LiveInv, Next, run = "running", transport.state = "CONNECTED",
                      transport'.state = "NOT_CONNECTED"
               PROVE  peer = "gone" \/ PingUnanswered
    OBVIOUS
  <2>1. transport.ping_state = "PING"
    BY ClosedByTimer, ClosedByTick
  <2> QED BY <2>1 DEF LiveInv, Held, Staged
<1> QED BY <1>1, LiveInvariance, PTL DEF Spec, TimeoutOnlyWhenLost
=============================================================================
