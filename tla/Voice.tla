------------------------------- MODULE Voice --------------------------------
(***************************************************************************)
(* Speech from one client to another: AudioSendTarget and the AudioEncoder *)
(* of each speaker, the server that puts the speaker's session into the    *)
(* packet, a network that loses and reorders, and the listener's           *)
(* AudioPacket::Decode with processAudioPacket behind it.                  *)
(*                                                                         *)
(* Opus itself is left out: a frame of so many samples becomes a payload   *)
(* of so many bytes (the encoder runs at a constant bit rate), all of them *)
(* the number of the frame, as a byte. The bytes of a packet are real, so  *)
(* are the bytes that lie behind it in the listener's buffer. The          *)
(* connection is up; what its loss does is in module Transport, what the   *)
(* datagrams are wrapped in is in CryptState.                              *)
(***************************************************************************)
EXTENDS AudioPacket, FiniteSets

CONSTANTS
    Speakers,    \* the session numbers of the speakers
    Positional,  \* those whose client, another program, attaches a position
    PayloadOf,   \* samples of a frame -> bytes of its payload
    Targets,     \* the voice targets in use
    Bursts,      \* how many 60 ms frames may go unheard at a time
    Codecs,      \* the types of other packets that other clients send
    Stale,       \* what may lie behind a packet in the buffer
    Timestamps,  \* the clock at a ping
    MaxSaid,     \* bound: packets put on the way to the listener
    MaxPauses,   \* bound: pauses of all speakers
    MaxBursts    \* bound: bursts of all speakers

\* The protocol's session numbers are uint32_t.
ASSUME SpeakerAssumption == (\A s \in Speakers : UInt32(s)) /\ Positional \subseteq Speakers

\* A payload has a length, and it fits beside the mark of the last packet.
ASSUME FrameAssumption ==
    /\ DOMAIN PayloadOf \subseteq Nat /\ Bursts \subseteq Nat
    /\ \A n \in DOMAIN PayloadOf : PayloadOf[n] \in 1 .. LastMask - 1

\* A target fits the header; other packets are of the types that have audio.
ASSUME PacketAssumption == Targets \subseteq 0 .. 31 /\ Codecs \subseteq {"CeltAlpha", "Speex", "CeltBeta"}

\* The clock is a time_t that is not negative.
ASSUME ClockAssumption == \A t \in Timestamps : t \in Nat /\ ~Negative(Number(t))

\* The buffer is not so full that the longest VarInt would end behind it.
ASSUME BufferAssumption == \A rest \in Stale : rest \in Seq(Byte) /\ Len(rest) >= 8

VARIABLES
    encoder,  \* speaker -> its AudioEncoder
    muted,    \* the speakers the listener has muted
    onWay,    \* the packets on the way to the listener
    said,     \* history: what was put on the way
    decoded,  \* what the listener has decoded last, and from which of said
    heard,    \* the last callback for a packet
    over,     \* the listener's run() has ended with an exception
    pauses, bursts

vars == <<encoder, muted, onWay, said, decoded, heard, over, pauses, bursts>>

None == [index |-> 0]

\* What a packet on the way is: what its sender meant by it, and its bytes.
Said == [kind : {"opus", "ping", "other"}, speaker : Speakers \cup {0}, spurt : Nat, samples : Nat,
         fields : [target : Nat, seq : Nat, last : BOOLEAN, number : Nat], bytes : Seq(Byte)]

Encoder == [sequence_number : Nat, silent : BOOLEAN, spurt : Nat]

\* The type invariant.  A packet that was decoded without an exception has numbers of
\* 64 bits; those the callback is given have 32.
TypeOK ==
    /\ encoder \in [Speakers -> Encoder]
    /\ muted \subseteq Speakers
    /\ said \in Seq(Said) /\ onWay \subseteq DOMAIN said
    /\ decoded # None /\ decoded.packet # Refused =>
          /\ decoded.packet.session \in Int64
          /\ decoded.packet.seq \in Int64
          /\ decoded.packet.timestamp \in Int64
    /\ heard # None => Int32(heard.session) /\ Int32(heard.seq)
    /\ over \in BOOLEAN

Init ==
    /\ encoder = [s \in Speakers |-> [sequence_number |-> 0, silent |-> TRUE, spurt |-> 0]]
    /\ muted = {} /\ onWay = {} /\ said = <<>> /\ over = FALSE
    /\ decoded = None /\ heard = None
    /\ pauses = 0 /\ bursts = 0

-----------------------------------------------------------------------------
(* The speakers. *)

\* The encoder as Encode finds it: after a silence of five seconds it is reset.
Ready(e) ==
    IF e.silent THEN [sequence_number |-> 0, silent |-> FALSE, spurt |-> e.spurt + 1] ELSE e

\* Mutant: the sequence number counts seconds.
AdvancedCoarse(e, samples) == [e EXCEPT !.sequence_number = @ + 100 * (samples \div 48000)]

\* The encoder as Encode leaves it: one sequence number for every 10 ms.
Advanced(e, samples) == [e EXCEPT !.sequence_number = @ + (100 * samples) \div 48000]

\* The server: the session goes behind the header, the target becomes what it
\* means to the listener (a whisper is 2), a position is passed on.
Relayed(bytes, s) ==
    <<IF bytes[1] % 32 = 0 THEN bytes[1] ELSE bytes[1] - (bytes[1] % 32) + 2>>
      \o Encode(Number(s)) \o Tail(bytes)
      \o (IF s \in Positional THEN [i \in 1 .. 12 |-> 0] ELSE <<>>)

PutOnWay(m) ==
    /\ Len(said) < MaxSaid
    /\ said' = Append(said, m)
    /\ onWay' = onWay \cup {Len(said) + 1}

\* AudioSendTarget of one frame, a packet that reaches the server.  Bound: no speaker
\* goes on until its sequence number, a uint32_t, wraps (497 days without a pause).
AudioSendTarget(s) == \E samples \in DOMAIN PayloadOf, target \in Targets :
    LET e       == Ready(encoder[s])
        number  == (Len(said) + 1) % 256
        payload == [i \in 1 .. PayloadOf[samples] |-> number]
        bytes   == EncodeOpus(target, Number(e.sequence_number), payload, FALSE)
    IN  /\ UInt32(Advanced(e, samples).sequence_number)
        /\ encoder' = [encoder EXCEPT ![s] = Advanced(e, samples)]
        /\ PutOnWay([kind |-> "opus", speaker |-> s, spurt |-> e.spurt, samples |-> samples,
                     fields |-> [target |-> target, seq |-> e.sequence_number, last |-> FALSE, number |-> number],
                     bytes |-> Relayed(bytes, s)])
        /\ UNCHANGED <<muted, decoded, heard, over, pauses, bursts>>

\* The encoder after n more frames of 60 ms.
Passed(e, n) ==
    [e EXCEPT !.sequence_number = @ + n * (Advanced(e, 2880).sequence_number - e.sequence_number)]

\* Several frames of 60 ms whose packets the network loses.
Unheard(s) == \E n \in Bursts :
    LET e == Passed(Ready(encoder[s]), n)
    IN  /\ bursts < MaxBursts /\ UInt32(e.sequence_number)
        /\ bursts' = bursts + 1
        /\ encoder' = [encoder EXCEPT ![s] = e]
        /\ UNCHANGED <<muted, onWay, said, decoded, heard, over, pauses>>

\* Mutant: the time is noted before the frame is encoded.
AfterFailureNoted(e) == IF e.silent THEN [e EXCEPT !.sequence_number = 0, !.silent = FALSE] ELSE e

\* The encoder when opus_encode has failed: Encode throws after the reset and
\* before it notes the time, so the next frame resets it again.
AfterFailure(e) == IF e.silent THEN [e EXCEPT !.sequence_number = 0] ELSE e

\* AudioSendTarget of a frame Opus refuses, of a length it does not have.
EncodeFails(s) ==
    /\ encoder' = [encoder EXCEPT ![s] = AfterFailure(@)]
    /\ UNCHANGED <<muted, onWay, said, decoded, heard, over, pauses, bursts>>

\* More than five seconds go by after the speaker's last frame.
Pause(s) ==
    /\ pauses < MaxPauses /\ ~encoder[s].silent
    /\ pauses' = pauses + 1
    /\ encoder' = [encoder EXCEPT ![s].silent = TRUE]
    /\ UNCHANGED <<muted, onWay, said, decoded, heard, over, bursts>>

\* A packet that is not Opus, from another client.
OtherSpeech(s) == \E type \in Codecs, seq \in {0, 200} :
    /\ PutOnWay([kind |-> "other", speaker |-> s, spurt |-> 0, samples |-> 0,
                 fields |-> [target |-> 0, seq |-> seq, last |-> FALSE, number |-> 0],
                 bytes |-> <<Header(type, 0)>> \o Encode(Number(s)) \o Encode(Number(seq)) \o <<2, 0, 0>>])
    /\ UNCHANGED <<encoder, muted, decoded, heard, over, pauses, bursts>>

\* The listener's sendUdpPing, which the server sends back as it is.
Ping == \E t \in Timestamps :
    /\ ~over
    /\ PutOnWay([kind |-> "ping", speaker |-> 0, spurt |-> 0, samples |-> 0,
                 fields |-> [target |-> 0, seq |-> t, last |-> FALSE, number |-> 0],
                 bytes |-> EncodePing(Number(t))])
    /\ UNCHANGED <<encoder, muted, decoded, heard, over, pauses, bursts>>

-----------------------------------------------------------------------------
(* The listener. *)

UserMute(s) ==
    /\ muted' = IF s \in muted THEN muted \ {s} ELSE muted \cup {s}
    /\ UNCHANGED <<encoder, onWay, said, decoded, heard, over, pauses, bursts>>

\* The int an int64_t becomes as an argument: its lower four bytes, in two's complement.
ToInt(v) ==
    (IF v[5] >= 128 THEN v[5] - 256 ELSE v[5]) * 16777216 + v[6] * 65536 + v[7] * 256 + v[8]

UserMuted(user_id) == \E s \in muted : user_id = ToInt(Number(s))

\* processAudioPacket: the callback that is called, none for a muted speaker and for
\* a ping.  The packet's numbers have 64 bits, the arguments of the callback are ints.
ProcessAudioPacket(index, p) ==
    IF UserMuted(ToInt(p.session)) \/ p.type = "Ping"
      THEN UNCHANGED heard
      ELSE heard' = [index |-> index, callback |-> IF p.type = "Opus" THEN "audio" ELSE "unsupportedAudio",
                     target |-> p.target, session |-> ToInt(p.session), seq |-> ToInt(p.seq),
                     last |-> p.last, payload |-> p.payload]

\* The datagram, once decrypted, or the UDPTunnel message is decoded where it lies; an
\* exception ends run().  A packet is received at most once; one that is lost stays on
\* the way.
Receive(i) == \E rest \in Stale :
    LET p == Decode(said[i].bytes \o rest, Len(said[i].bytes))
    IN  /\ ~over
        /\ onWay' = onWay \ {i}
        /\ decoded' = [index |-> i, packet |-> p]
        /\ over' = (p = Refused)
        /\ IF p = Refused THEN UNCHANGED heard ELSE ProcessAudioPacket(i, p)
        /\ UNCHANGED <<encoder, muted, said, pauses, bursts>>

Next ==
    \/ \E s \in Speakers :
          \/ AudioSendTarget(s) \/ EncodeFails(s) \/ Unheard(s)
          \/ Pause(s) \/ OtherSpeech(s)
          \/ UserMute(s)
    \/ Ping
    \/ \E i \in onWay : Receive(i)

Spec == Init /\ [][Next]_vars

-----------------------------------------------------------------------------
(* Properties. *)

\* What the callback is given is what the speaker said: the session, the sequence
\* number, the payload and whether it was a whisper, wherever the VarInts change their
\* width and whatever lay behind the packet in the buffer.  Of a packet that is not
\* Opus the callback learns the session and the sequence number (encode, relay, decode
\* and processAudioPacket together).  A session or sequence number from 2^31 on is
\* excepted: the protocol has it, the callback's int does not.
HeardAsSaid ==
    heard # None =>
        LET m == said[heard.index]
        IN  CASE m.kind = "opus" ->
                   /\ heard.callback = "audio"
                   /\ heard.target = (IF m.fields.target = 0 THEN 0 ELSE 2)
                   /\ Int32(m.speaker) => heard.session = m.speaker
                   /\ Int32(m.fields.seq) => heard.seq = m.fields.seq
                   /\ heard.last = m.fields.last
                   /\ heard.payload = [i \in 1 .. PayloadOf[m.samples] |-> m.fields.number]
              [] m.kind = "other" ->
                   /\ heard.callback = "unsupportedAudio"
                   /\ Int32(m.speaker) => heard.session = m.speaker
                   /\ Int32(m.fields.seq) => heard.seq = m.fields.seq
              [] m.kind = "ping" -> FALSE

\* The check of the length never refuses, and so ends the session over, a packet of
\* this library or one in another codec: only one with a position, which parse_audio
\* reads and does not step over.
RefusedOnlyPositional == over => said[decoded.index].speaker \in Positional

\* A ping comes back with the timestamp it was sent with, in the nine-byte form that
\* the clock has needed since 1978, and it is taken for a ping.
PingEchoed ==
    decoded # None =>
        LET m == said[decoded.index]
        IN  m.kind = "ping" => /\ decoded.packet # Refused
                               /\ decoded.packet.type = "Ping"
                               /\ decoded.packet.timestamp = Number(m.fields.seq)

\* Within a spurt of speech the sequence numbers put the packets in the order they
\* were said in, also when some are lost, and two packets have the same number only
\* when the first is a frame of less than 10 ms (Encode's counting in whole units of
\* 10 ms, and its reset after a silence, a failed frame at its end included).
SpurtOrdered ==
    \A i, j \in DOMAIN said :
        LET m == said[i] n == said[j]
        IN  /\ i < j /\ m.kind = "opus" /\ n.kind = "opus"
            /\ m.speaker = n.speaker /\ m.spurt = n.spurt
            => /\ m.fields.seq <= n.fields.seq
               /\ m.samples >= 480 => m.fields.seq < n.fields.seq
=============================================================================
