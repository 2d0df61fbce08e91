---------------------------- MODULE AudioPacket -----------------------------
(***************************************************************************)
(* mumlib2::AudioPacket, the format of voice packets: what Encode writes   *)
(* and what Decode makes of the bytes it is given.                         *)
(*                                                                         *)
(* A client sends a packet without a session number, the server puts the   *)
(* speaker's behind the header: Encode writes the first form, Decode reads *)
(* the second.  Decode takes a buffer and the length of the packet in it;  *)
(* what lies behind the packet is whatever the buffer held before.         *)
(***************************************************************************)
EXTENDS VarInt

Types == <<"CeltAlpha", "Ping", "Speex", "CeltBeta", "Opus", "type5", "type6", "type7">>

LastMask == 8192

\* The header byte: three bits of type (numbered as in Types), five of target.
Header(type, target) == 32 * ((CHOOSE k \in 1 .. 8 : Types[k] = type) - 1) + (target % 32)

\* The uint16_t in front of the payload: its length, and the mark of the last
\* packet.
OpusHeader(len, last) ==
    LET n == len % 65536 IN IF last /\ (n \div LastMask) % 2 = 0 THEN n + LastMask ELSE n

\* Encode of CreateAudioOpusPacket.
EncodeOpus(target, seq, payload, last) ==
    <<Header("Opus", target)>> \o Encode(seq) \o Encode(Number(OpusHeader(Len(payload), last))) \o payload

\* Encode of CreatePingPacket.
EncodePing(timestamp) == <<Header("Ping", 0)>> \o Encode(timestamp)

-----------------------------------------------------------------------------
\* The buffer from one position on, as far as a VarInt reaches.
At(buf, pos) == SubSeq(buf, pos, pos + 8)

\* The fields an AudioPacket starts with.
Blank(type, target) ==
    [type |-> type, target |-> target, session |-> Number(0), seq |-> Number(0),
     last |-> FALSE, payload |-> <<>>, timestamp |-> Number(0)]

\* What Decode throws.
Refused == [type |-> "refused"]

\* The number in front of the payload: the mark of the last packet, and the length.
IsLast(v) == ((v[7] \div 32) % 2) = 1

\* Mutant: the length is taken for a byte.
LengthOfByte(v) == v[8]

LengthOf(v) == (v[7] % 32) * 256 + v[8]

\* parse_audio: session and sequence number, and for Opus the payload, which must
\* end where the packet does.
ParseAudio(packet, buf, length) ==
    LET s    == Parse(At(buf, 2))
        q    == Parse(At(buf, 2 + s.size))
        h    == Parse(At(buf, 2 + s.size + q.size))
        pos  == 2 + s.size + q.size + h.size
        len  == LengthOf(h.val)
        named == [packet EXCEPT !.session = s.val, !.seq = q.val]
    IN  IF s.size = 0 \/ q.size = 0 THEN Refused
        ELSE IF packet.type # "Opus" THEN named
        ELSE IF h.size = 0 \/ pos + len # length + 1 THEN Refused
        ELSE [named EXCEPT !.last = IsLast(h.val), !.payload = SubSeq(buf, pos, pos + len - 1)]

\* parse_ping: the length is not looked at.
ParsePing(packet, buf) ==
    LET t == Parse(At(buf, 2)) IN IF t.size = 0 THEN Refused ELSE [packet EXCEPT !.timestamp = t.val]

\* Decode.
Decode(buf, length) ==
    LET packet == Blank(Types[buf[1] \div 32 + 1], buf[1] % 32)
    IN  CASE packet.type \in {"CeltAlpha", "Speex", "CeltBeta", "Opus"} -> ParseAudio(packet, buf, length)
          [] packet.type = "Ping" -> ParsePing(packet, buf)
          [] OTHER                -> packet
=============================================================================
