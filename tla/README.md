# A TLA+ model of mumlib2

mumlib2 is a client library for Mumble: it logs in to a voice server over TLS,
keeps a picture of the server's users and channels, and exchanges voice
datagrams over an encrypted UDP channel with the TLS connection as a second way.
This directory holds TLA+ modules of its core logic, TLC configurations that
check them on small instances, and TLAPS proofs of the properties that matter
most.  Source paths are relative to the repository, `src/` in `PROJECT.json`.

## The system

| Component | State it keeps | Operations | Talks to | Hard about it |
|---|---|---|---|---|
| `Transport` (`src/Transport.cpp`) | connection state, ping state, `udpActive`, sockets, event loop, timer | `connect`, `run`, `disconnect`, seven completion handlers, sends | the server over TLS and UDP; `CryptState`; two callbacks into `Mumlib2Private` | handlers interleave freely; every one can throw out of `run()`, fail half way, or fire late |
| `CryptState` (`src/crypto_state.cpp`) | key, two 16-byte nonces, a 256-entry history, counters | `setKey`, `encrypt`, `decrypt` | called by `Transport` | datagrams lost, repeated, reordered; a nonce rebuilt from one byte; changes of key |
| `Mumlib2Private`, connection | the `Transport` object or none | `TransportConnect`, `TransportRun`, `TransportDisconnect` | creates, resets and destroys the transport | an object whose loop was stopped cannot be used again |
| Framing: `Transport::doReceiveSsl`, `sendSsl` | the buffer of one message | the completion condition of a composed read | between the TLS stream and the message handlers | a message comes in any pieces; one byte too many is lost |
| `Mumlib2Private`, roster | users, channels, own session and channel | one handler per control message, `UserMute`, `generalClear` | fed by `Transport`; read by the application | partial messages; order of the login; session numbers given out again |
| `Mumlib2Private` and `Mumlib2`, requests | none | `ChannelJoin`, `UserSendState`, `TextSend` | send through `Transport`; look at the roster | the roster is old when the server reads the request |
| `Mumlib2Private`, voice targets | one accumulating message | `VoicetargetSet` | sends through `Transport` | what one call leaves behind for the next |
| Voice path: `AudioEncoder`, `AudioPacket`, `VarInt` | sequence number | encode, decode | between callbacks and `Transport` | widths, lengths, failures half way |
| `AudioDecoder` | one Opus decoder per speaker | `Process` and the cleanup in it | called by `Mumlib2Private`, outlives the connection | whose decoder, how old, and failures that look like success |
| `Logger`, `SslContextHelper`, `Callback`, protocol messages, example | none that changes | one call each | | |

What makes each correct: the transport never leaves a session half open (the
application would wait for ever) or half closed (it would send into nothing),
never encrypts without a key, and notices a lost server; the cipher opens every
datagram at most once and refuses no fresh one; the framing gives the handlers the
messages that were sent; the roster is the server's; a request means for the server
what it meant for the application; what is heard is what was said.

## Modules

| Module | Models | Lines it is translated from |
|---|---|---|
| `ReplayWindow` | what the datagram cipher promises: each datagram at most once, inside a window | abstract |
| `CryptState` | both ends of the datagram channel, a network that loses, repeats and reorders | `src/crypto_state.cpp` |
| `CryptStateProofs` | at most once, for every width and window; that `CryptState` implements `ReplayWindow` | |
| `CryptLossProofs` | the count of lost datagrams; that fresh ones are opened | |
| `Transport` | the transport, the entry points that own it, its server and application | `src/Transport.cpp`, part of `src/mumlib2_private.cpp` |
| `TransportProofs` | types, no datagram before the key, and all its safety properties | |
| `MessageQueue` | what the control connection promises: whole messages in order, until the reading ends | abstract |
| `SslStream` | the framing of the control connection, on bytes, and its server | part of `src/Transport.cpp` |
| `SslStreamProofs` | that no byte is read with the wrong message; that `SslStream` implements `MessageQueue` | |
| `Roster` | users, channels, own session and channel; the server that reports them | part of `src/mumlib2_private.cpp` |
| `Requests` | `Roster` with the requests of the application and the server that reads them | part of `src/mumlib2_private.cpp`, `src/mumlib2.cpp` |
| `RosterProofs` | types, users, channels, the client's own, names and mutes, with requests and any server | |
| `VoiceTarget` | the receivers of whispers, at the client and at the server, over many sessions | part of `src/mumlib2_private.cpp` |
| `VoiceTargetProofs` | types, and whom a whisper reaches | |
| `VarInt` | the number format of voice packets, on the bytes of an `int64_t` | `src/VarInt.cpp` |
| `AudioPacket` | the voice packet format, on bytes | `src/audio_packet.cpp` |
| `Voice` | speech from the encoder of one client to the callback of another | `src/audio_encoder.cpp`, part of `src/mumlib2_private.cpp` and `src/Transport.cpp` |
| `VoiceProofs` | that what is read is what was meant, from the VarInts to the callback | |
| `Decoder` | the Opus decoders of the speakers | `src/audio_decoder.cpp`, `src/audio_decoder_session.cpp` |
| `DecoderProofs` | types, what a decoder has gone through, and that none is kept too long | |
| `MCCryptState`, `MCTransport`, `MCSslStream`, `MCRoster`, `MCRequests`, `MCVoiceTarget`, `MCVoice`, `MCDecoder` | values for the constants of the runs | |

How they fit together: `SslStream` implements `MessageQueue`, and a queue of messages
is what `Transport`, `Roster` and `Requests` take the control connection to be.
`Requests` extends `Roster`; both look at one session at a time, whose life is
`Transport`'s.  What `CryptState` refuses is the datagram `repeat` or `stray` of
`Transport`; what `AudioPacket` refuses is its `undecodable`.  `Voice` begins and ends
where a packet is handed to, and comes from, `Transport`; the payloads that reach its
callback go through `Decoder`.

Operators whose comment starts with "Mutant" are not part of any
specification.  Each is a definition with a plausible mistake in it; put in the
place of the definition that follows it, it must make the property named in
`PROJECT.json` fail.

### CryptState

The nonce is kept as the byte that travels (`lo`) and the fifteen others as one
number (`hi`), so that the carry loops over the bytes are an increment and a
decrement of `hi`.  `hi` does not wrap at 2^120.  A datagram is the key number
and nonce that seal it.  The cipher is taken to be ideal: `TagMatches` holds
exactly for the key and nonce it was sealed with.  (The code compares three
bytes of the tag, so a wrong nonce passes once in 2^24 times.)

One end encrypts (`Setup`, `Encrypt`), the other decrypts (`SetKey`, `Decrypt`),
which has a disjunct for each way through `CryptState::decrypt`: in order, late,
ahead, and its four exits with `false`, all of which put the nonce back.
Datagrams are never removed from `sent`, so each can be delivered any number of
times, in any order, or never.  `accepted` is a history variable.

`Window` is the refinement mapping: the nonce as a number stands for the abstract
sequence number, and `ImplementsWindow` says that every step of the code is a step
of `ReplayWindow` or changes nothing there.

### Transport

`transport` holds the fields of the object; `pending` is the set of asynchronous
operations that have been started and not completed, which is what decides which
handlers can run.  A handler is one action, from the completion to its return or
to the exception that leaves `run()`; `run` records where the application is:
`idle` after `connect`, `running`, or out of it by a return, a
`TransportException` or another exception.  `Disconnect` stops the event loop;
nothing in the code restarts it, so `stopped` never goes back.

Functions of the record (`SendSsl`, `SendSslPing`, `Send`, `Ping`) are composed in
the order of the code: a write that fails in the middle of a handler disconnects
and the handler goes on, as it does in `sslHandshakeHandler` and `pingTimerTick`.

The messages on their way are a queue of kinds.  REJECT stands for every refused
login; NONCE for a CryptSetup without all three parts; OVERSIZED for a message
beyond the buffer; UNKNOWN for a type `processControlPacket` does not know;
UNDECODABLE for a tunnelled voice packet that does not parse; CONTROL for all
that is handed on.  Datagrams are `audio`, `repeat` (refused by the cipher),
`stray` (not of this session, or too short), `undecodable`, `error` (a failure of
the socket).  From a callback, and between two handlers, the application may send
(`Reactions`).

Time is not measured: the timer can fire at any moment and twice in a row.  It
does so in the code too, because the next deadline is the previous one plus the
interval (line 280) and a blocking write or a callback may take longer than that.

The application may use the object in any way: connect it again, call `run()` again
after an exception or after it has returned, throw it away.  `again`, a field of the
history, is set once it has connected or run an object whose `run()` was over;
properties that hold only for an application that makes a new object each time, as
the example does, have `~transport.again` as a condition.

A read of the TLS stream that fails leaves everything as it is (`ReceiveSslError`): the
completion condition (lines 315 to 332) does not look at the error it is given, so the
read is started again, and the branch of the handler that reports a failure (348 to
353) is not reached.  A failed read of a datagram does end the session.

What is not in it: `disconnect()` called from a callback, which destroys the event
loop that is running (undefined behaviour); calls from other threads; the bytes of
a message, which are `SslStream`'s; the check of a datagram's size (lines 285 to 287),
which no frame of the encoder, at its constant bit rate, can fail.

### SslStream and MessageQueue

The control connection as a stream of bytes.  The server writes frames; `ReadSome`
takes one piece of any length the completion condition of `doReceiveSsl` allows, and
what that condition says next is `Remaining`, with its subtraction in a `size_t`.  A
whole message is processed, and unless that throws the next read starts at the
beginning of the buffer, so a byte taken too many would be gone.  A message beyond the
buffer and an exception end the reading for good.  The end of the stream does not:
`ReadFails` is the piece that fails, after which the condition asks for the same again.

`MessageQueue` is the same connection as the layers above see it: messages are received
in order, or one is refused (`Refuse`) and the reading is over; `Queue` is the
refinement mapping (the messages sent and not yet processed), and `ImplementsQueue` the
property.

### Roster

The server's users and channels are variables of their own, and the control
connection is a queue.  `TransportConnect` fills it with what a server sends at
login: all channels, all users with the client's own among them, ServerSync.
Later reports name only what has changed; an absent name is `NoName`, an absent
channel `NoId`, the -1 of the code.  `Changes` selects the kinds of change a run
looks at.  `asked`, a history variable, holds the present users the application
has muted; `had`, in the server's users, the names a user has had since the connection
began or, if it came later, since it came.

The client knows a connection is lost only through `Transport`; here
`TransportLost` leaves the roster as it is and the next `TransportConnect` clears
it.  That in the code the next connection needs a `disconnect()` first (see below)
makes no difference to the roster, since both clear it.

### Requests

`Requests` adds the other direction: the application's calls, each with the check the
code makes of it against the roster, the drop of whatever is sent before the state is
CONNECTED (`TransportSendControl`), and the server that reads a request later and
reports the change to all.  `been` is history: the channels the client's user has been
in during its session.  A name is looked up as in `ChannelFind`, the first channel in
order of arrival.

### VoiceTarget

`voiceTarget` is the member `_voiceTarget`, which every call adds a target to and no
one clears.  A call by number (`VoicetargetSet`) does not look at the roster, one by
name does; either adds its target before `sendControlMessage` may drop the message.
`calls`, `lastRead` and `since` are history: all calls, the last one for each id whose
message the server has read in this session, and how many there were when it began.

### VarInt, AudioPacket and Voice

`VarInt` and `AudioPacket` are operators on sequences of bytes.  A 64-bit number is
the tuple of its bytes, so the widths of the code are exact; the four short forms of
`VarInt::Encode` and `parse` are one formula with a table (`Mark`, `Room`), the two
long ones are `Swapped32` and `Swapped64`.  `Decode` is given a buffer and a length,
as the code is, and may read what lies behind the packet.

`Voice` puts them to use.  A speaker's `AudioSendTarget` is one action: the encoder's
reset if it was silent, the packet, the advance of the sequence number, the server's
insertion of the session number (`Relayed`).  `Unheard` is a run of such calls whose
packets are lost: that is how a sequence number next to 2^28 is reached in one step.
Neither is taken past the last number a `uint32_t` holds (`UInt32`), which a speaker
reaches after 497 days without a pause.  A speaker may have any session number that
fits 32 bits, and the bytes of a payload are the number of its packet, modulo 256.
The callback's parameters are ints, and so is the number a mute is looked up under:
`ToInt` is that narrowing, and a session or sequence number from 2^31 on comes out of it
negative.
The packets on the way are a set; one is received at most once (the cipher and the
TLS stream see to that) and in any order, by `Receive`, which is `Decode` and
`processAudioPacket`.  Speakers in `Positional` have another client, one that sends
positions; `OtherSpeech` is a packet in another codec.  `EncodeFails` is a frame Opus
refuses, which leaves the encoder half reset.

Not in it: Opus (a frame is a length); the connection, which is `Transport`'s; what
`AudioDecoder` does with a payload, which is `Decoder`'s.

### Decoder

The state of an Opus decoder is the set of packets that have gone through it since it
was made or reset: enough to tell whose decoder a packet meets and with how much of
what was said before.  `Process` is one packet from `AudioDecoder::Process` to the
callback: the cleanup of all sessions, the lookup or creation, the decoding, whose
result may be negative and is kept in a `size_t` (`AsSize`), the reset after the last
packet, the time.  The clock is a small number; five minutes are `Timeout`.

## Runs

| Run | Checks | Bounds |
|---|---|---|
| `crypt_datagrams` | `TypeOK`, `NoReplay`, `WindowRemembered`, `LostExact`, `FreshAccepted`, `ImplementsWindow` | a byte of 8 values, reach 4, late window 3, 10 datagrams, 2 keys |
| `transport_session` | `TypeOK`, `KeyedVoice`, `Listening`, `DownMeansOver`, `RunEndsDown`, `ConnectedIsLive`, `ConnectedOnlyFromLogin`, `TimeoutOnlyWhenLost`, `LossDetected`, `LoginCompletes` | 3 messages in flight, any use of the object |
| `stream_frames` | `TypeOK`, `StreamIsInbox`, `EndsForAReason`, `ImplementsQueue`, `AllReceived` | a byte of 2 values, a buffer of 12 bytes, 3 messages |
| `roster_requests` | `TypeOK`, `UsersTracked`, `ChannelsTracked`, `MutesTracked`, `NamesKnown`, `LocationsKnown`, `OwnChannelKnown`, `TextWhereBeen` | 2 sessions, 2 channels, 2 names of users, each user renamed at most once in a session (`MaxNames`), 2 messages beyond the login, 1 request in flight |
| `voice_targets` | `TypeOK`, `TargetsReached` | 2 ids, 2 targets, 4 calls, any number of sessions |
| `voice_packets` | `TypeOK`, `HeardAsSaid`, `RefusedOnlyPositional`, `PingEchoed`, `SpurtOrdered` | 2 speakers, 2 packets that reach the server, 1 pause and 1 lost burst, 3 frame lengths |
| `decoder_sessions` | `TypeOK`, `DecoderRemembersSpurt`, `IdleDropped` | 2 speakers, 4 packets, a clock to 4, a limit of 1 |
| `transport_fallback` | `FallsBackToTcp`, violated | |
| `roster_login_channel` | `OwnChannelTracked`, violated | |
| `roster_rename` | `RecordsTracked`, violated | |
| `voice_targets_mixed` | `TargetsAsAsked`, violated | 2 calls |
| `decoder_failure` | `FailureThrows`, violated | |

Why the bounds are enough.

* `crypt_datagrams`: with 8 values and 10 datagrams from a nonce two below a carry, the
  byte wraps twice and two slots of the history are used again; the late window of 3
  reaches back across each wrap; gaps up to the reach of 4 and beyond it occur.
* `transport_session`: three messages in flight hold the CryptSetup, the ServerSync and
  one more, or a ping reply behind any two others; the handlers look only at the first.
  An object lives through any number of connects and of calls of `run()`.
* `stream_frames`: the messages have no payload, one that fills the buffer to the byte,
  and one that is a byte too long, and a type that is fatal; each arrives in every
  division into pieces, and three of them give every one a neighbour on either side.
  With `Base` 2 the lengths still use several bytes of the header.
* `roster_requests`: two sessions are the client's own and one other, enough for a number
  to be given out again to either; a channel number is used again; the names of channels
  are all alike, so that the lookup by name meets two of one name.  One renaming of a
  user is enough for the server, the client and the messages to differ in its name.  The
  run takes the root as home, since another home is what `roster_login_channel` refutes.
* `voice_targets`: with four calls an id gets two targets, with those of the other id
  between them, in one session, and others before and after it.
* `voice_packets`: the bursts leave the sequence number just below 2^7, 2^14, 2^21 and
  2^28 and the two packets after them lie on either side; the session numbers are one of
  two bytes and 2^31 - 1, the last that an int holds and the last that TLC knows; the
  lengths take one byte and two, the clock four and nine.  A third packet
  would be related to the other two as they are to each other.
* `decoder_sessions`: gaps of nothing, of exactly the limit and of more lie between the
  packets of one speaker, with packets of the other inside them.

### What the violations show

* The timer writes "falling back to TCP" to the log and changes nothing: voice goes
  on by UDP (`transport_fallback`).
* A client that logs in to another channel than the root takes itself to be in the
  root, because its own UserState comes before it knows its session
  (`roster_login_channel`).
* A user that is renamed keeps its old name at the client, because the name in the
  message is replaced by the one the client has; and as the report has no channel, the
  user is moved to channel -1 (`roster_rename`).  Any report without a channel does
  that.  For the client's own user this is also its current channel, where `TextSend`
  sends.
* The message of voice targets is never cleared: under an id the server gets targets
  that were asked for under other ids (`voice_targets_mixed`), and in earlier sessions.
  A whisper reaches receivers it was not meant for.
* A packet that Opus refuses reaches the audio callback with a size next to 2^64
  (`decoder_failure`): the test for a failure compares a `size_t` with 0.

### What the code does that the passing runs allow

* After `disconnect` from inside the loop (a failed connect, a failed write, the
  timeout) the object cannot be used again: `connect` succeeds and `run()` returns at
  once.  After a `TransportException` `connect` throws, since the UDP socket is still
  open.  The application has to call `disconnect()`, or make a new object as the
  example does.  `ConnectedIsLive` says that such an attempt never looks CONNECTED.
* An exception that is not a `TransportException` leaves the state CONNECTED.  If the
  application calls `run()` again the session goes on without the read that was being
  handled, and the timer ends it (`LossDetected`).  If that was during the login
  nothing ever ends it, which is why `LoginCompletes` has the condition `~again`.
* The timer does nothing during the login: with a server that stops answering there
  the login never ends.  `LoginCompletes` excludes that case by name.
* A live session is closed by the timer if two ticks come between the ping and the
  reading of its reply (`TimeoutOnlyWhenLost` names the case, `PingUnanswered`).
* A fresh datagram is refused if the history holds its byte 1 by chance: in the first
  256 numbers of a nonce whose byte 1 is 0, after a change of key, or if all datagrams
  of its slot have been lost for 65,536 numbers (`FreshAccepted`).  A refusal ends the
  session.
* Every voice packet with a position is refused, and the exception ends `run()`
  (`RefusedOnlyPositional` says it is the only kind).  Positions are on the
  repository's TODO list, but other clients send them.
* A frame of less than 10 ms has the sequence number of the next one, and after a
  silence the numbers begin again without the last packet having been marked as the
  last (`SpurtOrdered`).
* A number in the five-byte form of `VarInt`, which other clients write from 2^28 on, is
  read as a different one (`Swapped32`); `Encode` never writes it.
* A CryptSetup with a nonce alone, which the protocol uses for resynchronisation
  ("with only the client or server nonce filled", `src/src_proto/mumble.proto:357-359`),
  ends the session with a `TransportException` (message NONCE).
* A renamed channel keeps its first name, since a message about a channel the client
  knows changes nothing (`ChannelStatePacket`).
* A failed read of the control connection is tried again without end and nobody is told,
  although the handler has a log line for it (`src/Transport.cpp:349`);
  `EndsForAReason` has no exception for a closed connection, and `LossDetected` says
  that the ping timer notices.
* A session or sequence number from 2^31 on reaches the callback as a negative int
  (`HeardAsSaid` excepts it).
* A request made before ServerSync is dropped and the caller is told that it was sent
  (`TransportSendControl`).
* A decoder is kept over a reconnect: a session number that is given out again within
  five minutes inherits what its former user has said (`DecoderRemembersSpurt` counts
  by session number).

### Fairness

`FairSpec` assumes of the event loop that it runs what is ready and that the timer
keeps firing (asio does), that a TCP connect ends one way or the other (the operating
system sees to it), and that a handshake and reads complete while the server is
there.  Nothing is assumed of the application, of UDP, or of the server's staying
alive.  A live server works through the login and answers pings: this is strong
fairness, because what it has to wait for, room in the connection, comes and goes
as the client reads and as the server's other messages fill it.

`SslStream` has weak fairness of `ReadSome` alone: the event loop takes bytes that have
arrived.  Nothing is assumed of the server.  The other modules state safety only.

## Proofs

`CryptStateProofs` proves for every `Base = 2 * Half`, every late window up to `Half`,
every set of nonces and any number of keys and datagrams (the code's 256, 128 and 30
among them):

* `TypeCorrect`: `Spec => []TypeOK`
* `HistoryCoversWindow`: `Spec => []WindowRemembered`
* `AtMostOnce`: `Spec => []NoReplay`

`NoReplay` alone is not inductive: that a datagram is not opened again depends on the
history still remembering it.  The inductive invariant `IInv` adds
`WindowRemembered` (opened datagrams of the current key lie at or below the newest
nonce, and those inside the late window are in the history) and that every opened
datagram is of a key the receiver has had.  The arithmetic is in three lemmas, `InOrderNum`, `LateNum` and `AheadNum`:
the nonce the code rebuilds from the byte is the next number, one at most
`LateWindow - 1` below the newest, or one at most `Half` above it.  `SameSlot` says
that two numbers with the same byte are equal or a whole round apart, so a slot that
is written again belongs to a number that has left the window; this is where the
window must not exceed half a round.  TLC has checked `IInv` on the instance of
`crypt_datagrams` with 8 datagrams.

The module ends with the refinement,

* `Refines`: `Spec => ImplementsWindow`

A nonce and its number determine each other (`NumInjective`), and incrementing the one
is adding one to the other.  The abstract channel sends the number after the newest it
has sent, so the invariant `SInv` says where the sender is: it has used the current key
and the keys before it, under the current one no number beyond its nonce, and that of
its nonce unless the key is fresh.  Opening a datagram is then a `Receive` of its number
(`OpenMaps`), and every other way through `decrypt` leaves the window as it is
(`DecryptMaps`).

`CryptLossProofs` has the other two properties:

* `LossCount`: `Spec => []LostExact`
* `FreshOpens`: `Spec => []FreshAccepted`

Both need what `IInv` does not say of the newest datagram (`NInv`): the nonce is that of
an opened one, or nothing of the key has been opened and everything sent lies above it;
and a slot written under the current key holds the byte of the newest datagram of that
slot.  For the count, what has been sent under a key is an interval of numbers
(`SentContiguous`): a datagram that runs ahead makes missing exactly as many as the code
adds (`AheadCounts`, by a bijection of the datagrams in between with the numbers), and a
late one was among the missing (`LateCounts`).  For the other, near the newest nonce the
distance folded at half a byte is the true one (`DiffIsDistance`), so the code rebuilds
the right nonce; what could refuse it is its slot, and two numbers that agree in both
bytes are equal or `Base^2` apart (`SameTwoBytes`).

`TransportProofs` proves, for any messages and datagrams and whatever way the
application uses the object:

* `TypeCorrect`: `Spec => []TypeOK`
* `NoKeylessDatagram`: `Spec => []KeyedVoice`

`sendUdpAsync` does not test `isValid`, so the second rests on the order of messages.
The inductive invariant `KeyInv` says that the state is CONNECTED, or a datagram
under way, only with a key (`Sound`); that a ServerSync in the queue has a CryptSetup
before it unless the key is there (`SyncAfterKey`); and that the server is past the
CryptSetup only if it is in the queue or has been read (`KeyUnderWay`).  The handlers
are compositions of functions of the record; the relation `Evolves` abstracts each
(what it may change of the fields the invariant looks at), so that the composition
needs no expansion.

The other safety properties follow for the same constants:

* `SessionListens`: `Spec => []Listening`
* `NothingRunsDown`: `Spec => []DownMeansOver`
* `RunLeavesDown`: `Spec => []RunEndsDown`
* `ConnectedStaysLive`: `Spec => []ConnectedIsLive`
* `NoLateSession`: `Spec => ConnectedOnlyFromLogin`
* `TimerClosesLost`: `Spec => TimeoutOnlyWhenLost`

They are about the state between two handlers, and none is inductive: that a handler
arms its read again matters only if the read it was called for was the only one, and
that the timer finds a reply missing says nothing unless the ping was sent in this
session.  `LiveInv` adds what the code takes for granted and nowhere tests.  What is
pending has its socket (`Held`).  Connect, handshake and first read follow each other,
and until the last the server has said nothing and no ping is out (`Staged`).  A
ServerSync is under way only from a server that has let the client in (`LetIn`).  An
object used once is in a login when `run()` is called, and has its UDP read pending
from `connect` on (`FirstUse`).  Everything is said of objects whose loop has not been
stopped, because a stopped loop runs no handler.  TLC has checked `LiveInv` on the
instance of `transport_session`.  In the proof each handler is summarised by what it
may do to pending operations and state (`Works`, `Handled`, `Ready`, `Quiet`), and the
two action properties follow from the invariant before the step.

`SslStreamProofs` proves, for any width of a byte, any buffer that holds a header and
any messages whose type and length fit their fields:

* `TypeCorrect`: `Spec => []TypeOK`
* `BoundariesKept`: `Spec => []StreamIsInbox`
* `ReadsOn`: `Spec => []EndsForAReason`
* `Refines`: `Spec => ImplementsQueue`

`StreamIsInbox` is not inductive, since it does not say how much the read has asked
for; what the completion condition asked for last must end where the header or the
message ends (`AsksForOne`), or the next piece would run into the next message, and it
must be something (`AsksForMore`), or a failed piece would end the read.  That
it does rests on the bytes of the header giving the length and the type back
(`FrameFacts`, from the digits of a number in base `Base`), and on the arithmetic of
`Remaining`.  A message is taken off the front of the concatenated frames and put at
their end by `FlattenHead` and `FlattenAppend`; those are inductions, done by the
least length at which they would fail.  For the refinement, a piece that does not
complete a message leaves the queue as it is, one that does is the queue's `Receive`
of its head, and the rest end the reading.

`VoiceProofs` proves `RoundTrip`: for every 64-bit number that is not negative and
any bytes behind it, `Parse(Encode(v) \o rest)` is that number and the length of
`Encode(v)`.  For the short forms the argument is that the marks divide the lead
bytes into ranges (`Marked`, `LeadsOne`, `LeadsBelow`).  From it, for any speakers
with session numbers of 32 bits, any frame lengths that fit the length field, any
targets of five bits, clocks, other codecs and whatever lies behind a packet in the
buffer:

* `TypeCorrect`: `Spec => []TypeOK`
* `HearsWhatIsSaid`: `Spec => []HeardAsSaid`
* `RefusesOnlyPositional`: `Spec => []RefusedOnlyPositional`
* `PingsReturn`: `Spec => []PingEchoed`
* `SpurtsInOrder`: `Spec => []SpurtOrdered`

`HearsWhatIsSaid` makes no claim of session and sequence numbers from 2^31 on, and for
the others rests on the narrowing being the identity below it (`NarrowedSame`).

The properties relate the end of a packet's way to its beginning, so the inductive
invariant says of the middle that the bytes under way are those its sender meant
(`Sent`), and of what has been decoded, heard or refused that it was read from such
bytes (`Read`, `Heard`, `Ended`).  `OpusDecoded`, `OtherDecoded` and `PingDecoded` are
the lemmas about the format: `Decode` of what `EncodeOpus` and the server wrote finds
each field at its place (`AudioParsed`), whatever the widths of the three VarInts in
front of it, and the last comparison holds exactly if no position follows.  For the
order `SpurtOrdered` needs the encoder: every packet of its running spurt lies below its
sequence number by at least the frame (`AllCounted`).  TLC has checked this invariant on
the instance of `voice_packets`.

`VoiceTargetProofs` proves, for any ids, targets and number of calls:

* `TypeCorrect`: `Spec => []TypeOK`
* `Reaches`: `Spec => []TargetsReached`

What the server has depends on messages sent long before it reads them, so the inductive
invariant says of every message in flight that it holds the targets of the calls up to
its own (`FromCalls`), of the client's message that it holds those of all calls, and of
the receivers under an id that they are the targets of all calls, for any id, up to the
last for it that was read (`TargetsCollected`, which has `TargetsReached` as one half; the
other half is what `TargetsAsAsked` suffers from).  A
call extends the history and changes nothing of what it has been (`CallKeeps`); the
server's reading takes one such message over (`ReadKeeps`); the end of a session leaves
nothing to show (`EndKeeps`).

`DecoderProofs` proves, for any speakers, limit, packets and clock:

* `TypeCorrect`: `Spec => []TypeOK`
* `SpurtRemembered`: `Spec => []DecoderRemembersSpurt`
* `NoneIdle`: `Spec => []IdleDropped`

The log is what relates a packet to those before it.  The inductive invariant says of
every decoder that it has gone through exactly the packets of its speaker that the log
makes one spurt up to the newest, and has that one's time (`KeptInv`), and of every
speaker without a decoder that nothing in the log is recent (`DroppedInv`).  The second
is why a decoder made anew has missed nothing.  `Heard` says what one packet does to
log and decoders, and the other speakers' part of the invariant does not look at it
(`OthersCarried`).

`RosterProofs` proves of `Requests`, and so of `Roster` with requests mixed in, for any
sessions, names, channels and changes, and any number of messages in flight:

* `TypeCorrect`: `RequestsSpec => []TypeOK`
* `UsersFollowed`: `RequestsSpec => []UsersTracked`
* `NamesFollowed`: `RequestsSpec => []NamesKnown`
* `LocationsFollowed`: `RequestsSpec => []LocationsKnown`
* `MutesStay`: `RequestsSpec => []MutesTracked`
* `ChannelsFollowed`: `RequestsSpec => []ChannelsTracked`
* `OwnChannelFollows`: `Home = {0}` implies `RequestsSpec => []OwnChannelKnown`
* `TextsWhereBeen`: `Home = {0}` implies `RequestsSpec => []TextWhereBeen`

The properties look at a user about whom nothing is in flight, or at the last message
about it; the inductive invariant has to look at all of them.  `Known(s, n)` is whether
the client will know `s` when it has read the first `n` messages, and `UserInv` says of
every session that at the end of the wire it knows whom the server has (`Tracked`), that
a report which finds the user unknown has a name (`Introduced`), that a name it has had
is there already or in such a report (`Named`), and that the last report says where the user
is (`Located`).  A message added at the end leaves `Known` of the earlier positions alone
(`KnownAppended`), and reading the first shifts it by one (`KnownAdvanced`); so each step
of the server and of the client reduces to what its one message says of a user (`Suits`,
`Took`).  The login puts the whole server on the wire, each user once (`InSequence`).

For channels the invariant `ChannelInv` is the like of it: `Listed(c)` says whether the
client will list `c` when it has read everything.  That no channel is listed twice is
part of it, because `channelErase` removes one entry only (`ErasedOnce`).

The client's own channel is the work of three: `session_id`, which comes last in the
login; the reports, of which `channel_current` takes those about that session; and what
`generalClear` leaves, which stands for all the reports read before.  `OwnInv` says that
there is one ServerSync, read or at a place `p` of the wire (`OwnFrom`); that every
report about the client's own user behind it, and `channel_current` itself, names a
channel it has been in, or none; and that if no report follows `channel_current` is where
it is.  Reading such a report uses `Located` of the client's own user.  The reports in
front of the ServerSync are passed over, so at login the root channel that `generalClear`
leaves must be the right one: hence `Home = {0}`, which is an assumption on the server
and not on the code.  Without it both fail (TLC finds the counterexamples), in the way
of `roster_login_channel`.  With `OwnInv` the texts need only that `been` grows while a
connection lasts.
TLC has checked `ChannelInv` and `OwnInv` on the instance of `roster_requests`.

Only model-checked: the liveness properties (`LossDetected`, `LoginCompletes`,
`AllReceived`), which are out of the prover's reach.  Every other property of a passing
run is a theorem.

## Not modelled

* `sendSslAsync`, `CryptState::genKey`, `setDecryptIV`, `getEncryptIV`: nothing calls them.
* The 1024-byte buffer on the stack into which a control message is serialised
  (`src/Transport.cpp:521`): the code has no check there to be right or wrong.
* Calls from a thread other than the one in `run()`, and `disconnect()` from a callback:
  the outcome is undefined, and a module would show a guess.
* The limits of ServerConfig and ServerSync: they are stored and nothing reads them.
* The cipher, Opus, TLS and asio: external, taken to do what they promise.
* `Logger`, `SslContextHelper`, `Callback`, the exceptions, the protocol messages and
  the example: no behaviour over time.

## Plan

1. Done: `CryptState` with its abstract window, `Transport`, `SslStream` with its
   abstract queue, `Roster`, `Requests`, `VoiceTarget`, `VarInt`, `AudioPacket`, `Voice`,
   `Decoder`, and the proofs above.
2. Next: a composition of transport, roster and cipher.
3. Proofs: the composition's invariants, from those of its parts.
