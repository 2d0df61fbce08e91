------------------------------ MODULE Decoder -------------------------------
(***************************************************************************)
(* AudioDecoder: one Opus decoder per session number that has been heard,  *)
(* kept from packet to packet and dropped when it has been idle for too    *)
(* long.  It belongs to Mumlib2Private, so it outlives the connection.     *)
(*                                                                         *)
(* An Opus decoder predicts each frame from those before it.  Its state is *)
(* taken to be which packets have gone through it since it was created or  *)
(* reset; what comes out is only a number of samples, or a negative error  *)
(* for a payload it cannot make sense of, which leaves the state alone.    *)
(***************************************************************************)
EXTENDS Integers, Sequences

CONSTANTS
    Sessions,  \* session numbers of the speakers
    Timeout,   \* _timeout_inactivity
    Results,   \* what opus_decode may return
    SizeOf,    \* 2^64, the values of a size_t
    MaxTime,   \* bound: how far the clock goes
    MaxHeard   \* bound: packets that reach the decoder

ASSUME ClockAssumption == Timeout \in Nat /\ MaxTime \in Nat
ASSUME ResultAssumption == Results \subseteq Int /\ 0 \notin Results
ASSUME SizeAssumption == SizeOf \in Nat /\ \A r \in Results : -SizeOf < r /\ r < SizeOf

VARIABLES
    now,       \* the steady clock
    sessions,  \* AudioDecoder::_sessions
    log,       \* history: the packets that have reached the decoder
    heard      \* the last audio callback

vars == <<now, sessions, log, heard>>

None == [index |-> 0]

\* A decoder with the packets that have shaped its state, and the time of its
\* last one.
Session == [frames : SUBSET Nat, timepoint : Nat]

Init ==
    /\ now = 0
    /\ sessions = [s \in {} |-> {}]
    /\ log = << >>
    /\ heard = None

-----------------------------------------------------------------------------
\* A new one has never been used, which the clock's epoch stands for.
NewSession == [frames |-> {}, timepoint |-> 0]

\* Mutants: only the packet's own session is looked at; the limit itself is
\* too long already.
KeptOthers(s) ==
    {t \in DOMAIN sessions : t = s => now - sessions[t].timepoint <= Timeout}
KeptBelow(s) ==
    {t \in DOMAIN sessions : now - sessions[t].timepoint < Timeout}

\* The sessions that survive the cleanup with which a packet of s begins.
Kept(s) == {t \in DOMAIN sessions : now - sessions[t].timepoint <= Timeout}

\* The decoder a packet of s goes through: the one that is there, or a new one.
Found(s) == IF s \in Kept(s) THEN sessions[s] ELSE NewSession

\* The result of opus_decode, an int, in a size_t.
AsSize(r) == r % SizeOf

\* Mutants: the decoder is not reset; the time at which it will be too old is
\* noted.
AfterEndless(d, last) == [frames |-> d.frames, timepoint |-> now]
AfterDeadline(d, last) == [frames |-> IF last THEN {} ELSE d.frames, timepoint |-> now + Timeout]

\* The end of AudioDecoderSession::Process.
After(d, last) == [frames |-> IF last THEN {} ELSE d.frames, timepoint |-> now]

\* AudioDecoder::Process and AudioDecoderSession::Process, and the callback.
\* payload is FALSE for a packet without any, which is not decoded.  The test of
\* the size throws only for 0, and then neither the flag nor the time is looked at.
Process(s, payload, last, result) ==
    LET found   == Found(s)
        number  == Len(log) + 1
        size    == IF payload THEN AsSize(result) ELSE 0
        decoded == [found EXCEPT !.frames = IF payload /\ result > 0 THEN @ \cup {number} ELSE @]
        throws  == payload /\ size <= 0
    IN  /\ sessions' = [t \in Kept(s) \cup {s} |->
                          IF t # s THEN sessions[t]
                          ELSE IF throws THEN decoded ELSE After(decoded, last)]
        /\ heard' = IF throws THEN heard
                    ELSE [index |-> number, buffer |-> payload, size |-> size]
        /\ log' = Append(log,
              [session |-> s, time |-> now, last |-> last,
               result |-> IF payload THEN result ELSE 0, found |-> found.frames])

\* A packet reaches the decoder unless its speaker is muted.
ProcessAudioPacket(s) ==
    /\ Len(log) < MaxHeard
    /\ \E payload, last \in BOOLEAN, result \in Results : Process(s, payload, last, result)
    /\ UNCHANGED now

Tick ==
    /\ now < MaxTime
    /\ now' = now + 1
    /\ UNCHANGED <<sessions, log, heard>>

Next ==
    \/ \E s \in Sessions : ProcessAudioPacket(s)
    \/ Tick

Spec == Init /\ [][Next]_vars

-----------------------------------------------------------------------------
(***************************************************************************)
(* Properties                                                              *)
(***************************************************************************)

\* Every variable has its type.
TypeOK ==
    /\ now \in Nat
    /\ DOMAIN sessions \subseteq Sessions
    /\ \A s \in DOMAIN sessions : sessions[s] \in Session /\ sessions[s].timepoint <= now
    /\ heard # None => heard.size \in 0 .. SizeOf - 1

\* The packets of the session of packet i that were decoded before it, with the
\* decoder neither reset nor idle for longer than the limit in between.
SpurtBefore(i) ==
    LET Same(j) == log[j].session = log[i].session
        Unbroken(j) == /\ ~log[j].last
                       /\ \E k \in j + 1 .. i : Same(k) /\ log[k].time - log[j].time <= Timeout
    IN  {j \in 1 .. i - 1 :
            Same(j) /\ log[j].result > 0 /\ \A k \in j .. i - 1 : Same(k) => Unbroken(k)}

\* A packet is decoded with the state its spurt of speech has left, whole: the
\* packets of other speakers, whose cleanup goes through all sessions, never cost a
\* speaker the decoder in the middle of a spurt, and what was said before the last
\* flag or before a long silence is never still in it.  That the number may have
\* passed to another user within the time is the server's doing and not noticed.
DecoderRemembersSpurt == \A i \in DOMAIN log : log[i].found = SpurtBefore(i)

\* When a packet has been processed, no session is left that has been idle for
\* longer than the limit: the number of decoders is bounded by the speakers of the
\* last five minutes of speech.
IdleDropped ==
    log # << >> =>
        \A s \in DOMAIN sessions : log[Len(log)].time - sessions[s].timepoint <= Timeout

\* A payload Opus cannot decode never becomes a callback, but the exception "failed
\* to decode opus data" (the test behind opusDecode).
FailureThrows ==
    heard # None => (heard.buffer => log[heard.index].result > 0)
=============================================================================
