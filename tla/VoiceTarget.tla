----------------------------- MODULE VoiceTarget -----------------------------
(***************************************************************************)
(* The receivers of a whisper.  Voice packets carry a target number; which *)
(* users and channels it stands for the application tells the server       *)
(* beforehand, one at a time, with Mumlib2Private::VoicetargetSet.         *)
(*                                                                         *)
(* All calls build up one message, the member _voiceTarget: each sets its  *)
(* id and adds a target, and then sends the whole of it.  Nothing ever     *)
(* clears it, neither another id nor the end of the session, and a call    *)
(* whose message is dropped has added its target all the same.  The server *)
(* is external: a message replaces what it has under the id, and a new     *)
(* session begins with nothing.                                            *)
(***************************************************************************)
EXTENDS Integers, Sequences

CONSTANTS
    Ids,      \* target numbers
    Targets,  \* users and channels that can be a target
    MaxCalls  \* bound: calls of VoicetargetSet that come to send

ASSUME IdsAssumption == 0 \notin Ids
ASSUME CallsAssumption == MaxCalls \in Nat

VARIABLES
    link,         \* no transport, one that logs in, is CONNECTED, or has lost
                  \* its connection
    known,        \* the users and channels the client knows by name
    voiceTarget,  \* Mumlib2Private::_voiceTarget
    outbox,       \* messages sent and not yet read by the server, each with the
                  \* number of the call it is from
    targets,      \* the server's receivers under each id
    calls,        \* history: the calls so far
    lastRead,     \* history: the last call for each id that the server has read
                  \* in this session, 0 for none
    since         \* history: how many calls there were when this session began

vars == <<link, known, voiceTarget, outbox, targets, calls, lastRead, since>>

Init ==
    /\ link = "none"
    /\ known = {}
    /\ voiceTarget = [id |-> 0, targets |-> << >>]
    /\ outbox = << >>
    /\ targets = [id \in Ids |-> {}]
    /\ calls = << >>
    /\ lastRead = [id \in Ids |-> 0]
    /\ since = 0

\* The server forgets a session, and what is in flight goes with it.
SessionEnds ==
    /\ outbox' = << >>
    /\ targets' = [id \in Ids |-> {}]
    /\ lastRead' = [id \in Ids |-> 0]
    /\ since' = Len(calls)
    /\ UNCHANGED <<voiceTarget, calls>>

\* generalClear, with a new transport or none: all but _voiceTarget is cleared.
NewSession(l) ==
    /\ link' = l
    /\ known' = {}
    /\ SessionEnds

TransportConnect == link \in {"none", "lost"} /\ NewSession("open")

TransportDisconnect == NewSession("none")

\* ServerSync makes it CONNECTED; the messages about users and channels are
\* processed before and after.
ServerSync ==
    /\ link = "open"
    /\ link' = "connected"
    /\ UNCHANGED <<known, voiceTarget, outbox, targets, calls, lastRead, since>>

Learns ==
    /\ link \in {"open", "connected"}
    /\ \E s \in SUBSET Targets : known' = s
    /\ UNCHANGED <<link, voiceTarget, outbox, targets, calls, lastRead, since>>

\* The connection is lost: what the client knows stays.
TransportLost ==
    /\ link \in {"open", "connected"}
    /\ link' = "lost"
    /\ SessionEnds
    /\ UNCHANGED known

-----------------------------------------------------------------------------
\* Mutants: only what is sent is added; the targets of another id are dropped.
WithTargetSent(id, t) ==
    [id |-> id,
     targets |-> IF link = "connected" THEN Append(voiceTarget.targets, t)
                 ELSE voiceTarget.targets]
WithTargetPerId(id, t) ==
    [id |-> id,
     targets |-> IF id = voiceTarget.id THEN Append(voiceTarget.targets, t) ELSE << t >>]

WithTarget(id, t) == [id |-> id, targets |-> Append(voiceTarget.targets, t)]

\* By number: whether there is such a user or channel is not looked at.
VoicetargetSet(id, t) ==
    /\ Len(calls) < MaxCalls
    /\ voiceTarget' = WithTarget(id, t)
    /\ calls' = Append(calls, [id |-> id, target |-> t])
    /\ outbox' = IF link = "connected"
                 THEN Append(outbox, [message |-> voiceTarget', call |-> Len(calls')])
                 ELSE outbox
    /\ UNCHANGED <<link, known, targets, lastRead, since>>

\* By name: ChannelFind or UserFind gives the number, or the call is refused.
VoicetargetSetByName(id, t) == t \in known /\ VoicetargetSet(id, t)

ServerReads ==
    /\ outbox # << >>
    /\ LET m == Head(outbox).message
       IN  /\ targets' = [targets EXCEPT ![m.id] = {m.targets[i] : i \in DOMAIN m.targets}]
           /\ lastRead' = [lastRead EXCEPT ![m.id] = Head(outbox).call]
    /\ outbox' = Tail(outbox)
    /\ UNCHANGED <<link, known, voiceTarget, calls, since>>

Next ==
    \/ TransportConnect
    \/ TransportDisconnect
    \/ TransportLost
    \/ ServerSync
    \/ Learns
    \/ \E id \in Ids, t \in Targets : VoicetargetSet(id, t) \/ VoicetargetSetByName(id, t)
    \/ ServerReads

Spec == Init /\ [][Next]_vars

-----------------------------------------------------------------------------
(***************************************************************************)
(* Properties                                                              *)
(***************************************************************************)

Message == [id : Ids, targets : Seq(Targets)]

\* Every variable has its type, and the message has one target for every call.
TypeOK ==
    /\ link \in {"none", "open", "connected", "lost"}
    /\ known \subseteq Targets
    /\ voiceTarget \in [id : Ids \cup {0}, targets : Seq(Targets)]
    /\ outbox \in Seq([message : Message, call : Nat])
    /\ targets \in [Ids -> SUBSET Targets]
    /\ calls \in Seq([id : Ids, target : Targets])
    /\ lastRead \in [Ids -> Nat]
    /\ since \in Nat
    /\ Len(voiceTarget.targets) = Len(calls)

\* Once the server has read a call of VoicetargetSet, a whisper under its id reaches
\* every target the application has asked for under that id in this session up to that
\* call: calls for other ids in between, and calls whose message was dropped, take
\* none away.
TargetsReached ==
    \A id \in Ids : \A i \in since + 1 .. lastRead[id] :
        calls[i].id = id => calls[i].target \in targets[id]

\* mumble.proto of the targets of a VoiceTarget: "The receivers that this voice target
\* includes."  Those under an id are ones that were asked for under it.
TargetsAsAsked ==
    \A id \in Ids :
        targets[id] \subseteq {calls[i].target : i \in {j \in 1 .. lastRead[id] : calls[j].id = id}}
=============================================================================
