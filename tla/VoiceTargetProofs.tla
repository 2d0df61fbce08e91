-------------------------- MODULE VoiceTargetProofs --------------------------
(***************************************************************************)
(* What the server has under each id, for any ids and targets and any      *)
(* number of calls.                                                        *)
(***************************************************************************)
EXTENDS VoiceTarget, TLAPS

\* A message holds the targets of the first n calls.
Holds(m, n) ==
    /\ Len(m.targets) = n
    /\ \A i \in 1 .. n : m.targets[i] = calls[i].target

\* Every message in flight holds what had been asked for at its call.
FromCalls ==
    \A k \in DOMAIN outbox :
        LET n == outbox[k].call
        IN  /\ n \in DOMAIN calls
            /\ calls[n].id = outbox[k].message.id
            /\ Holds(outbox[k].message, n)

\* The server has exactly what had been asked for, under any id and in any session, up
\* to its last call read for the id: more than TargetsReached says, and inductive.
TargetsCollected ==
    \A id \in Ids :
        /\ lastRead[id] # 0 => lastRead[id] \in DOMAIN calls /\ calls[lastRead[id]].id = id
        /\ targets[id] = {calls[i].target : i \in 1 .. lastRead[id]}

IInv == TypeOK /\ Holds(voiceTarget, Len(calls)) /\ FromCalls /\ TargetsCollected

\* What a sequence holds is of its type.
LEMMA ElementType ==
    ASSUME NEW S, NEW s \in Seq(S), NEW i \in DOMAIN s
    PROVE  s[i] \in S
OBVIOUS

\* What the server makes of such a message.
LEMMA ReadTargets ==
    ASSUME NEW m \in Message, NEW n \in Nat, Holds(m, n)
    PROVE  {m.targets[i] : i \in DOMAIN m.targets} = {calls[i].target : i \in 1 .. n}
<1>1. DOMAIN m.targets = 1 .. n
  BY DEF Holds, Message
<1> QED BY <1>1 DEF Holds

\* With nothing in flight and nothing at the server there is nothing to show.
LEMMA EndKeeps ==
    ASSUME IInv, SessionEnds,
           link' \in {"none", "open", "connected", "lost"}, known' \subseteq Targets
    PROVE  IInv'
<1>1. /\ outbox' = << >> /\ targets' = [id \in Ids |-> {}] /\ lastRead' = [id \in Ids |-> 0]
      /\ voiceTarget' = voiceTarget /\ calls' = calls /\ since' = Len(calls)
  BY DEF SessionEnds
<1>2. TypeOK'
  <2>1. /\ outbox' \in Seq([message : Message, call : Nat])
        /\ targets' \in [Ids -> SUBSET Targets]
        /\ lastRead' \in [Ids -> Nat]
    BY <1>1
  <2>2. since' \in Nat
    BY <1>1 DEF IInv, TypeOK
  <2> QED BY <1>1, <2>1, <2>2 DEF IInv, TypeOK
<1>3. Holds(voiceTarget, Len(calls))'
  BY <1>1 DEF IInv, Holds
<1>4. FromCalls'
  BY <1>1 DEF FromCalls
<1>5. TargetsCollected'
  BY <1>1 DEF TargetsCollected
<1> QED BY <1>2, <1>3, <1>4, <1>5 DEF IInv

LEMMA SilentKeeps ==
    ASSUME IInv, UNCHANGED <<voiceTarget, outbox, targets, calls, lastRead, since>>,
           link' \in {"none", "open", "connected", "lost"}, known' \subseteq Targets
    PROVE  IInv'
BY DEF IInv, TypeOK, Holds, FromCalls, TargetsCollected

\* A call adds its target to the message and to the history alike; what was sent
\* before stays what it was.
LEMMA CallKeeps ==
    ASSUME IInv, NEW id \in Ids, NEW t \in Targets, VoicetargetSet(id, t)
    PROVE  IInv'
<1> DEFINE n == Len(calls) + 1
           m == WithTarget(id, t)
           call == [id |-> id, target |-> t]
           entry == [message |-> m, call |-> n]
<1>1. /\ calls \in Seq([id : Ids, target : Targets])
      /\ outbox \in Seq([message : Message, call : Nat])
      /\ voiceTarget.targets \in Seq(Targets) /\ Len(voiceTarget.targets) = Len(calls)
      /\ \A i \in 1 .. Len(calls) : voiceTarget.targets[i] = calls[i].target
  BY DEF IInv, TypeOK, Holds
<1>2. /\ voiceTarget' = m /\ calls' = Append(calls, call)
      /\ outbox' = outbox \/ outbox' = Append(outbox, entry)
      /\ link' = link /\ known' = known /\ targets' = targets /\ lastRead' = lastRead
      /\ since' = since
  <2>1. calls' = Append(calls, call) /\ Len(calls') = n
    BY <1>1 DEF VoicetargetSet
  <2> QED BY <2>1 DEF VoicetargetSet
<1>3. call \in [id : Ids, target : Targets] /\ n \in Nat
  BY <1>1
<1>4. /\ calls' \in Seq([id : Ids, target : Targets]) /\ Len(calls') = n /\ DOMAIN calls' = 1 .. n
      /\ calls'[n] = call /\ \A i \in 1 .. Len(calls) : calls'[i] = calls[i]
  <2> HIDE DEF call
  <2> QED BY <1>1, <1>2, <1>3
<1>5. /\ m \in Message /\ m.id = id /\ m.targets \in Seq(Targets) /\ Len(m.targets) = n
      /\ m.targets[n] = t /\ \A i \in 1 .. Len(calls) : m.targets[i] = voiceTarget.targets[i]
  BY <1>1 DEF WithTarget, Message
<1>6. Holds(voiceTarget, Len(calls))'
  <2>1. Len(voiceTarget'.targets) = Len(calls')
    BY <1>2, <1>4, <1>5
  <2>2. ASSUME NEW i \in 1 .. Len(calls')
        PROVE  voiceTarget'.targets[i] = calls'[i].target
    <3>1. CASE i = n
      <4>1. calls'[n].target = t
        BY <1>4
      <4> QED BY <4>1, <3>1, <1>2, <1>5
    <3>2. CASE i \in 1 .. Len(calls)
      <4>1. calls'[i] = calls[i] /\ voiceTarget'.targets[i] = voiceTarget.targets[i]
        BY <3>2, <1>2, <1>4, <1>5
      <4> QED BY <4>1, <3>2, <1>1
    <3> QED BY <3>1, <3>2, <1>1, <1>4
  <2> QED BY <2>1, <2>2 DEF Holds
<1>7. TypeOK'
  <2>1. entry \in [message : Message, call : Nat]
    BY <1>3, <1>5
  <2>2. outbox' \in Seq([message : Message, call : Nat])
    <3> HIDE DEF entry, m, n, call
    <3>1. CASE outbox' = outbox
      BY <3>1, <1>1
    <3>2. CASE outbox' = Append(outbox, entry)
      BY <3>2, <1>1, <2>1
    <3> QED BY <3>1, <3>2, <1>2
  <2>3. voiceTarget' \in [id : Ids \cup {0}, targets : Seq(Targets)]
    BY <1>2, <1>5 DEF Message
  <2>4. Len(voiceTarget'.targets) = Len(calls')
    BY <1>2, <1>4, <1>5
  <2> HIDE DEF m, n, call, entry
  <2> QED BY <1>2, <1>4, <2>2, <2>3, <2>4 DEF IInv, TypeOK
<1>8. FromCalls'
  <2>1. ASSUME NEW k \in DOMAIN outbox'
        PROVE  /\ outbox'[k].call \in DOMAIN calls'
               /\ calls'[outbox'[k].call].id = outbox'[k].message.id
               /\ Len(outbox'[k].message.targets) = outbox'[k].call
               /\ \A i \in 1 .. outbox'[k].call :
                     outbox'[k].message.targets[i] = calls'[i].target
    <3>1. CASE k \in DOMAIN outbox
      <4>1. outbox'[k] = outbox[k]
        <5> HIDE DEF m, n, call, entry
        <5>1. CASE outbox' = outbox
          BY <5>1
        <5>2. CASE outbox' = Append(outbox, entry)
          BY <1>1, <3>1, <5>2
        <5> QED BY <1>2, <5>1, <5>2
      <4>2. /\ outbox[k].call \in 1 .. Len(calls)
            /\ calls[outbox[k].call].id = outbox[k].message.id
            /\ Len(outbox[k].message.targets) = outbox[k].call
            /\ \A i \in 1 .. outbox[k].call : outbox[k].message.targets[i] = calls[i].target
        BY <1>1, <3>1 DEF IInv, FromCalls, Holds
      <4>3. \A i \in 1 .. outbox[k].call : i \in 1 .. Len(calls)
        BY <1>1, <4>2
      <4>4. outbox[k].call \in DOMAIN calls' /\ calls'[outbox[k].call] = calls[outbox[k].call]
        <5> HIDE DEF m, call, entry
        <5> QED BY <4>2, <1>1, <1>4
      <4>5. \A i \in 1 .. outbox[k].call : calls'[i] = calls[i]
        <5> HIDE DEF m, n, call, entry
        <5> QED BY <4>3, <1>4
      <4> HIDE DEF m, n, call, entry
      <4> QED BY <4>1, <4>2, <4>4, <4>5
    <3>2. CASE k \notin DOMAIN outbox
      <4>1. outbox'[k] = entry
        <5> HIDE DEF m, n, call, entry
        <5>1. outbox' = Append(outbox, entry)
          BY <1>2, <3>2
        <5> QED BY <1>1, <3>2, <5>1
      <4>2. outbox'[k].call = Len(calls') /\ outbox'[k].message = voiceTarget'
        BY <4>1, <1>2, <1>4
      <4>3. calls'[Len(calls')].id = id /\ voiceTarget'.id = id /\ Len(calls') \in DOMAIN calls'
        BY <1>2, <1>3, <1>4, <1>5
      <4> HIDE DEF m, n, call, entry
      <4> QED BY <4>2, <4>3, <1>6 DEF Holds
    <3> QED BY <3>1, <3>2
  <2> QED BY <2>1 DEF FromCalls, Holds
<1>9. TargetsCollected'
  <2>1. ASSUME NEW w \in Ids
        PROVE  /\ lastRead'[w] # 0 => lastRead'[w] \in DOMAIN calls' /\ calls'[lastRead'[w]].id = w
               /\ targets'[w] = {calls'[i].target : i \in 1 .. lastRead'[w]}
    <3>1. /\ lastRead[w] # 0 => lastRead[w] \in 1 .. Len(calls) /\ calls[lastRead[w]].id = w
          /\ targets[w] = {calls[i].target : i \in 1 .. lastRead[w]}
      BY <1>1 DEF IInv, TargetsCollected
    <3>2. \A i \in 1 .. lastRead[w] : calls'[i] = calls[i]
      <4>1. \A i \in 1 .. lastRead[w] : i \in 1 .. Len(calls)
        BY <1>1, <3>1 DEF IInv, TypeOK
      <4> QED BY <4>1, <1>4
    <3>3. lastRead[w] # 0 => lastRead[w] \in DOMAIN calls' /\ calls'[lastRead[w]] = calls[lastRead[w]]
      <4> HIDE DEF m, call, entry
      <4> QED BY <1>1, <1>4, <3>1
    <3>4. {calls'[i].target : i \in 1 .. lastRead[w]} = {calls[i].target : i \in 1 .. lastRead[w]}
      BY <3>2
    <3> HIDE DEF m, n, call, entry
    <3> QED BY <1>2, <3>1, <3>3, <3>4
  <2> QED BY <2>1 DEF TargetsCollected
<1> QED BY <1>6, <1>7, <1>8, <1>9 DEF IInv

\* The server takes the message of a call, and with it all of the calls up to it.
LEMMA ReadKeeps ==
    ASSUME IInv, ServerReads
    PROVE  IInv'
<1> DEFINE e == Head(outbox)
<1>1. /\ outbox \in Seq([message : Message, call : Nat]) /\ outbox # << >>
      /\ calls \in Seq([id : Ids, target : Targets])
      /\ targets \in [Ids -> SUBSET Targets] /\ lastRead \in [Ids -> Nat]
  BY DEF IInv, TypeOK, ServerReads
<1>2. e = outbox[1] /\ 1 \in DOMAIN outbox
  BY <1>1
<1>3. e.message \in Message /\ e.message.id \in Ids /\ e.call \in Nat
  <2>1. outbox[1] \in [message : Message, call : Nat]
    BY <1>1, <1>2, ElementType, Zenon
  <2>2. e.message \in Message /\ e.call \in Nat
    BY <1>2, <2>1
  <2> HIDE DEF e
  <2> QED BY <2>2 DEF Message
<1>4. /\ e.call \in DOMAIN calls /\ calls[e.call].id = e.message.id /\ Holds(e.message, e.call)
  BY <1>2 DEF IInv, FromCalls
<1> HIDE DEF e
<1>5. {e.message.targets[i] : i \in DOMAIN e.message.targets} = {calls[i].target : i \in 1 .. e.call}
  BY <1>3, <1>4, ReadTargets
<1>6. /\ targets' = [targets EXCEPT ![e.message.id] = {calls[i].target : i \in 1 .. e.call}]
      /\ lastRead' = [lastRead EXCEPT ![e.message.id] = e.call]
      /\ outbox' = Tail(outbox)
      /\ link' = link /\ known' = known /\ voiceTarget' = voiceTarget /\ calls' = calls
      /\ since' = since
  BY <1>5 DEF ServerReads, e
<1>7. TypeOK'
  <2>1. outbox' \in Seq([message : Message, call : Nat])
    BY <1>1, <1>6
  <2>2. lastRead' \in [Ids -> Nat]
    BY <1>1, <1>3, <1>6
  <2>3. {calls[i].target : i \in 1 .. e.call} \in SUBSET Targets
    <3>1. \A i \in 1 .. e.call : calls[i].target \in Targets
      <4>1. \A i \in 1 .. e.call : i \in 1 .. Len(calls)
        BY <1>1, <1>3, <1>4
      <4>2. \A i \in 1 .. Len(calls) : calls[i] \in [id : Ids, target : Targets]
        <5> DEFINE S == [id : Ids, target : Targets]
        <5>1. calls \in Seq(S) /\ DOMAIN calls = 1 .. Len(calls)
          BY <1>1
        <5> HIDE DEF S
        <5>2. \A i \in 1 .. Len(calls) : calls[i] \in S
          BY <5>1, ElementType
        <5> QED BY <5>2 DEF S
      <4> QED BY <4>1, <4>2
    <3> QED BY <3>1
  <2>4. targets' \in [Ids -> SUBSET Targets]
    BY <1>1, <1>3, <1>6, <2>3
  <2> QED BY <1>6, <2>1, <2>2, <2>4 DEF IInv, TypeOK
<1>8. Holds(voiceTarget, Len(calls))'
  BY <1>6 DEF IInv, Holds
<1>9. FromCalls'
  <2>1. ASSUME NEW k \in DOMAIN outbox'
        PROVE  k + 1 \in DOMAIN outbox /\ outbox'[k] = outbox[k + 1]
    BY <1>1, <1>6
  <2> QED BY <2>1, <1>6 DEF IInv, FromCalls, Holds
<1>10. TargetsCollected'
  <2>1. ASSUME NEW w \in Ids
        PROVE  /\ lastRead'[w] # 0 => lastRead'[w] \in DOMAIN calls' /\ calls'[lastRead'[w]].id = w
               /\ targets'[w] = {calls'[i].target : i \in 1 .. lastRead'[w]}
    <3>1. CASE w = e.message.id
      <4>1. lastRead'[w] = e.call /\ targets'[w] = {calls[i].target : i \in 1 .. e.call}
        BY <3>1, <1>1, <1>6
      <4>2. {calls'[i].target : i \in 1 .. e.call} = {calls[i].target : i \in 1 .. e.call}
        BY <1>6
      <4> QED BY <4>1, <4>2, <3>1, <1>4, <1>6
    <3>2. CASE w # e.message.id
      <4>1. lastRead'[w] = lastRead[w] /\ targets'[w] = targets[w]
        BY <3>2, <1>1, <1>6
      <4>2. {calls'[i].target : i \in 1 .. lastRead[w]} = {calls[i].target : i \in 1 .. lastRead[w]}
        BY <1>6
      <4> QED BY <4>1, <4>2, <1>6 DEF IInv, TargetsCollected
    <3> QED BY <3>1, <3>2
  <2> QED BY <2>1 DEF TargetsCollected
<1> QED BY <1>7, <1>8, <1>9, <1>10 DEF IInv

LEMMA InitHolds == Init => IInv
<1> SUFFICES ASSUME Init PROVE IInv
  OBVIOUS
<1>1. TypeOK
  BY DEF Init, TypeOK
<1>2. Holds(voiceTarget, Len(calls)) /\ FromCalls
  BY DEF Init, Holds, FromCalls
<1>3. TargetsCollected
  <2>1. ASSUME NEW w \in Ids
        PROVE  /\ lastRead[w] = 0 /\ targets[w] = {}
               /\ {calls[i].target : i \in 1 .. 0} = {}
    BY DEF Init
  <2> QED BY <2>1 DEF TargetsCollected
<1> QED BY <1>1, <1>2, <1>3 DEF IInv

LEMMA StepKeeps == IInv /\ [Next]_vars => IInv'
<1> SUFFICES ASSUME IInv, [Next]_vars PROVE IInv'
  OBVIOUS
<1>0. link \in {"none", "open", "connected", "lost"} /\ known \subseteq Targets
  BY DEF IInv, TypeOK
<1>1. CASE TransportConnect
  BY <1>1, EndKeeps DEF TransportConnect, NewSession
<1>2. CASE TransportDisconnect
  BY <1>2, EndKeeps DEF TransportDisconnect, NewSession
<1>3. CASE TransportLost
  BY <1>0, <1>3, EndKeeps DEF TransportLost
<1>4. CASE ServerSync
  BY <1>0, <1>4, SilentKeeps DEF ServerSync
<1>5. CASE Learns
  BY <1>0, <1>5, SilentKeeps DEF Learns
<1>6. ASSUME NEW id \in Ids, NEW t \in Targets,
             VoicetargetSet(id, t) \/ VoicetargetSetByName(id, t)
      PROVE  IInv'
  BY <1>6, CallKeeps DEF VoicetargetSetByName
<1>7. CASE ServerReads
  BY <1>7, ReadKeeps
<1>8. CASE UNCHANGED vars
  BY <1>0, <1>8, SilentKeeps DEF vars
<1> QED BY <1>1, <1>2, <1>3, <1>4, <1>5, <1>6, <1>7, <1>8 DEF Next

\* Types, for any ids, any targets and any number of calls.
THEOREM TypeCorrect == Spec => []TypeOK
<1>1. IInv => TypeOK
  BY DEF IInv
<1> QED BY InitHolds, StepKeeps, <1>1, PTL DEF Spec

\* Through any number of sessions, the server has under an id every target that was
\* asked for under it in the session up to the call read last, whatever else was asked
\* for in between and whichever messages were dropped.
THEOREM Reaches == Spec => []TargetsReached
<1>1. IInv => TargetsReached
  <2> SUFFICES ASSUME IInv, NEW id \in Ids, NEW i \in since + 1 .. lastRead[id]
               PROVE  calls[i].target \in targets[id]
    BY DEF TargetsReached
  <2>1. i \in 1 .. lastRead[id]
    BY DEF IInv, TypeOK
  <2>2. targets[id] = {calls[j].target : j \in 1 .. lastRead[id]}
    BY DEF IInv, TargetsCollected
  <2> QED BY <2>1, <2>2
<1> QED BY InitHolds, StepKeeps, <1>1, PTL DEF Spec
=============================================================================
