---------------------------- MODULE DecoderProofs ----------------------------
(***************************************************************************)
(* A packet finds its decoder as its spurt of speech has left it, and no   *)
(* decoder outlives its time: for any speakers, limit, packets and clock.  *)
(***************************************************************************)
EXTENDS Decoder, TLAPS

Packet ==
    [session : Sessions, time : Nat, last : BOOLEAN, result : Int, found : SUBSET Nat]

Types ==
    /\ now \in Nat
    /\ log \in Seq(Packet)
    /\ DOMAIN sessions \subseteq Sessions
    /\ \A s \in DOMAIN sessions : sessions[s] \in Session

\* The clock goes forward.
Chronological ==
    \A i \in 1 .. Len(log) :
        /\ log[i].time <= now
        /\ \A j \in i .. Len(log) : log[i].time <= log[j].time

\* The last packet of s.
Newest(s, i) ==
    /\ i \in 1 .. Len(log)
    /\ log[i].session = s
    /\ \A j \in i + 1 .. Len(log) : log[j].session # s

\* The packets of s that make up its spurt of speech, if the next comes in time.
Carried(s) ==
    {j \in 1 .. Len(log) :
        /\ log[j].session = s
        /\ log[j].result > 0
        /\ \A k \in j .. Len(log) :
              log[k].session = s =>
                 /\ ~log[k].last
                 /\ \/ Newest(s, k)
                    \/ \E m \in k + 1 .. Len(log) :
                          log[m].session = s /\ log[m].time - log[k].time <= Timeout}

\* A decoder has gone through just these, and has the time of the last packet; a
\* speaker without one has not been heard for too long, if at all.
KeptInv ==
    \A s \in DOMAIN sessions :
        /\ sessions[s].frames = Carried(s)
        /\ \E i \in 1 .. Len(log) : Newest(s, i) /\ sessions[s].timepoint = log[i].time
DroppedInv ==
    \A s \in Sessions \ DOMAIN sessions :
        \A k \in 1 .. Len(log) : log[k].session = s => now - log[k].time > Timeout

\* Whoever has been heard has a last packet.
HasNewest ==
    \A k \in 1 .. Len(log) : \E i \in k .. Len(log) : Newest(log[k].session, i)

IInv == Types /\ Chronological /\ HasNewest /\ KeptInv /\ DroppedInv

-----------------------------------------------------------------------------
(***************************************************************************)
(* The test of the size fails only for a result of 0                       *)
(***************************************************************************)

LEMMA Division ==
    ASSUME NEW r \in Int, NEW n \in Nat \ {0}
    PROVE  r = n * (r \div n) + (r % n) /\ r \div n \in Int
OBVIOUS

LEMMA NotZero ==
    ASSUME NEW r \in Results
    PROVE  AsSize(r) \in 1 .. SizeOf - 1
<1>1. /\ r \in Int /\ r # 0 /\ -SizeOf < r /\ r < SizeOf /\ SizeOf \in Nat \ {0}
  BY ResultAssumption, SizeAssumption
<1>2. AsSize(r) \in 0 .. SizeOf - 1
  BY <1>1 DEF AsSize
<1>3. ASSUME AsSize(r) = 0 PROVE FALSE
  <2> DEFINE q == r \div SizeOf
             Q == SizeOf * q
  <2>1. q \in Int /\ r = Q
    BY <1>1, <1>3, Division DEF AsSize
  <2>2. q >= 1 => Q >= SizeOf
    BY <1>1, <2>1
  <2>3. q <= -1 => Q <= -SizeOf
    BY <1>1, <2>1
  <2>4. q = 0 => Q = 0
    BY <1>1
  <2> HIDE DEF q, Q
  <2> QED BY <1>1, <2>1, <2>2, <2>3, <2>4
<1> QED BY <1>2, <1>3

-----------------------------------------------------------------------------
LEMMA LogFacts ==
    ASSUME IInv
    PROVE  /\ now \in Nat /\ Timeout \in Nat /\ Len(log) \in Nat
           /\ \A k \in 1 .. Len(log) :
                 log[k] \in Packet /\ log[k].time \in Nat /\ log[k].time <= now
           /\ \A k \in 1 .. Len(log) : \A m \in k .. Len(log) : log[k].time <= log[m].time
<1>1. now \in Nat /\ log \in Seq(Packet)
  BY DEF IInv, Types
<1>2. \A k \in 1 .. Len(log) : log[k] \in Packet
  BY <1>1
<1>3. \A k \in 1 .. Len(log) : log[k].time \in Nat
  BY <1>2 DEF Packet
<1> QED BY <1>1, <1>2, <1>3, ClockAssumption DEF IInv, Chronological

\* A speaker whose decoder is not kept has not been heard for too long.
LEMMA Aged ==
    ASSUME IInv, NEW s \in Sessions, NEW t, s \notin Kept(t),
           NEW k \in 1 .. Len(log), log[k].session = s
    PROVE  now - log[k].time > Timeout
<1>1. CASE s \notin DOMAIN sessions
  BY <1>1 DEF IInv, DroppedInv
<1>2. CASE s \in DOMAIN sessions
  <2>1. ~(now - sessions[s].timepoint <= Timeout)
    BY <1>2 DEF Kept
  <2>2. PICK i \in 1 .. Len(log) : Newest(s, i) /\ sessions[s].timepoint = log[i].time
    BY <1>2 DEF IInv, KeptInv
  <2>3. k <= i
    BY <2>2, LogFacts DEF Newest
  <2>4. log[k].time <= log[i].time
    BY <2>2, <2>3, LogFacts
  <2> QED BY <2>1, <2>2, <2>4, LogFacts
<1> QED BY <1>1, <1>2

\* What the decoder of the next packet of s has gone through.
LEMMA FoundCarried ==
    ASSUME IInv, NEW s \in Sessions
    PROVE  Found(s).frames =
             {j \in 1 .. Len(log) :
                 /\ log[j].session = s
                 /\ log[j].result > 0
                 /\ \A k \in j .. Len(log) :
                       log[k].session = s =>
                          /\ ~log[k].last
                          /\ \/ now - log[k].time <= Timeout
                             \/ \E m \in k + 1 .. Len(log) :
                                   log[m].session = s /\ log[m].time - log[k].time <= Timeout}
<1> DEFINE Near(k) == \E m \in k + 1 .. Len(log) :
                          log[m].session = s /\ log[m].time - log[k].time <= Timeout
           Open(k) == now - log[k].time <= Timeout \/ Near(k)
           F == {j \in 1 .. Len(log) :
                    /\ log[j].session = s
                    /\ log[j].result > 0
                    /\ \A k \in j .. Len(log) : log[k].session = s => ~log[k].last /\ Open(k)}
<1>1. /\ now \in Nat /\ Timeout \in Nat /\ Len(log) \in Nat
      /\ \A k \in 1 .. Len(log) : log[k] \in Packet /\ log[k].time \in Nat /\ log[k].time <= now
      /\ \A k \in 1 .. Len(log) : \A m \in k .. Len(log) : log[k].time <= log[m].time
  BY LogFacts
<1>2. CASE s \in Kept(s)
  <2>1. /\ s \in DOMAIN sessions /\ now - sessions[s].timepoint <= Timeout
        /\ Found(s).frames = Carried(s)
    BY <1>2 DEF Kept, Found, IInv, KeptInv
  <2>2. PICK i \in 1 .. Len(log) : Newest(s, i) /\ sessions[s].timepoint = log[i].time
    BY <2>1 DEF IInv, KeptInv
  <2>3. now - log[i].time <= Timeout /\ log[i].session = s
    BY <2>1, <2>2 DEF Newest
  <2>4. ASSUME NEW k \in 1 .. Len(log), log[k].session = s
        PROVE  (Newest(s, k) \/ Near(k)) <=> Open(k)
    <3>1. CASE k = i
      BY <3>1, <2>2, <2>3
    <3>2. CASE k # i
      <4>1. ~Newest(s, k) /\ i \in k + 1 .. Len(log)
        BY <3>2, <2>4, <2>2 DEF Newest
      <4>2. ASSUME now - log[k].time <= Timeout PROVE Near(k)
        <5>1. log[i].time - log[k].time <= Timeout
          BY <4>2, <1>1, <2>2
        <5> QED BY <5>1, <4>1, <2>3
      <4> QED BY <4>1, <4>2
    <3> QED BY <3>1, <3>2
  <2>5. Carried(s) = F
    <3> HIDE DEF Near, Open
    <3>1. Carried(s) =
            {j \in 1 .. Len(log) :
                /\ log[j].session = s
                /\ log[j].result > 0
                /\ \A k \in j .. Len(log) :
                      log[k].session = s => ~log[k].last /\ (Newest(s, k) \/ Near(k))}
      BY DEF Carried, Near
    <3> QED BY <3>1, <2>4, <1>1
  <2> QED BY <2>1, <2>5
<1>3. CASE s \notin Kept(s)
  <2>1. Found(s).frames = {}
    BY <1>3 DEF Found, NewSession
  <2>2. ASSUME NEW k \in 1 .. Len(log), log[k].session = s PROVE now - log[k].time > Timeout
    BY <1>3, <2>2, Aged
  <2>3. ASSUME NEW j \in F PROVE FALSE
    <3>1. PICK i \in j .. Len(log) : Newest(s, i)
      BY <2>3, <1>1 DEF IInv, HasNewest
    <3>2. i \in 1 .. Len(log) /\ log[i].session = s /\ ~Near(i)
      BY <3>1, <2>3, <1>1 DEF Newest
    <3> QED BY <3>1, <3>2, <2>2, <2>3, <1>1
  <2> QED BY <2>1, <2>3
<1> QED BY <1>2, <1>3

-----------------------------------------------------------------------------
(***************************************************************************)
(* What a packet of s does to the log and to the decoders                  *)
(***************************************************************************)

Heard(s) ==
    LET n == Len(log) + 1
        p == log'[n]
    IN  /\ log' \in Seq(Packet) /\ Len(log') = n
        /\ \A i \in 1 .. Len(log) : log'[i] = log[i]
        /\ p.session = s /\ p.time = now /\ p.found = Found(s).frames
        /\ DOMAIN sessions' = Kept(s) \cup {s}
        /\ \A t \in Kept(s) : t # s => sessions'[t] = sessions[t]
        /\ sessions'[s] \in Session
        /\ sessions'[s].timepoint = now
        /\ p.last => sessions'[s].frames = {}
        /\ ~p.last /\ p.result > 0 => sessions'[s].frames = Found(s).frames \cup {n}
        /\ ~p.last /\ ~(p.result > 0) => sessions'[s].frames = Found(s).frames

LEMMA ProcessHeard ==
    ASSUME IInv, NEW s \in Sessions, NEW payload \in BOOLEAN, NEW last \in BOOLEAN,
           NEW result \in Results, Process(s, payload, last, result)
    PROVE  Heard(s)
<1> DEFINE n       == Len(log) + 1
           found   == Found(s)
           size    == IF payload THEN AsSize(result) ELSE 0
           decodes == payload /\ result > 0
           decoded == [found EXCEPT !.frames = IF decodes THEN @ \cup {n} ELSE @]
           throws  == payload /\ size <= 0
           new     == After(decoded, last)
           given   == IF payload THEN result ELSE 0
           p       == [session |-> s, time |-> now, last |-> last,
                       result |-> given, found |-> found.frames]
<1>1. ~throws
  BY NotZero, SizeAssumption
<1>2. found \in Session /\ found.frames \in SUBSET Nat
  BY DEF IInv, Types, Found, Kept, Session, NewSession
<1>3. log \in Seq(Packet) /\ now \in Nat /\ n \in Nat
  BY DEF IInv, Types
<1>4. given \in Int /\ (decodes <=> given > 0)
  BY ResultAssumption
<1>5. log' = Append(log, p)
  BY DEF Process
<1>6. sessions' = [t \in Kept(s) \cup {s} |->
                     IF t # s THEN sessions[t] ELSE IF throws THEN decoded ELSE new]
  BY DEF Process
<1>7. decodes => decoded.frames = found.frames \cup {n}
  BY <1>2 DEF Session
<1>8. ~decodes => decoded.frames = found.frames
  BY <1>2 DEF Session
<1>9. new.timepoint = now /\ (last => new.frames = {}) /\ (~last => new.frames = decoded.frames)
  BY DEF After
<1>10. new \in Session
  <2>1. decoded.frames \in SUBSET Nat
    BY <1>2, <1>3, <1>7, <1>8
  <2>2. new = [frames |-> IF last THEN {} ELSE decoded.frames, timepoint |-> now]
    BY DEF After
  <2> HIDE DEF decoded, new
  <2> QED BY <2>1, <2>2, <1>3 DEF Session
<1>11. p.session = s /\ p.time = now /\ p.last = last /\ p.result = given /\ p.found = found.frames
  OBVIOUS
<1>12. p \in Packet
  BY <1>2, <1>3, <1>4 DEF Packet
<1> HIDE DEF found, size, decodes, decoded, throws, new, given, p
<1>13. /\ log' \in Seq(Packet) /\ Len(log') = n /\ log'[n] = p
       /\ \A i \in 1 .. Len(log) : log'[i] = log[i]
  BY <1>3, <1>5, <1>12
<1>14. /\ DOMAIN sessions' = Kept(s) \cup {s}
       /\ \A t \in Kept(s) : t # s => sessions'[t] = sessions[t]
       /\ sessions'[s] = new
  BY <1>1, <1>6
<1>15. /\ last => new.frames = {}
       /\ ~last /\ given > 0 => new.frames = found.frames \cup {n}
       /\ ~last /\ ~(given > 0) => new.frames = found.frames
  BY <1>4, <1>7, <1>8, <1>9, Zenon
<1> QED BY <1>9, <1>10, <1>11, <1>13, <1>14, <1>15, Zenon DEF Heard, found, n

-----------------------------------------------------------------------------
(***************************************************************************)
(* The steps                                                               *)
(***************************************************************************)

LEMMA TypesStep ==
    ASSUME IInv, NEW s \in Sessions, Heard(s), now' = now
    PROVE  Types'
<1>1. DOMAIN sessions' = Kept(s) \cup {s} /\ Kept(s) \subseteq DOMAIN sessions
  BY DEF Heard, Kept
<1>2. \A t \in Kept(s) : t # s => sessions'[t] = sessions[t]
  BY DEF Heard
<1>3. sessions'[s] \in Session
  BY DEF Heard
<1>4. DOMAIN sessions' \subseteq Sessions /\ \A t \in DOMAIN sessions' : sessions'[t] \in Session
  BY <1>1, <1>2, <1>3 DEF IInv, Types
<1>5. log' \in Seq(Packet) /\ now' \in Nat
  BY DEF Heard, IInv, Types
<1> QED BY <1>4, <1>5 DEF Types

LEMMA LogStep ==
    ASSUME IInv, NEW s \in Sessions, Heard(s), now' = now
    PROVE  Chronological' /\ HasNewest'
<1> DEFINE n == Len(log) + 1
<1>1. /\ Len(log) \in Nat /\ Len(log') = n
      /\ \A i \in 1 .. Len(log) : log'[i] = log[i]
      /\ log'[n].session = s /\ log'[n].time = now /\ now \in Nat
  BY LogFacts DEF Heard
<1>2. Chronological'
  <2>1. ASSUME NEW i \in 1 .. n
        PROVE  log'[i].time <= now /\ \A j \in i .. n : log'[i].time <= log'[j].time
    BY <1>1, LogFacts
  <2> QED BY <2>1, <1>1 DEF Chronological
<1>3. ASSUME NEW k \in 1 .. n, NEW t, log'[k].session = t
      PROVE  \E i \in k .. n : Newest(t, i)'
  <2>1. CASE t = s
    BY <2>1, <1>1 DEF Newest
  <2>2. CASE t # s
    <3>1. k \in 1 .. Len(log) /\ log[k].session = t
      BY <2>2, <1>1, <1>3
    <3>2. PICK i \in k .. Len(log) : Newest(t, i)
      BY <3>1 DEF IInv, HasNewest
    <3>3. Newest(t, i)'
      BY <3>1, <3>2, <2>2, <1>1 DEF Newest
    <3> QED BY <3>1, <3>2, <3>3, <1>1
  <2> QED BY <2>1, <2>2
<1>4. HasNewest'
  BY <1>1, <1>3 DEF HasNewest
<1> QED BY <1>2, <1>4

\* A packet of another session changes nothing about one.
LEMMA OthersCarried ==
    ASSUME IInv, NEW s \in Sessions, Heard(s), NEW t \in Sessions, t # s
    PROVE  /\ \A i \in 1 .. Len(log) : Newest(t, i) => Newest(t, i)'
           /\ Carried(t)' = Carried(t)
<1> DEFINE n == Len(log) + 1
<1>1. /\ Len(log) \in Nat /\ Len(log') = n
      /\ \A i \in 1 .. Len(log) : log'[i] = log[i]
      /\ log'[n].session = s
  BY LogFacts DEF Heard
<1> HIDE DEF n
<1>2. ASSUME NEW k \in 1 .. Len(log) PROVE Newest(t, k)' <=> Newest(t, k)
  BY <1>1 DEF Newest, n
<1> DEFINE Near(k)  == \E m \in k + 1 .. Len(log) :
                          log[m].session = t /\ log[m].time - log[k].time <= Timeout
           Whole(j) == \A k \in j .. Len(log) :
                          log[k].session = t => ~log[k].last /\ (Newest(t, k) \/ Near(k))
<1>3. ASSUME NEW k \in 1 .. Len(log) PROVE Near(k)' <=> Near(k)
  BY <1>1 DEF n
<1>4. ASSUME NEW j \in 1 .. Len(log) PROVE Whole(j)' <=> Whole(j)
  <2> HIDE DEF Near
  <2>1. \A k \in j .. n : log'[k].session = t <=> k \in j .. Len(log) /\ log[k].session = t
    BY <1>1 DEF n
  <2>2. \A k \in j .. Len(log) : log'[k] = log[k] /\ k \in 1 .. Len(log) /\ k \in j .. n
    BY <1>1 DEF n
  <2> QED BY <1>1, <1>2, <1>3, <2>1, <2>2
<1>5. Carried(t) = {j \in 1 .. Len(log) :
                       log[j].session = t /\ log[j].result > 0 /\ Whole(j)}
  BY DEF Carried
<1>6. Carried(t)' = {j \in 1 .. n :
                        log'[j].session = t /\ log'[j].result > 0 /\ Whole(j)'}
  BY <1>1 DEF Carried
<1> HIDE DEF Whole
<1> QED BY <1>1, <1>2, <1>4, <1>5, <1>6 DEF n

\* What the next packet of s finds: that of FoundCarried.
LEMMA OwnCarried ==
    ASSUME IInv, NEW s \in Sessions, Heard(s), now' = now
    PROVE  sessions'[s].frames = Carried(s)'
<1> DEFINE n == Len(log) + 1
           Near(k) == \E m \in k + 1 .. Len(log) :
                          log[m].session = s /\ log[m].time - log[k].time <= Timeout
           Open(k) == now - log[k].time <= Timeout \/ Near(k)
           F == {j \in 1 .. Len(log) :
                    /\ log[j].session = s
                    /\ log[j].result > 0
                    /\ \A k \in j .. Len(log) : log[k].session = s => ~log[k].last /\ Open(k)}
<1>1. /\ Len(log) \in Nat /\ Len(log') = n /\ n \in Nat
      /\ \A i \in 1 .. Len(log) : log'[i] = log[i]
      /\ log'[n].session = s /\ log'[n].time = now
  BY LogFacts DEF Heard
<1>2. Found(s).frames = F
  BY FoundCarried
<1> DEFINE NearNext(k) == \E m \in k + 1 .. n :
                             log'[m].session = s /\ log'[m].time - log'[k].time <= Timeout
<1>3. ASSUME NEW k \in 1 .. Len(log), log[k].session = s
      PROVE  (Newest(s, k)' \/ NearNext(k)) <=> Open(k)
  <2>1. ~Newest(s, k)'
    BY <1>1 DEF Newest
  <2>2. NearNext(k) <=> Open(k)
    BY <1>1
  <2> QED BY <2>1, <2>2
<1>4. \A k : k = n => Newest(s, k)'
  BY <1>1 DEF Newest
<1>5. Carried(s)' = {j \in 1 .. n :
                        /\ log'[j].session = s
                        /\ log'[j].result > 0
                        /\ \A k \in j .. n :
                              log'[k].session = s =>
                                  ~log'[k].last /\ (Newest(s, k)' \/ NearNext(k))}
  BY <1>1 DEF Carried
<1> HIDE DEF NearNext, Open
<1>6. CASE log'[n].last
  <2>1. Carried(s)' = {}
    BY <1>1, <1>5, <1>6
  <2> QED BY <2>1, <1>6 DEF Heard
<1>7. CASE ~log'[n].last
  <2>1. ASSUME NEW j \in 1 .. Len(log) PROVE j \in Carried(s)' <=> j \in F
    <3> DEFINE Ahead == \A k \in j .. n :
                           log'[k].session = s =>
                               ~log'[k].last /\ (Newest(s, k)' \/ NearNext(k))
               Here  == \A k \in j .. Len(log) : log[k].session = s => ~log[k].last /\ Open(k)
    <3>1. j \in Carried(s)' <=> log[j].session = s /\ log[j].result > 0 /\ Ahead
      BY <1>1, <1>5
    <3>2. j \in F <=> log[j].session = s /\ log[j].result > 0 /\ Here
      OBVIOUS
    <3>3. \A k \in j .. Len(log) : k \in 1 .. Len(log) /\ k \in j .. n /\ log'[k] = log[k]
      BY <1>1
    <3>4. \A k \in j .. n : k \in j .. Len(log) \/ k = n
      BY <1>1
    <3>5. Ahead => Here
      BY <1>3, <3>3
    <3>6. Here => Ahead
      BY <1>3, <1>4, <1>7, <3>3, <3>4
    <3> HIDE DEF Ahead, Here, F
    <3> QED BY <3>1, <3>2, <3>5, <3>6
  <2>2. n \in Carried(s)' <=> log'[n].result > 0
    BY <1>1, <1>4, <1>5, <1>7
  <2>3. \A j : j \in Carried(s)' => j \in 1 .. Len(log) \/ j = n
    BY <1>1, <1>5
  <2>4. \A j \in F : j \in 1 .. Len(log)
    OBVIOUS
  <2> HIDE DEF F, n
  <2>5. /\ log'[n].result > 0 => Carried(s)' = F \cup {n}
        /\ ~(log'[n].result > 0) => Carried(s)' = F
    <3>1. log'[n].result > 0 => \A j : j \in Carried(s)' <=> j \in F \/ j = n
      BY <2>1, <2>2, <2>3, <2>4, Zenon
    <3>2. ~(log'[n].result > 0) => \A j : j \in Carried(s)' <=> j \in F
      BY <2>1, <2>2, <2>3, <2>4, Zenon
    <3> QED BY <3>1, <3>2, Zenon
  <2>6. /\ log'[n].result > 0 => sessions'[s].frames = Found(s).frames \cup {n}
        /\ ~(log'[n].result > 0) => sessions'[s].frames = Found(s).frames
    BY <1>7 DEF Heard, n
  <2> QED BY <2>5, <2>6, <1>2
<1> QED BY <1>6, <1>7

LEMMA KeptStep ==
    ASSUME IInv, NEW s \in Sessions, Heard(s), now' = now
    PROVE  KeptInv'
<1> DEFINE n == Len(log) + 1
<1>1. /\ Len(log) \in Nat /\ Len(log') = n
      /\ \A i \in 1 .. Len(log) : log'[i] = log[i]
      /\ log'[n].session = s /\ log'[n].time = now
      /\ DOMAIN sessions' = Kept(s) \cup {s}
      /\ Kept(s) \subseteq DOMAIN sessions /\ DOMAIN sessions \subseteq Sessions
  BY LogFacts DEF Heard, Kept, IInv, Types
<1> HIDE DEF n
<1>2. ASSUME NEW t \in Kept(s), t # s
      PROVE  /\ sessions'[t].frames = Carried(t)'
             /\ \E i \in 1 .. n : Newest(t, i)' /\ sessions'[t].timepoint = log'[i].time
  <2>1. sessions'[t] = sessions[t] /\ t \in DOMAIN sessions /\ t \in Sessions
    BY <1>1, <1>2 DEF Heard
  <2>2. PICK i \in 1 .. Len(log) : Newest(t, i) /\ sessions[t].timepoint = log[i].time
    BY <2>1 DEF IInv, KeptInv
  <2>3. Newest(t, i)' /\ log'[i] = log[i] /\ i \in 1 .. n
    BY <1>1, <1>2, <2>1, <2>2, OthersCarried DEF n
  <2>4. sessions[t].frames = Carried(t)'
    BY <1>2, <2>1, OthersCarried DEF IInv, KeptInv
  <2> QED BY <2>1, <2>2, <2>3, <2>4
<1>3. /\ sessions'[s].frames = Carried(s)'
      /\ \E i \in 1 .. n : Newest(s, i)' /\ sessions'[s].timepoint = log'[i].time
  <2>1. \A k : k = n => Newest(s, k)' /\ k \in 1 .. n
    BY <1>1 DEF Newest, n
  <2>2. sessions'[s].frames = Carried(s)' /\ sessions'[s].timepoint = log'[n].time
    BY <1>1, OwnCarried DEF Heard
  <2> QED BY <2>1, <2>2
<1> QED BY <1>1, <1>2, <1>3 DEF KeptInv

LEMMA DroppedStep ==
    ASSUME IInv, NEW s \in Sessions, Heard(s), now' = now
    PROVE  DroppedInv'
<1> SUFFICES ASSUME NEW t \in Sessions, t \notin DOMAIN sessions',
                    NEW k \in 1 .. Len(log'), log'[k].session = t
             PROVE  now - log'[k].time > Timeout
  BY DEF DroppedInv
<1>1. t # s /\ t \notin Kept(s)
  BY DEF Heard
<1>2. k \in 1 .. Len(log) /\ log'[k] = log[k]
  BY <1>1, LogFacts DEF Heard
<1> QED BY <1>1, <1>2, Aged

\* What only the log says.
LEMMA SameLog ==
    ASSUME log' = log
    PROVE  /\ \A s, i : Newest(s, i)' <=> Newest(s, i)
           /\ \A s : Carried(s)' = Carried(s)
           /\ HasNewest' <=> HasNewest
           /\ sessions' = sessions => (KeptInv' <=> KeptInv)
<1>1. \A s, i : Newest(s, i)' <=> Newest(s, i)
  BY DEF Newest
<1>2. \A s : Carried(s)' = Carried(s)
  BY <1>1 DEF Carried
<1>3. HasNewest' <=> HasNewest
  BY <1>1 DEF HasNewest
<1>4. sessions' = sessions => (KeptInv' <=> KeptInv)
  BY <1>1, <1>2 DEF KeptInv
<1> QED BY <1>1, <1>2, <1>3, <1>4

\* The clock goes on.
LEMMA TickStep == ASSUME IInv, Tick PROVE IInv'
<1>1. now' = now + 1 /\ log' = log /\ sessions' = sessions /\ now \in Nat /\ Timeout \in Nat
  BY ClockAssumption DEF Tick, IInv, Types
<1>2. \A k \in 1 .. Len(log) : log[k].time \in Nat /\ log[k].time <= now
  BY LogFacts
<1>3. Types' /\ HasNewest' /\ KeptInv'
  BY <1>1, SameLog DEF IInv, Types
<1>4. Chronological'
  BY <1>1, <1>2 DEF IInv, Chronological
<1>5. DroppedInv'
  BY <1>1, <1>2 DEF IInv, DroppedInv
<1> QED BY <1>3, <1>4, <1>5 DEF IInv

LEMMA InitInv == Init => IInv
BY DEF Init, IInv, Types, Chronological, HasNewest, KeptInv, DroppedInv

\* A step of the module is a packet, a tick of the clock, or nothing.
LEMMA Steps ==
    ASSUME IInv, [Next]_vars
    PROVE  \/ \E s \in Sessions : Heard(s) /\ now' = now
           \/ Tick
           \/ UNCHANGED vars
<1>1. ASSUME NEW s \in Sessions, ProcessAudioPacket(s) PROVE Heard(s) /\ now' = now
  BY <1>1, ProcessHeard DEF ProcessAudioPacket
<1> QED BY <1>1 DEF Next

LEMMA NextInv == IInv /\ [Next]_vars => IInv'
<1> SUFFICES ASSUME IInv, [Next]_vars PROVE IInv'
  OBVIOUS
<1>1. ASSUME NEW s \in Sessions, Heard(s), now' = now PROVE IInv'
  BY <1>1, TypesStep, LogStep, KeptStep, DroppedStep DEF IInv
<1>2. CASE UNCHANGED vars
  BY <1>2, SameLog DEF vars, IInv, Types, Chronological, DroppedInv
<1> QED BY <1>1, <1>2, TickStep, Steps

-----------------------------------------------------------------------------
(***************************************************************************)
(* The properties                                                          *)
(***************************************************************************)

LEMMA SpurtStep ==
    ASSUME IInv, NEW s \in Sessions, Heard(s), now' = now, DecoderRemembersSpurt
    PROVE  DecoderRemembersSpurt'
<1> DEFINE n == Len(log) + 1
<1>1. /\ Len(log) \in Nat /\ log \in Seq(Packet) /\ log' \in Seq(Packet) /\ Len(log') = n
      /\ \A i \in 1 .. Len(log) : log'[i] = log[i]
      /\ log'[n].session = s /\ log'[n].time = now /\ log'[n].found = Found(s).frames
  BY LogFacts DEF Heard, IInv, Types
<1>2. ASSUME NEW i \in 1 .. Len(log) PROVE log'[i].found = SpurtBefore(i)'
  <2> DEFINE Near(k) == \E m \in k + 1 .. i :
                            log[m].session = log[i].session
                            /\ log[m].time - log[k].time <= Timeout
             In(j) == \A k \in j .. i - 1 :
                         log[k].session = log[i].session => ~log[k].last /\ Near(k)
  <2>1. \A k \in 1 .. i : log'[k] = log[k] /\ k \in 1 .. Len(log)
    BY <1>1
  <2>2. ASSUME NEW k \in 1 .. i - 1 PROVE Near(k)' <=> Near(k)
    <3>1. \A m \in k + 1 .. i : log'[m] = log[m]
      BY <2>1
    <3>2. log'[k] = log[k] /\ log'[i] = log[i]
      BY <2>1
    <3> QED BY <3>1, <3>2
  <2>3. ASSUME NEW j \in 1 .. i - 1 PROVE In(j)' <=> In(j)
    <3>1. \A k \in j .. i - 1 : k \in 1 .. i - 1 /\ log'[k] = log[k]
      BY <2>1
    <3>2. log'[i] = log[i]
      BY <2>1
    <3> HIDE DEF Near
    <3> QED BY <2>2, <3>1, <3>2
  <2>4. /\ SpurtBefore(i) = {j \in 1 .. i - 1 :
                                log[j].session = log[i].session /\ log[j].result > 0 /\ In(j)}
        /\ SpurtBefore(i)' = {j \in 1 .. i - 1 :
                                log'[j].session = log'[i].session /\ log'[j].result > 0 /\ In(j)'}
    BY DEF SpurtBefore
  <2>5. SpurtBefore(i)' = SpurtBefore(i)
    <3> HIDE DEF In
    <3> QED BY <2>1, <2>3, <2>4
  <2> QED BY <2>5, <1>1 DEF DecoderRemembersSpurt
<1>3. ASSUME NEW i, i = n PROVE log'[i].found = SpurtBefore(i)'
  <2> DEFINE Near(k) == \E m \in k + 1 .. Len(log) :
                            log[m].session = s /\ log[m].time - log[k].time <= Timeout
             Open(k) == now - log[k].time <= Timeout \/ Near(k)
             OpenNext(k) == \E m \in k + 1 .. n :
                               log'[m].session = s /\ log'[m].time - log'[k].time <= Timeout
  <2>1. SpurtBefore(i)' =
          {j \in 1 .. Len(log) :
              /\ log'[j].session = s
              /\ log'[j].result > 0
              /\ \A k \in j .. Len(log) : log'[k].session = s => ~log'[k].last /\ OpenNext(k)}
    BY <1>1, <1>3 DEF SpurtBefore
  <2>2. Found(s).frames =
          {j \in 1 .. Len(log) :
              /\ log[j].session = s
              /\ log[j].result > 0
              /\ \A k \in j .. Len(log) : log[k].session = s => ~log[k].last /\ Open(k)}
    BY FoundCarried
  <2>3. \A k \in 1 .. Len(log) : OpenNext(k) <=> Open(k)
    BY <1>1
  <2>4. log'[i].found = Found(s).frames
    BY <1>1, <1>3
  <2> HIDE DEF Open, OpenNext
  <2> QED BY <1>1, <2>1, <2>2, <2>3, <2>4
<1>4. DOMAIN log' = 1 .. n
  BY <1>1
<1> QED BY <1>1, <1>2, <1>3, <1>4 DEF DecoderRemembersSpurt

LEMMA SpurtInv == IInv /\ DecoderRemembersSpurt /\ [Next]_vars => DecoderRemembersSpurt'
<1>1. ASSUME log' = log, DecoderRemembersSpurt PROVE DecoderRemembersSpurt'
  BY <1>1 DEF DecoderRemembersSpurt, SpurtBefore
<1> QED BY <1>1, SpurtStep, Steps DEF Tick, vars

LEMMA IdleInv == IInv /\ IdleDropped /\ [Next]_vars => IdleDropped'
<1> SUFFICES ASSUME IInv, IdleDropped, [Next]_vars PROVE IdleDropped'
  OBVIOUS
<1>1. ASSUME NEW s \in Sessions, Heard(s), now' = now PROVE IdleDropped'
  <2>1. log'[Len(log')].time = now /\ now \in Nat /\ Timeout \in Nat
    BY <1>1, LogFacts DEF Heard
  <2>2. \A t \in DOMAIN sessions' : now - sessions'[t].timepoint <= Timeout
    <3>1. DOMAIN sessions' = Kept(s) \cup {s} /\ sessions'[s].timepoint = now
      BY <1>1 DEF Heard
    <3>2. \A t \in Kept(s) : t # s => now - sessions'[t].timepoint <= Timeout
      BY <1>1 DEF Heard, Kept
    <3> QED BY <2>1, <3>1, <3>2
  <2> QED BY <2>1, <2>2 DEF IdleDropped
<1>2. ASSUME log' = log, sessions' = sessions PROVE IdleDropped'
  BY <1>2 DEF IdleDropped
<1> QED BY <1>1, <1>2, Steps DEF Tick, vars

\* The size a callback is given is a size_t.
Sized == heard # None => heard.size \in 0 .. SizeOf - 1

LEMMA SizedInv == Sized /\ [Next]_vars => Sized'
<1> SUFFICES ASSUME Sized, [Next]_vars PROVE Sized'
  OBVIOUS
<1>1. ASSUME NEW s \in Sessions, NEW payload \in BOOLEAN, NEW last \in BOOLEAN,
             NEW result \in Results, Process(s, payload, last, result)
      PROVE  Sized'
  <2> DEFINE size == IF payload THEN AsSize(result) ELSE 0
  <2>1. size \in 0 .. SizeOf - 1
    BY NotZero, SizeAssumption
  <2>2. heard' = heard \/ heard' = [index |-> Len(log) + 1, buffer |-> payload, size |-> size]
    BY <1>1 DEF Process
  <2> HIDE DEF size
  <2> QED BY <2>1, <2>2 DEF Sized
<1>2. ASSUME heard' = heard PROVE Sized'
  BY <1>2 DEF Sized
<1> QED BY <1>1, <1>2 DEF Next, ProcessAudioPacket, Tick, vars

LEMMA TypeFacts == IInv /\ Sized => TypeOK
<1> SUFFICES ASSUME IInv, Sized, NEW s \in DOMAIN sessions PROVE sessions[s].timepoint <= now
  BY DEF IInv, Types, Sized, TypeOK
<1>1. PICK i \in 1 .. Len(log) : sessions[s].timepoint = log[i].time
  BY DEF IInv, KeptInv
<1> QED BY <1>1, LogFacts

LEMMA InitProperties == Init => Sized /\ DecoderRemembersSpurt /\ IdleDropped
BY DEF Init, Sized, DecoderRemembersSpurt, IdleDropped

\* The type invariant of the decoders, their log and the last callback.
THEOREM TypeCorrect == Spec => []TypeOK
BY InitInv, NextInv, InitProperties, SizedInv, TypeFacts, PTL DEF Spec

\* Each packet is decoded by a decoder that has gone through its spurt of speech so
\* far, whole, and through nothing else.
THEOREM SpurtRemembered == Spec => []DecoderRemembersSpurt
BY InitInv, NextInv, InitProperties, SpurtInv, PTL DEF Spec

\* No decoder that has been idle for too long is left when a packet has been
\* processed.
THEOREM NoneIdle == Spec => []IdleDropped
BY InitInv, NextInv, InitProperties, IdleInv, PTL DEF Spec
=============================================================================
