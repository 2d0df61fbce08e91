--------------------------- MODULE CryptLossProofs ---------------------------
(***************************************************************************)
(* What decrypt makes of datagrams that are late or lost: none that is     *)
(* fresh and near is refused, and the counter of the lost ones is exact.   *)
(***************************************************************************)
EXTENDS CryptStateProofs, FunctionTheorems

USE DEF Byte, IV, Datagram

-----------------------------------------------------------------------------
(***************************************************************************)
(* Where the receiver is                                                   *)
(***************************************************************************)

\* A key's datagrams are numbered from its nonce on.
SentAbove ==
    \A p \in sent : p.key \in 1 .. Len(setups) /\ Num(p.iv) > Num(setups[p.key])

\* The receiver's nonce is that of a datagram it has opened, or the key's own.
NewestOpened ==
    raw_key > 0 =>
        \/ decrypt_iv = setups[raw_key]
        \/ \E q \in accepted : q.key = raw_key /\ q.iv = decrypt_iv

\* A slot holds byte 1 of the newest datagram of this key that has its byte 0.
SlotNewest ==
    \A q \in accepted :
        q.key = raw_key =>
            \E r \in accepted :
                /\ r.key = raw_key
                /\ r.iv.lo = q.iv.lo
                /\ Num(r.iv) >= Num(q.iv)
                /\ decrypt_history[q.iv.lo] = r.iv.hi % Base

NInv == SentAbove /\ NewestOpened /\ SlotNewest

\* What a step that opens p has to do to keep it.
LEMMA OpenNewest ==
    ASSUME IInv, NInv, NEW p \in sent, TagMatches(p), Accept(p), decrypt_iv' \in IV,
           Num(p.iv) > Num(decrypt_iv) - LateWindow,
           decrypt_iv' = decrypt_iv \/ decrypt_iv' = p.iv
    PROVE  NInv'
<1>1. /\ p \in Datagram /\ p.iv \in IV /\ p.iv.lo \in Byte /\ p.key = raw_key /\ p \in accepted'
      /\ setups' = setups /\ sent' = sent /\ raw_key' = raw_key /\ accepted' = accepted \cup {p}
      /\ decrypt_history' = [decrypt_history EXCEPT ![p.iv.lo] = p.iv.hi % Base]
      /\ decrypt_history \in [Byte -> Byte] /\ accepted \subseteq Datagram
  BY DEF IInv, TypeOK, Accept, sender, TagMatches
<1>2. SentAbove'
  BY <1>1 DEF NInv, SentAbove, Num
<1>3. NewestOpened'
  BY <1>1 DEF NInv, NewestOpened
<1>4. SlotNewest'
  <2> SUFFICES ASSUME NEW q \in accepted', q.key = raw_key
               PROVE  \E r \in accepted' :
                          /\ r.key = raw_key
                          /\ r.iv.lo = q.iv.lo
                          /\ Num(r.iv) >= Num(q.iv)
                          /\ decrypt_history'[q.iv.lo] = r.iv.hi % Base
    BY <1>1 DEF SlotNewest, Num
  <2>1. /\ Num(p.iv) \in Int /\ Num(decrypt_iv) \in Int
        /\ q.iv \in IV /\ q.iv.lo \in Byte /\ Num(q.iv) \in Int
    BY <1>1, NumInt DEF IInv, TypeOK
  <2>2. CASE q.iv.lo = p.iv.lo
    <3>1. decrypt_history'[q.iv.lo] = p.iv.hi % Base
      BY <1>1, <2>2
    <3>2. Num(p.iv) >= Num(q.iv)
      <4>1. CASE q = p
        BY <4>1, <2>1
      <4>2. CASE q \in accepted
        <5>1. Num(q.iv) <= Num(decrypt_iv)
          BY <4>2 DEF IInv, WindowRemembered
        <5>2. Num(q.iv) < Num(p.iv) + Base
          BY <5>1, <2>1, Widths
        <5>3. ASSUME Num(p.iv) < Num(q.iv) PROVE q.iv = p.iv
          <6>1. Num(p.iv) < Num(q.iv) + Base
            BY <5>3, <2>1, Widths
          <6> QED BY <6>1, <5>2, <2>1, <2>2, <1>1, SameSlot
        <5> QED BY <5>3, <2>1
      <4> QED BY <4>1, <4>2, <1>1
    <3> QED BY <3>1, <3>2, <2>2, <1>1
  <2>3. CASE q.iv.lo # p.iv.lo
    <3>1. q \in accepted
      BY <1>1, <2>3
    <3>2. PICK r \in accepted :
              /\ r.key = raw_key
              /\ r.iv.lo = q.iv.lo
              /\ Num(r.iv) >= Num(q.iv)
              /\ decrypt_history[q.iv.lo] = r.iv.hi % Base
      BY <3>1 DEF NInv, SlotNewest
    <3>3. decrypt_history'[q.iv.lo] = decrypt_history[q.iv.lo]
      BY <1>1, <2>1, <2>3
    <3> QED BY <3>2, <3>3, <1>1
  <2> QED BY <2>2, <2>3
<1> QED BY <1>2, <1>3, <1>4 DEF NInv

\* What the three ways to open a datagram have in common.
LEMMA OpensInWindow ==
    ASSUME IInv, NEW p \in sent,
           DecryptInOrder(p) \/ DecryptLate(p) \/ DecryptAhead(p)
    PROVE  /\ TagMatches(p) /\ Accept(p) /\ decrypt_iv' \in IV /\ p \notin accepted
           /\ Num(p.iv) > Num(decrypt_iv) - LateWindow
           /\ \/ decrypt_iv' = decrypt_iv /\ Num(p.iv) < Num(decrypt_iv)
              \/ decrypt_iv' = p.iv /\ Num(p.iv) > Num(decrypt_iv)
<1>1. /\ p \in Datagram /\ p.iv \in IV /\ p.iv.lo \in Byte /\ decrypt_iv \in IV
      /\ Num(decrypt_iv) \in Int /\ Num(p.iv) \in Int /\ Diff(p.iv.lo) \in Int
  BY NumInt, DiffInt DEF IInv, TypeOK
<1>2. TagMatches(p) /\ Accept(p) /\ p.iv = Candidate(p.iv.lo)
  BY DEF DecryptInOrder, DecryptLate, DecryptAhead, TagMatches
<1>3. p \notin accepted
  BY <1>2, OpensOnlyNew DEF DecryptInOrder, DecryptLate, DecryptAhead
<1>4. CASE DecryptInOrder(p)
  <2>1. Num(p.iv) = Num(decrypt_iv) + 1 /\ decrypt_iv' = p.iv
    BY <1>1, <1>2, <1>4, InOrderNum DEF DecryptInOrder
  <2> QED BY <2>1, <1>1, <1>2, <1>3, Widths
<1>5. CASE DecryptLate(p)
  <2>1. /\ Num(p.iv) = Num(decrypt_iv) + Diff(p.iv.lo) /\ decrypt_iv' = decrypt_iv
        /\ -LateWindow < Diff(p.iv.lo) /\ Diff(p.iv.lo) < 0
    BY <1>1, <1>2, <1>5, LateNum DEF DecryptLate, Late
  <2> QED BY <2>1, <1>1, <1>2, <1>3, Widths
<1>6. CASE DecryptAhead(p)
  <2>1. Num(p.iv) = Num(decrypt_iv) + Diff(p.iv.lo) /\ decrypt_iv' = p.iv /\ Diff(p.iv.lo) > 0
    BY <1>1, <1>2, <1>6, AheadNum DEF DecryptAhead, Ahead
  <2> QED BY <2>1, <1>1, <1>2, <1>3, Widths
<1> QED BY <1>4, <1>5, <1>6

LEMMA NewestInv == IInv /\ SInv /\ NInv /\ [Next]_vars => NInv'
<1> SUFFICES ASSUME IInv, SInv, NInv, [Next]_vars PROVE NInv'
  OBVIOUS
<1>0. /\ TypeOK /\ Len(setups) \in Nat /\ setups \in Seq(Nonces) /\ raw_key \in 0 .. Len(setups)
      /\ \A k \in 1 .. Len(setups) : setups[k] \in IV
  <2>1. \A k \in 1 .. Len(setups) : setups[k] \in Nonces
    BY DEF IInv, TypeOK
  <2>2. \A k \in 1 .. Len(setups) : setups[k] \in IV
    BY <2>1, NonceAssumption, Widths
  <2> QED BY <2>2 DEF IInv, TypeOK
<1>1. ASSUME NEW nonce \in Nonces, Setup(nonce) PROVE NInv'
  <2>1. /\ setups' = Append(setups, nonce) /\ Len(setups') = Len(setups) + 1
        /\ \A k \in 1 .. Len(setups) : setups'[k] = setups[k]
        /\ sent' = sent /\ raw_key' = raw_key /\ decrypt_iv' = decrypt_iv
        /\ accepted' = accepted /\ decrypt_history' = decrypt_history
    BY <1>0, <1>1 DEF Setup
  <2>2. SentAbove'
    BY <1>0, <2>1 DEF NInv, SentAbove, Num
  <2>3. NewestOpened'
    BY <1>0, <2>1 DEF NInv, NewestOpened
  <2>4. SlotNewest'
    BY <2>1 DEF NInv, SlotNewest, Num
  <2> QED BY <2>2, <2>3, <2>4 DEF NInv
<1>2. CASE SetKey
  <2>1. /\ raw_key' = raw_key + 1 /\ decrypt_iv' = setups[raw_key']
        /\ setups' = setups /\ sent' = sent /\ accepted' = accepted
    BY <1>2 DEF SetKey, sender
  <2>2. SentAbove' /\ NewestOpened'
    BY <2>1 DEF NInv, SentAbove, NewestOpened, Num
  <2>3. \A q \in accepted : q.key \in Nat /\ q.key < raw_key'
    BY <1>0, <2>1 DEF IInv, KnownKeys, TypeOK
  <2>4. SlotNewest'
    BY <1>0, <2>1, <2>3 DEF SlotNewest
  <2> QED BY <2>2, <2>4 DEF NInv
<1>3. CASE Encrypt
  <2> DEFINE p == [key |-> Len(setups), iv |-> encrypt_iv']
  <2>1. /\ setups' = setups /\ sent' = sent \cup {p} /\ setups # << >>
        /\ encrypt_iv \in IV /\ encrypt_iv' = Increment(encrypt_iv)
        /\ raw_key' = raw_key /\ decrypt_iv' = decrypt_iv
        /\ accepted' = accepted /\ decrypt_history' = decrypt_history
    BY <1>0, <1>3 DEF Encrypt, TypeOK
  <2>2. Num(encrypt_iv') = Num(encrypt_iv) + 1 /\ Num(encrypt_iv) \in Int
    BY <2>1, IncrementNum, NumInt
  <2>3. p.key = Len(setups) /\ p.iv = encrypt_iv' /\ Len(setups) \in 1 .. Len(setups)
    BY <1>0, <2>1
  <2> HIDE DEF p
  <2>4. Num(p.iv) > Num(setups[Len(setups)])
    <3>1. Num(setups[Len(setups)]) \in Int
      BY <1>0, <2>3, NumInt
    <3>2. CASE Num(encrypt_iv) = Num(setups[Len(setups)])
      BY <3>1, <3>2, <2>2, <2>3
    <3>3. ASSUME NEW q \in sent, q.key = Len(setups), Num(q.iv) = Num(encrypt_iv)
          PROVE  Num(p.iv) > Num(setups[Len(setups)])
      <4>1. Num(q.iv) > Num(setups[Len(setups)])
        BY <3>3 DEF NInv, SentAbove
      <4> QED BY <4>1, <3>1, <3>3, <2>2, <2>3
    <3> QED BY <3>2, <3>3, <2>1 DEF SInv, SentLast
  <2>5. SentAbove'
    BY <2>1, <2>3, <2>4 DEF NInv, SentAbove, Num
  <2>6. NewestOpened' /\ SlotNewest'
    BY <2>1 DEF NInv, NewestOpened, SlotNewest, Num
  <2> QED BY <2>5, <2>6 DEF NInv
<1>4. ASSUME NEW p \in sent, Decrypt(p) PROVE NInv'
  <2>1. CASE DecryptReject(p)
    BY <2>1 DEF DecryptReject, vars, NInv, SentAbove, NewestOpened, SlotNewest, Num
  <2>2. CASE DecryptInOrder(p) \/ DecryptLate(p) \/ DecryptAhead(p)
    BY <2>2, OpensInWindow, OpenNewest
  <2> QED BY <1>4, <2>1, <2>2 DEF Decrypt
<1>5. CASE UNCHANGED vars
  BY <1>5 DEF vars, NInv, SentAbove, NewestOpened, SlotNewest, Num
<1> QED BY <1>1, <1>2, <1>3, <1>4, <1>5 DEF Next

-----------------------------------------------------------------------------
(***************************************************************************)
(* No fresh datagram is refused                                            *)
(***************************************************************************)

LEMMA Division ==
    ASSUME NEW x \in Int, NEW n \in Nat, n > 0
    PROVE  x = n * (x \div n) + (x % n)
OBVIOUS

\* Numbers with the same byte 1 are the same or far apart.
LEMMA SameByte ==
    ASSUME NEW g \in Int, NEW h \in Int, g % Base = h % Base, g <= h, h < g + Base
    PROVE  g = h
<1> DEFINE a == g \div Base
           b == h \div Base
<1>1. a \in Int /\ b \in Int /\ Base * a \in Int /\ Base * b \in Int
  BY Widths
<1>2. g = (Base * a) + (g % Base) /\ h = (Base * b) + (h % Base)
  <2>1. Base \in Nat /\ Base > 0
    BY Widths
  <2>2. g = Base * (g \div Base) + (g % Base)
    BY <2>1, Division, Zenon
  <2>3. h = Base * (h \div Base) + (h % Base)
    BY <2>1, Division, Zenon
  <2> QED BY <2>2, <2>3
<1>3. g % Base \in Int
  BY Widths
<1> DEFINE A == Base * a
           B == Base * b
           m == g % Base
<1> HIDE DEF a, b
<1>4. a < b => Base * a + Base <= Base * b
  BY <1>1, Rounds
<1>5. b < a => Base * b + Base <= Base * a
  BY <1>1, Rounds
<1>6. a = b
  <2>1. A \in Int /\ B \in Int /\ m \in Int /\ g = A + m /\ h = B + m
        /\ (a < b => A + Base <= B) /\ (b < a => B + Base <= A)
    BY <1>1, <1>2, <1>3, <1>4, <1>5
  <2> HIDE DEF A, B, m
  <2> QED BY <2>1, <1>1, Widths
<1> QED BY <1>2, <1>6

\* Two nonces with the same bytes 0 and 1 are the same or a round of byte 1 apart.
LEMMA SameTwoBytes ==
    ASSUME NEW v \in IV, NEW w \in IV, v.lo = w.lo, v.hi % Base = w.hi % Base,
           Num(v) > Num(w) - Base * Base, Num(v) < Num(w) + Base
    PROVE  v = w
<1> DEFINE d == w.hi - v.hi
<1>1. v.hi \in Int /\ w.hi \in Int /\ v.lo \in Int /\ d \in Int
  BY Widths
<1>2. Num(w) - Num(v) = Base * d /\ Base * d \in Int
  BY <1>1, Widths DEF Num
<1>3. Num(v) \in Int /\ Num(w) \in Int /\ Base * Base \in Int
  BY NumInt, Widths
<1>4. Base * d < Base * Base /\ -Base < Base * d
  BY <1>2, <1>3, Widths
<1>5. d < Base
  <2>1. Base < d => Base * Base + Base <= Base * d
    BY <1>1, Rounds, Widths
  <2>2. d # Base
    BY <1>4, <1>3
  <2> HIDE DEF d
  <2> QED BY <2>1, <2>2, <1>1, <1>2, <1>3, <1>4, Widths
<1>6. d >= 0
  <2>1. d < 0 => Base * d + Base <= Base * 0
    BY <1>1, Rounds
  <2>2. Base * 0 = 0
    BY Widths
  <2> HIDE DEF d
  <2> QED BY <2>1, <2>2, <1>1, <1>2, <1>4, Widths
<1>7. v.hi = w.hi
  BY <1>1, <1>5, <1>6, SameByte, Widths
<1> QED BY <1>7

\* Near the newest number the folded distance is the distance.
LEMMA DiffIsDistance ==
    ASSUME decrypt_iv \in IV, NEW v \in IV,
           Num(v) > Num(decrypt_iv) - Half, Num(v) < Num(decrypt_iv) + Half
    PROVE  Num(v) = Num(decrypt_iv) + Diff(v.lo)
<1> DEFINE V == Base * v.hi
           W == Base * decrypt_iv.hi
           b == v.lo
           c == decrypt_iv.lo
<1>1. /\ v.hi \in Int /\ decrypt_iv.hi \in Int /\ b \in Int /\ c \in Int
      /\ 0 <= b /\ b < Base /\ 0 <= c /\ c < Base
      /\ V \in Int /\ W \in Int
  BY Widths
<1>2. Num(v) = V + b /\ Num(decrypt_iv) = W + c
  BY DEF Num
<1>3. V + b > W + c - Half /\ V + b < W + c + Half
  <2> HIDE DEF V, W, b, c
  <2> QED BY <1>1, <1>2, Widths
<1>4. Diff(v.lo) = IF b - c > Half THEN b - c - Base ELSE IF b - c < -Half THEN b - c + Base ELSE b - c
  BY DEF Diff
<1>5. CASE v.hi = decrypt_iv.hi
  <2>1. V = W
    BY <1>5
  <2> HIDE DEF V, W, b, c
  <2> QED BY <2>1, <1>1, <1>2, <1>3, <1>4, Widths
<1>6. CASE decrypt_iv.hi < v.hi
  <2>1. W + Base <= V
    BY <1>1, <1>6, Rounds
  <2>2. decrypt_iv.hi + 1 < v.hi => W + Base + Base <= V
    <3>1. decrypt_iv.hi + 1 < v.hi => Base * (decrypt_iv.hi + 1) + Base <= V
      BY <1>1, Rounds
    <3> QED BY <3>1, <1>1, Round
  <2>3. v.hi = decrypt_iv.hi + 1 => V = W + Base
    BY <1>1, Round
  <2>4. V = W + Base
    <3> HIDE DEF V, W, b, c
    <3> QED BY <2>2, <2>3, <1>1, <1>3, <1>6, Widths
  <2> HIDE DEF V, W, b, c
  <2> QED BY <2>4, <1>1, <1>2, <1>3, <1>4, Widths
<1>7. CASE v.hi < decrypt_iv.hi
  <2>2. v.hi + 1 < decrypt_iv.hi => V + Base + Base <= W
    <3>1. v.hi + 1 < decrypt_iv.hi => Base * (v.hi + 1) + Base <= W
      BY <1>1, Rounds
    <3> QED BY <3>1, <1>1, Round
  <2>3. decrypt_iv.hi = v.hi + 1 => W = V + Base
    BY <1>1, Round
  <2>4. W = V + Base
    <3> HIDE DEF V, W, b, c
    <3> QED BY <2>2, <2>3, <1>1, <1>3, <1>7, Widths
  <2> HIDE DEF V, W, b, c
  <2> QED BY <2>4, <1>1, <1>2, <1>3, <1>4, Widths
<1> QED BY <1>1, <1>5, <1>6, <1>7

\* A datagram that has not been opened is not the newest one.
LEMMA NotNewest ==
    ASSUME IInv, NInv, NEW p \in sent, p \notin accepted, p.key = raw_key
    PROVE  Num(p.iv) # Num(decrypt_iv)
<1> SUFFICES ASSUME Num(p.iv) = Num(decrypt_iv) PROVE FALSE
  OBVIOUS
<1>1. p \in Datagram /\ decrypt_iv \in IV /\ accepted \subseteq Datagram /\ Num(p.iv) \in Int
  BY NumInt DEF IInv, TypeOK
<1>2. p.iv = decrypt_iv
  BY <1>1, NumInjective
<1>3. raw_key > 0 /\ Num(p.iv) > Num(setups[raw_key])
  BY DEF NInv, SentAbove
<1>4. CASE decrypt_iv = setups[raw_key]
  BY <1>1, <1>2, <1>3, <1>4
<1>5. ASSUME NEW q \in accepted, q.key = raw_key, q.iv = decrypt_iv PROVE FALSE
  <2>1. q \in Datagram
    BY <1>1
  <2> QED BY <2>1, <1>1, <1>2, <1>5
<1> QED BY <1>3, <1>4, <1>5 DEF NInv, NewestOpened

LEMMA Fresh == IInv /\ NInv => FreshAccepted
<1> SUFFICES ASSUME IInv, NInv,
                    NEW p \in sent \ accepted, p.key = raw_key,
                    Num(p.iv) > Num(decrypt_iv) - LateWindow,
                    Num(p.iv) < Num(decrypt_iv) + Half,
                    ~Opens(p)
             PROVE  /\ decrypt_history[p.iv.lo] = p.iv.hi % Base
                    /\ \A q \in accepted :
                          q.key = raw_key /\ Num(q.iv) > Num(p.iv) - Base * Base => q.iv.lo # p.iv.lo
  BY DEF FreshAccepted
<1> DEFINE byte == p.iv.lo
<1>1. /\ p \in Datagram /\ p.iv \in IV /\ byte \in Byte /\ decrypt_iv \in IV
      /\ Num(p.iv) \in Int /\ Num(decrypt_iv) \in Int /\ Diff(byte) \in Int
      /\ accepted \subseteq Datagram
  BY NumInt, DiffInt DEF IInv, TypeOK
<1>2. Num(p.iv) = Num(decrypt_iv) + Diff(byte) /\ Diff(byte) > -LateWindow
  <2>1. Num(p.iv) > Num(decrypt_iv) - Half
    BY <1>1, Widths
  <2>2. Num(p.iv) = Num(decrypt_iv) + Diff(byte)
    BY <1>1, <2>1, DiffIsDistance
  <2> QED BY <2>2, <1>1, Widths
<1>3. Diff(byte) # 0
  BY <1>1, <1>2, NotNewest
<1>4. Candidate(byte) \in IV /\ Candidate(byte).lo = byte
  BY <1>1, CandidateType
<1>5. InOrder(byte) \/ Late(byte) \/ Ahead(byte)
  BY <1>1, <1>2, <1>3 DEF Late, Ahead
<1>6. p.iv = Candidate(byte)
  <2>1. CASE InOrder(byte)
    <3>1. Num(Candidate(byte)) = Num(decrypt_iv) + 1
      BY <1>1, <2>1, InOrderNum
    <3>2. Num(p.iv) < Num(Candidate(byte)) + Base /\ Num(Candidate(byte)) < Num(p.iv) + Base
      BY <3>1, <1>1, Widths
    <3> QED BY <3>2, <1>1, <1>4, SameSlot
  <2>2. CASE Late(byte)
    BY <2>2, <1>1, <1>2, <1>4, LateNum, NumInjective
  <2>3. CASE Ahead(byte)
    BY <2>3, <1>1, <1>2, <1>4, AheadNum, NumInjective
  <2> QED BY <1>5, <2>1, <2>2, <2>3
<1>7. Repeated(byte)
  BY <1>5, <1>6 DEF Opens, TagMatches
<1>8. decrypt_history[byte] = p.iv.hi % Base
  BY <1>6, <1>7 DEF Repeated
<1>9. ASSUME NEW q \in accepted, q.key = raw_key, q.iv.lo = byte,
             Num(q.iv) > Num(p.iv) - Base * Base
      PROVE  FALSE
  <2>1. PICK r \in accepted :
            /\ r.key = raw_key
            /\ r.iv.lo = byte
            /\ Num(r.iv) >= Num(q.iv)
            /\ decrypt_history[byte] = r.iv.hi % Base
    BY <1>9 DEF NInv, SlotNewest
  <2>2. /\ r \in Datagram /\ r.iv \in IV /\ Num(r.iv) \in Int
        /\ q \in Datagram /\ Num(q.iv) \in Int /\ Base * Base \in Int
    BY <1>1, NumInt, Widths
  <2>3. Num(r.iv) <= Num(decrypt_iv)
    BY <2>1 DEF IInv, WindowRemembered
  <2>4. Num(r.iv) > Num(p.iv) - Base * Base /\ Num(r.iv) < Num(p.iv) + Base
    BY <2>1, <2>2, <2>3, <1>1, <1>9, Widths
  <2>5. r.iv = p.iv
    BY <2>1, <2>2, <2>4, <1>1, <1>8, SameTwoBytes
  <2>6. r = p
    BY <2>1, <2>2, <2>5, <1>1
  <2> QED BY <2>6
<1> QED BY <1>8, <1>9

-----------------------------------------------------------------------------
(***************************************************************************)
(* The lost datagrams are counted                                          *)
(***************************************************************************)

\* Between a key's nonce and any of its datagrams every number has been sent.
SentContiguous ==
    \A p \in sent, n \in Int :
        Num(setups[p.key]) < n /\ n <= Num(p.iv) =>
            \E q \in sent : q.key = p.key /\ Num(q.iv) = n

CInv == SentContiguous /\ IsFiniteSet(sent)

LEMMA ContiguousInv == IInv /\ SInv /\ NInv /\ CInv /\ [Next]_vars => CInv'
<1> SUFFICES ASSUME IInv, SInv, NInv, CInv, [Next]_vars PROVE CInv'
  OBVIOUS
<1>0. /\ setups \in Seq(Nonces) /\ Len(setups) \in Nat /\ sent \subseteq Datagram
      /\ \A p \in sent : p.key \in 1 .. Len(setups)
  BY DEF IInv, TypeOK, NInv, SentAbove
<1>1. ASSUME UNCHANGED <<setups, sent>> PROVE CInv'
  BY <1>1 DEF CInv, SentContiguous, Num
<1>2. ASSUME NEW nonce \in Nonces, Setup(nonce) PROVE CInv'
  <2>1. sent' = sent /\ \A k \in 1 .. Len(setups) : setups'[k] = setups[k]
    BY <1>0, <1>2 DEF Setup
  <2> QED BY <1>0, <2>1 DEF CInv, SentContiguous, Num
<1>3. CASE Encrypt
  <2> DEFINE p == [key |-> Len(setups), iv |-> encrypt_iv']
  <2>1. /\ setups' = setups /\ sent' = sent \cup {p} /\ setups # << >>
        /\ encrypt_iv \in IV /\ encrypt_iv' = Increment(encrypt_iv)
    BY <1>3 DEF Encrypt, IInv, TypeOK
  <2>2. Num(encrypt_iv') = Num(encrypt_iv) + 1 /\ Num(encrypt_iv) \in Int
    BY <2>1, IncrementNum, NumInt
  <2>3. p.key = Len(setups) /\ p.iv = encrypt_iv'
    OBVIOUS
  <2> HIDE DEF p
  <2>4. IsFiniteSet(sent')
    BY <2>1, FS_AddElement DEF CInv
  <2>5. SentContiguous'
    <3> SUFFICES ASSUME NEW r \in sent', NEW n \in Int,
                        Num(setups[r.key]) < n, n <= Num(r.iv)
                 PROVE  \E q \in sent' : q.key = r.key /\ Num(q.iv) = n
      BY <2>1 DEF SentContiguous, Num
    <3>1. CASE r \in sent
      BY <3>1, <2>1 DEF CInv, SentContiguous
    <3>2. CASE r = p
      <4>1. CASE n = Num(p.iv)
        BY <4>1, <3>2, <2>1
      <4>2. CASE n # Num(p.iv)
        <5>1. n <= Num(encrypt_iv) /\ Num(setups[Len(setups)]) < n
          BY <4>2, <3>2, <2>2, <2>3
        <5>2. Num(setups[Len(setups)]) \in Int
          <6>1. setups[Len(setups)] \in Nonces
            BY <1>0, <2>1
          <6>2. setups[Len(setups)] \in IV
            BY <6>1, NonceAssumption, Widths
          <6> QED BY <6>2, NumInt
        <5>3. PICK q \in sent : q.key = Len(setups) /\ Num(q.iv) = Num(encrypt_iv)
          BY <5>1, <5>2, <2>1, <2>2 DEF SInv, SentLast
        <5>4. \E x \in sent : x.key = q.key /\ Num(x.iv) = n
          BY <5>1, <5>3 DEF CInv, SentContiguous
        <5> QED BY <5>3, <5>4, <3>2, <2>1, <2>3
      <4> QED BY <4>1, <4>2
    <3> QED BY <3>1, <3>2, <2>1
  <2> QED BY <2>4, <2>5 DEF CInv
<1>4. CASE SetKey
  BY <1>1, <1>4 DEF SetKey, sender
<1>5. ASSUME NEW p \in sent, Decrypt(p) PROVE CInv'
  BY <1>1, <1>5
     DEF Decrypt, DecryptInOrder, DecryptLate, DecryptAhead, DecryptReject, Accept, vars, sender
<1>6. CASE UNCHANGED vars
  BY <1>1, <1>6 DEF vars
<1> QED BY <1>2, <1>3, <1>4, <1>5, <1>6 DEF Next

\* The datagrams of the receiver's key from one number up to another.
Between(low, high) ==
    {x \in sent : x.key = raw_key /\ low < Num(x.iv) /\ Num(x.iv) < high}

\* Beyond the newest number, up to one that has been sent, none is left out.
LEMMA BetweenCounted ==
    ASSUME IInv, NInv, CInv, NEW p \in sent, p.key = raw_key, Num(p.iv) > Num(decrypt_iv)
    PROVE  /\ IsFiniteSet(Between(Num(decrypt_iv), Num(p.iv)))
           /\ Cardinality(Between(Num(decrypt_iv), Num(p.iv))) = Num(p.iv) - Num(decrypt_iv) - 1
<1> DEFINE d == Num(decrypt_iv)
           e == Num(p.iv)
           G == Between(d, e)
           T == d + 1 .. e - 1
           F == [x \in G |-> Num(x.iv)]
<1>1. /\ sent \subseteq Datagram /\ d \in Int /\ e \in Int /\ d < e
      /\ \A x \in G : x \in Datagram /\ x.key = raw_key /\ Num(x.iv) \in T /\ Num(x.iv) \in Int
  <2>1. sent \subseteq Datagram /\ \A x \in sent : x.iv \in IV /\ Num(x.iv) \in Int
    BY NumInt DEF IInv, TypeOK
  <2>2. d \in Int /\ e \in Int
    BY <2>1, NumInt DEF IInv, TypeOK
  <2> HIDE DEF d, e
  <2>3. \A x \in G : x \in sent /\ x.key = raw_key /\ Num(x.iv) \in T
    BY <2>1, <2>2 DEF Between
  <2> QED BY <2>1, <2>2, <2>3 DEF d, e
<1>2. IsFiniteSet(G)
  <2>1. G \in SUBSET sent
    BY DEF Between
  <2> QED BY <2>1, FS_Subset DEF CInv
<1>3. raw_key > 0 /\ Num(setups[raw_key]) \in Int /\ Num(setups[raw_key]) <= d
  <2>1. raw_key \in 1 .. Len(setups)
    BY DEF NInv, SentAbove
  <2>2. Num(setups[raw_key]) \in Int
    <3>1. setups[raw_key] \in Nonces
      BY <2>1 DEF IInv, TypeOK
    <3>2. setups[raw_key] \in IV
      BY <3>1, NonceAssumption, Widths
    <3> QED BY <3>2, NumInt
  <2>3. CASE decrypt_iv = setups[raw_key]
    BY <2>1, <2>2, <2>3
  <2>4. ASSUME NEW q \in accepted, q.key = raw_key, q.iv = decrypt_iv
        PROVE  Num(setups[raw_key]) < d
    BY <2>4 DEF NInv, SentAbove, IInv, TypeOK
  <2> HIDE DEF d
  <2>5. d \in Int
    BY <1>1
  <2> QED BY <2>1, <2>2, <2>3, <2>4, <2>5 DEF NInv, NewestOpened, d
<1>4. F \in [G -> T]
  BY <1>1
<1>5. \A a, b \in G : F[a] = F[b] => a = b
  <2> SUFFICES ASSUME NEW a \in G, NEW b \in G, Num(a.iv) = Num(b.iv) PROVE a = b
    OBVIOUS
  <2>1. a \in Datagram /\ b \in Datagram /\ a.key = b.key
    BY <1>1
  <2>2. a.iv = b.iv
    BY <2>1, NumInjective
  <2> QED BY <2>1, <2>2
<1>6. \A t \in T : \E x \in G : F[x] = t
  <2> SUFFICES ASSUME NEW t \in T PROVE \E x \in G : Num(x.iv) = t
    OBVIOUS
  <2>1. t \in Int /\ d < t /\ t < e
    <3> HIDE DEF d, e
    <3> QED BY <1>1
  <2>2. Num(setups[p.key]) < t /\ t <= Num(p.iv)
    <3> HIDE DEF d
    <3> QED BY <1>1, <1>3, <2>1 DEF e
  <2>3. PICK x \in sent : x.key = p.key /\ Num(x.iv) = t
    BY <2>1, <2>2 DEF CInv, SentContiguous
  <2>4. x \in G
    BY <2>1, <2>3 DEF Between
  <2> QED BY <2>3, <2>4
<1> HIDE DEF F, G, T
<1>7. F \in Bijection(G, T)
  BY <1>4, <1>5, <1>6, Fun_IsBij
<1>8. ExistsBijection(G, T)
  BY <1>7 DEF ExistsBijection
<1>9. Cardinality(T) = Cardinality(G)
  BY <1>2, <1>8, FS_Bijection
<1>10. Cardinality(T) = e - d - 1
  <2> HIDE DEF d, e
  <2>1. d + 1 \in Int /\ e - 1 \in Int
    BY <1>1
  <2>2. Cardinality(T) = IF d + 1 > e - 1 THEN 0 ELSE (e - 1) - (d + 1) + 1
    BY <2>1, FS_Interval DEF T
  <2> QED BY <1>1, <2>2
<1> QED BY <1>2, <1>9, <1>10 DEF G

\* Under the receiver's key, those that have been overtaken are those below the
\* newest.
LEMMA OvertakenBelow ==
    ASSUME IInv, NInv, NEW x \in sent, x.key = raw_key
    PROVE  (\E q \in accepted : q.key = x.key /\ Num(q.iv) > Num(x.iv)) <=> Num(x.iv) < Num(decrypt_iv)
<1>1. /\ Num(x.iv) \in Int /\ Num(decrypt_iv) \in Int
      /\ \A q \in accepted : q \in sent /\ Num(q.iv) \in Int
  <2>1. \A q \in sent : q.iv \in IV
    BY DEF IInv, TypeOK
  <2> QED BY <2>1, NumInt DEF IInv, TypeOK
<1>2. ASSUME NEW q \in accepted, q.key = raw_key, Num(q.iv) > Num(x.iv)
      PROVE  Num(x.iv) < Num(decrypt_iv)
  BY <1>1, <1>2 DEF IInv, WindowRemembered
<1>3. ASSUME Num(x.iv) < Num(decrypt_iv)
      PROVE  \E q \in accepted : q.key = raw_key /\ Num(q.iv) > Num(x.iv)
  <2>1. raw_key > 0 /\ Num(x.iv) > Num(setups[raw_key])
    BY DEF NInv, SentAbove
  <2>2. decrypt_iv # setups[raw_key]
    <3> SUFFICES ASSUME decrypt_iv = setups[raw_key] PROVE FALSE
      OBVIOUS
    <3>1. Num(x.iv) > Num(decrypt_iv)
      BY <2>1
    <3> QED BY <3>1, <1>1, <1>3
  <2> QED BY <2>1, <2>2, <1>3 DEF NInv, NewestOpened
<1> QED BY <1>2, <1>3

LEMMA MissingFinite == CInv => IsFiniteSet(Missing)
<1>1. Missing \in SUBSET sent
  BY DEF Missing
<1> QED BY <1>1, FS_Subset DEF CInv

\* Opening the newest so far makes missing what lies in between.
LEMMA AheadCounts ==
    ASSUME IInv, NInv, CInv, NEW p \in sent, p \notin accepted, p.key = raw_key,
           sent' = sent, accepted' = accepted \cup {p}, Num(p.iv) > Num(decrypt_iv)
    PROVE  Cardinality(Missing') = Cardinality(Missing) + Num(p.iv) - Num(decrypt_iv) - 1
<1> DEFINE G == Between(Num(decrypt_iv), Num(p.iv))
<1>1. /\ Num(decrypt_iv) \in Int /\ Num(p.iv) \in Int /\ accepted \subseteq sent
      /\ \A x \in sent : Num(x.iv) \in Int
  <2>1. decrypt_iv \in IV /\ \A x \in sent : x.iv \in IV
    BY DEF IInv, TypeOK
  <2> QED BY <2>1, NumInt DEF IInv, TypeOK
<1>2. ASSUME NEW x \in G
      PROVE  x \in sent /\ x.key = raw_key /\ Num(decrypt_iv) < Num(x.iv) /\ Num(x.iv) < Num(p.iv)
  BY <1>2 DEF Between
<1>3. ASSUME NEW x \in G PROVE x \in Missing' /\ x \notin Missing
  <2>1. x \notin accepted
    BY <1>1, <1>2 DEF IInv, WindowRemembered
  <2>2. x # p
    BY <1>1, <1>2
  <2>3. x \notin Missing
    BY <1>1, <1>2, OvertakenBelow DEF Missing
  <2> QED BY <2>1, <2>2, <2>3, <1>2 DEF Missing, Num
<1>4. Missing \subseteq Missing'
  <2>1. p \notin Missing
    BY <1>1, OvertakenBelow DEF Missing
  <2> QED BY <2>1 DEF Missing, Num
<1>5. ASSUME NEW x \in Missing', x \notin Missing PROVE x \in G
  <2>1. /\ x \in sent /\ x \notin accepted /\ x.key = raw_key /\ Num(x.iv) < Num(p.iv)
    BY <1>5 DEF Missing, Num
  <2>2. ~(Num(x.iv) < Num(decrypt_iv))
    BY <2>1, <1>5, OvertakenBelow DEF Missing
  <2>3. Num(x.iv) # Num(decrypt_iv)
    BY <2>1, NotNewest
  <2> QED BY <2>1, <2>2, <2>3, <1>1 DEF Between
<1> HIDE DEF G
<1>6. Missing' = Missing \cup G /\ Missing \cap G = {}
  BY <1>3, <1>4, <1>5
<1>7. IsFiniteSet(Missing) /\ IsFiniteSet(G) /\ Cardinality(G) = Num(p.iv) - Num(decrypt_iv) - 1
  BY MissingFinite, BetweenCounted DEF G
<1>8. Cardinality(Missing \cup G) = Cardinality(Missing) + Cardinality(G) - Cardinality({})
  BY <1>6, <1>7, FS_Union
<1>9. Cardinality({}) = 0 /\ Cardinality(Missing) \in Nat
  BY <1>7, FS_EmptySet, FS_CardinalityType
<1> QED BY <1>1, <1>6, <1>7, <1>8, <1>9

\* Opening a late one takes it from the missing.
LEMMA LateCounts ==
    ASSUME IInv, NInv, CInv, NEW p \in sent, p \notin accepted, p.key = raw_key,
           sent' = sent, accepted' = accepted \cup {p}, Num(p.iv) < Num(decrypt_iv)
    PROVE  Cardinality(Missing') = Cardinality(Missing) - 1
<1>1. /\ Num(decrypt_iv) \in Int /\ Num(p.iv) \in Int
      /\ \A x \in sent : Num(x.iv) \in Int
  <2>1. decrypt_iv \in IV /\ \A x \in sent : x.iv \in IV
    BY DEF IInv, TypeOK
  <2> QED BY <2>1, NumInt
<1>2. p \in Missing
  BY OvertakenBelow DEF Missing
<1>3. ASSUME NEW x \in Missing' PROVE x \in Missing /\ x # p
  <2>1. x \in sent /\ x \notin accepted /\ x # p
    BY <1>3 DEF Missing
  <2>2. CASE x.key = raw_key /\ Num(x.iv) < Num(p.iv)
    <3>1. Num(x.iv) < Num(decrypt_iv)
      BY <1>1, <2>1, <2>2
    <3> QED BY <3>1, <2>1, <2>2, OvertakenBelow DEF Missing
  <2>3. CASE \E q \in accepted : q.key = x.key /\ Num(q.iv) > Num(x.iv)
    BY <2>1, <2>3 DEF Missing
  <2> QED BY <1>3, <2>1, <2>2, <2>3 DEF Missing, Num
<1>4. Missing \ {p} \subseteq Missing'
  BY DEF Missing, Num
<1>5. Missing' = Missing \ {p}
  BY <1>3, <1>4
<1> QED BY <1>2, <1>5, MissingFinite, FS_RemoveElement

LEMMA LostInv == IInv /\ SInv /\ NInv /\ CInv /\ LostExact /\ [Next]_vars => LostExact'
<1> SUFFICES ASSUME IInv, SInv, NInv, CInv, LostExact, [Next]_vars PROVE LostExact'
  OBVIOUS
<1>1. ASSUME UNCHANGED <<sent, accepted, uiLost>> PROVE LostExact'
  BY <1>1 DEF LostExact, Missing, Num
<1>2. ASSUME NEW nonce \in Nonces, Setup(nonce) PROVE LostExact'
  BY <1>1, <1>2 DEF Setup
<1>3. CASE SetKey
  BY <1>1, <1>3 DEF SetKey, sender
<1>4. CASE Encrypt
  <2> DEFINE p == [key |-> Len(setups), iv |-> encrypt_iv']
  <2>1. /\ sent' = sent \cup {p} /\ accepted' = accepted /\ uiLost' = uiLost
        /\ encrypt_iv \in IV /\ encrypt_iv' = Increment(encrypt_iv) /\ accepted \subseteq sent
    BY <1>4 DEF Encrypt, IInv, TypeOK
  <2>2. Num(encrypt_iv') = Num(encrypt_iv) + 1 /\ Num(encrypt_iv) \in Int
    BY <2>1, IncrementNum, NumInt
  <2>3. p.key = Len(setups) /\ p.iv = encrypt_iv'
    OBVIOUS
  <2> HIDE DEF p
  <2>4. ASSUME NEW q \in accepted, q.key = p.key PROVE ~(Num(q.iv) > Num(p.iv))
    <3>1. Num(q.iv) <= Num(encrypt_iv) /\ q.iv \in IV
      BY <2>1, <2>3, <2>4 DEF SInv, SentNumbers, IInv, TypeOK
    <3> QED BY <3>1, <2>2, <2>3, NumInt
  <2>5. Missing' = Missing
    BY <2>1, <2>4 DEF Missing, Num
  <2> QED BY <2>1, <2>5 DEF LostExact
<1>5. ASSUME NEW p \in sent, Decrypt(p) PROVE LostExact'
  <2>1. /\ Num(decrypt_iv) \in Int /\ Num(p.iv) \in Int /\ uiLost \in Int
        /\ p.iv \in IV /\ p.iv.lo \in Byte /\ decrypt_iv \in IV
    <3>1. decrypt_iv \in IV /\ p.iv \in IV
      BY DEF IInv, TypeOK
    <3> QED BY <3>1, NumInt DEF IInv, TypeOK
  <2>2. CASE DecryptReject(p)
    BY <1>1, <2>2 DEF DecryptReject, vars
  <2>3. CASE DecryptLate(p)
    <3>1. /\ TagMatches(p) /\ Accept(p) /\ p \notin accepted
          /\ decrypt_iv' = decrypt_iv /\ Late(p.iv.lo) /\ uiLost' = uiLost - 1
      BY <2>3, OpensInWindow DEF DecryptLate
    <3>2. p.iv = Candidate(p.iv.lo) /\ p.key = raw_key
      BY <3>1 DEF TagMatches
    <3>3. Num(p.iv) = Num(decrypt_iv) + Diff(p.iv.lo) /\ Diff(p.iv.lo) < 0 /\ Diff(p.iv.lo) \in Int
      BY <2>1, <3>1, <3>2, LateNum, DiffInt DEF Late
    <3>4. Cardinality(Missing') = Cardinality(Missing) - 1
      BY <2>1, <3>1, <3>2, <3>3, LateCounts DEF Accept, sender
    <3> QED BY <3>1, <3>4 DEF LostExact
  <2>4. ASSUME Accept(p), TagMatches(p), p \notin accepted, Num(p.iv) > Num(decrypt_iv),
               uiLost' = uiLost + Num(p.iv) - Num(decrypt_iv) - 1
        PROVE  LostExact'
    <3>1. Cardinality(Missing') = Cardinality(Missing) + Num(p.iv) - Num(decrypt_iv) - 1
      BY <2>4, AheadCounts DEF Accept, sender, TagMatches
    <3> QED BY <3>1, <2>4 DEF LostExact
  <2>5. CASE DecryptInOrder(p)
    <3>1. /\ TagMatches(p) /\ Accept(p) /\ p \notin accepted /\ InOrder(p.iv.lo) /\ uiLost' = uiLost
      BY <2>5, OpensInWindow DEF DecryptInOrder
    <3>2. p.iv = Candidate(p.iv.lo)
      BY <3>1 DEF TagMatches
    <3>3. Num(p.iv) = Num(decrypt_iv) + 1
      BY <2>1, <3>1, <3>2, InOrderNum
    <3> QED BY <2>1, <2>4, <3>1, <3>3
  <2>6. CASE DecryptAhead(p)
    <3>1. /\ TagMatches(p) /\ Accept(p) /\ p \notin accepted
          /\ Ahead(p.iv.lo) /\ uiLost' = uiLost + Diff(p.iv.lo) - 1
      BY <2>6, OpensInWindow DEF DecryptAhead
    <3>2. p.iv = Candidate(p.iv.lo)
      BY <3>1 DEF TagMatches
    <3>3. Num(p.iv) = Num(decrypt_iv) + Diff(p.iv.lo) /\ Diff(p.iv.lo) > 0 /\ Diff(p.iv.lo) \in Int
      BY <2>1, <3>1, <3>2, AheadNum, DiffInt DEF Ahead
    <3> QED BY <2>1, <2>4, <3>1, <3>3
  <2> QED BY <1>5, <2>2, <2>3, <2>5, <2>6 DEF Decrypt
<1>6. CASE UNCHANGED vars
  BY <1>1, <1>6 DEF vars
<1> QED BY <1>2, <1>3, <1>4, <1>5, <1>6 DEF Next

-----------------------------------------------------------------------------
LEMMA InitCounts == Init => SInv /\ NInv /\ CInv /\ LostExact
<1> SUFFICES ASSUME Init PROVE SInv /\ NInv /\ CInv /\ LostExact
  OBVIOUS
<1>1. SInv /\ NInv /\ SentContiguous
  BY DEF Init, SInv, SentKeys, SentNumbers, SentLast, NInv, SentAbove, NewestOpened, SlotNewest,
         SentContiguous
<1>2. Missing = {}
  BY DEF Init, Missing
<1> QED BY <1>1, <1>2, FS_EmptySet DEF Init, CInv, LostExact

LEMMA CountInvariance == Spec => [](IInv /\ SInv /\ NInv /\ CInv /\ LostExact)
BY InitInv, NextInv, InitCounts, SenderInv, NewestInv, ContiguousInv, LostInv, PTL DEF Spec

\* uiLost is the number of datagrams that have been overtaken and not opened; it
\* never wraps below zero.
THEOREM LossCount == Spec => []LostExact
BY CountInvariance, PTL

\* A datagram of the current key in the window that has not been opened is not
\* refused, but for a stale slot of the history.
THEOREM FreshOpens == Spec => []FreshAccepted
BY CountInvariance, Fresh, PTL
=============================================================================
