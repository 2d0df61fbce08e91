-------------------------- MODULE CryptStateProofs --------------------------
(***************************************************************************)
(* CryptState never opens a datagram twice and implements the abstract     *)
(* ReplayWindow, for every width of the byte, every late window up to half *)
(* of it, every nonce and any number of keys and datagrams.                *)
(***************************************************************************)
EXTENDS CryptState, FiniteSetTheorems, TLAPS

USE DEF Byte, IV, Datagram

-----------------------------------------------------------------------------
(***************************************************************************)
(* Arithmetic                                                              *)
(***************************************************************************)

\* The parameters are what they should be.
LEMMA Widths ==
    /\ Base \in Nat /\ Base > 2 /\ Half \in Nat /\ Half > 1 /\ Base = 2 * Half
    /\ LateWindow \in Nat /\ LateWindow > 0 /\ LateWindow <= Half
BY WidthAssumption

\* Byte 1 of a nonce is a byte.
LEMMA ByteOne == ASSUME NEW h \in Int PROVE h % Base \in Byte
BY Widths

\* The next value of byte 0, written without a modulus.
LEMMA NextByte ==
    ASSUME NEW b \in Byte
    PROVE  (b + 1) % Base = IF b + 1 = Base THEN 0 ELSE b + 1
<1>1. CASE b + 1 = Base
  BY <1>1, Widths
<1>2. CASE b + 1 # Base
  BY <1>2, Widths
<1> QED BY <1>1, <1>2

\* One more round is Base more numbers.
LEMMA Round ==
    ASSUME NEW h \in Int
    PROVE  /\ Base * h \in Int
           /\ Base * (h + 1) = Base * h + Base
           /\ Base * (h - 1) = Base * h - Base
BY Widths

\* A later round is at least Base numbers further on.
LEMMA Rounds ==
    ASSUME NEW g \in Int, NEW h \in Int, g < h
    PROVE  Base * g + Base <= Base * h
<1> DEFINE d == h - g - 1
<1>1. d \in Nat /\ h = g + 1 + d
  OBVIOUS
<1>2. Base * d >= 0
  BY <1>1, Widths
<1>3. Base * h = Base * g + Base + Base * d
  BY <1>1, Widths
<1> QED
  BY <1>2, <1>3, <1>1, Widths

LEMMA NumInt == ASSUME NEW iv \in IV PROVE Num(iv) \in Int
BY Widths DEF Num

\* Two nonces with the same byte 0 are the same or a whole round apart.
LEMMA SameSlot ==
    ASSUME NEW v \in IV, NEW w \in IV, v.lo = w.lo,
           Num(v) < Num(w) + Base, Num(w) < Num(v) + Base
    PROVE  v = w
<1> DEFINE V == Base * v.hi
           W == Base * w.hi
<1>1. /\ v.hi \in Int /\ w.hi \in Int /\ v.lo \in Int /\ w.lo \in Int
      /\ V \in Int /\ W \in Int
  BY Widths
<1>2. Num(v) = V + v.lo /\ Num(w) = W + w.lo
  BY DEF Num
<1>3. V < W + Base /\ W < V + Base
  BY <1>1, <1>2, Widths
<1>4. ~(v.hi < w.hi)
  <2>1. v.hi < w.hi => V + Base <= W
    BY <1>1, Rounds
  <2> QED BY <2>1, <1>1, <1>3, Widths
<1>5. ~(w.hi < v.hi)
  <2>1. w.hi < v.hi => W + Base <= V
    BY <1>1, Rounds
  <2> QED BY <2>1, <1>1, <1>3, Widths
<1>6. v.hi = w.hi
  BY <1>1, <1>4, <1>5
<1> QED BY <1>6

-----------------------------------------------------------------------------
(***************************************************************************)
(* The reconstructed nonce                                                 *)
(***************************************************************************)

LEMMA DiffInt ==
    ASSUME decrypt_iv \in IV, NEW byte \in Byte
    PROVE  /\ Diff(byte) \in Int
           /\ -Half <= Diff(byte) /\ Diff(byte) <= Half
BY Widths DEF Diff

LEMMA CandidateType ==
    ASSUME decrypt_iv \in IV, NEW byte \in Byte
    PROVE  Candidate(byte) \in IV /\ Candidate(byte).lo = byte
<1>1. decrypt_iv.hi \in Int
  OBVIOUS
<1> QED BY <1>1 DEF Candidate

\* A byte in order stands for the next number.
LEMMA InOrderNum ==
    ASSUME decrypt_iv \in IV, NEW byte \in Byte, InOrder(byte)
    PROVE  Num(Candidate(byte)) = Num(decrypt_iv) + 1
<1>1. byte = IF decrypt_iv.lo + 1 = Base THEN 0 ELSE decrypt_iv.lo + 1
  BY NextByte DEF InOrder
<1>2. ~Late(byte)
  BY DEF Late
<1>3. CASE decrypt_iv.lo + 1 = Base
  <2>1. Candidate(byte) = [lo |-> 0, hi |-> decrypt_iv.hi + 1]
    BY <1>1, <1>2, <1>3, Widths DEF Candidate
  <2> QED BY <2>1, <1>3, Round, Widths DEF Num
<1>4. CASE decrypt_iv.lo + 1 # Base
  <2>1. Candidate(byte) = [lo |-> decrypt_iv.lo + 1, hi |-> decrypt_iv.hi]
    BY <1>1, <1>2, <1>4, Widths DEF Candidate
  <2> QED BY <2>1, Round, Widths DEF Num
<1> QED BY <1>3, <1>4

\* A late byte stands for the number Diff behind the newest.
LEMMA LateNum ==
    ASSUME decrypt_iv \in IV, NEW byte \in Byte, Late(byte)
    PROVE  Num(Candidate(byte)) = Num(decrypt_iv) + Diff(byte)
<1>1. CASE byte > decrypt_iv.lo
  <2>1. Candidate(byte) = [lo |-> byte, hi |-> decrypt_iv.hi - 1]
    BY <1>1 DEF Candidate
  <2>2. Diff(byte) = byte - decrypt_iv.lo - Base
    BY <1>1, Widths DEF Late, Diff
  <2> QED BY <2>1, <2>2, Round, Widths DEF Num
<1>2. CASE ~(byte > decrypt_iv.lo)
  <2>1. Candidate(byte) = [lo |-> byte, hi |-> decrypt_iv.hi]
    BY <1>2 DEF Candidate
  <2>2. Diff(byte) = byte - decrypt_iv.lo
    BY <1>2, Widths DEF Late, Diff
  <2> QED BY <2>1, <2>2, Round, Widths DEF Num
<1> QED BY <1>1, <1>2

\* A byte ahead stands for the number Diff beyond the newest.
LEMMA AheadNum ==
    ASSUME decrypt_iv \in IV, NEW byte \in Byte, Ahead(byte)
    PROVE  Num(Candidate(byte)) = Num(decrypt_iv) + Diff(byte)
<1>1. ~Late(byte)
  BY DiffInt DEF Late, Ahead
<1>2. CASE byte < decrypt_iv.lo
  <2>1. Candidate(byte) = [lo |-> byte, hi |-> decrypt_iv.hi + 1]
    BY <1>1, <1>2 DEF Candidate
  <2>2. Diff(byte) = byte - decrypt_iv.lo + Base
    BY <1>2, Widths DEF Ahead, Diff
  <2> QED BY <2>1, <2>2, Round, Widths DEF Num
<1>3. CASE ~(byte < decrypt_iv.lo)
  <2>1. Candidate(byte) = [lo |-> byte, hi |-> decrypt_iv.hi]
    BY <1>1, <1>3 DEF Candidate
  <2>2. Diff(byte) = byte - decrypt_iv.lo
    BY <1>3, Widths DEF Ahead, Diff
  <2> QED BY <2>1, <2>2, Round, Widths DEF Num
<1> QED BY <1>2, <1>3
-----------------------------------------------------------------------------
(***************************************************************************)
(* The inductive invariant: the datagrams opened so far are of keys that   *)
(* have been installed, and the history remembers those in the window.     *)
(***************************************************************************)

KnownKeys == \A p \in accepted : p.key <= raw_key

IInv ==
    /\ TypeOK
    /\ KnownKeys
    /\ WindowRemembered
    /\ IsFiniteSet(accepted)
    /\ NoReplay

LEMMA InitInv == Init => IInv
<1> SUFFICES ASSUME Init PROVE IInv
  OBVIOUS
<1>1. TypeOK
  BY Widths DEF Init, TypeOK
<1>2. KnownKeys /\ WindowRemembered
  BY DEF Init, KnownKeys, WindowRemembered
<1>3. IsFiniteSet(accepted) /\ NoReplay
  BY FS_EmptySet DEF Init, NoReplay
<1> QED BY <1>1, <1>2, <1>3 DEF IInv

LEMMA SetupInv == ASSUME IInv, NEW nonce \in Nonces, Setup(nonce) PROVE IInv'
<1>1. TypeOK'
  <2>1. /\ setups' = Append(setups, nonce) /\ setups' \in Seq(Nonces)
        /\ Len(setups') = Len(setups) + 1
    BY DEF IInv, TypeOK, Setup
  <2>2. nonce \in IV
    BY NonceAssumption, Widths
  <2> QED BY <2>1, <2>2 DEF IInv, TypeOK, Setup
<1>2. KnownKeys' /\ WindowRemembered' /\ IsFiniteSet(accepted)' /\ NoReplay'
  BY DEF IInv, Setup, KnownKeys, WindowRemembered, NoReplay, Num
<1> QED BY <1>1, <1>2 DEF IInv

\* A new key starts with an empty window: nothing of it has been opened.
LEMMA SetKeyInv == ASSUME IInv, SetKey PROVE IInv'
<1>1. /\ raw_key \in Nat /\ raw_key' = raw_key + 1 /\ raw_key' \in 1 .. Len(setups)
      /\ setups' = setups /\ accepted' = accepted
  BY DEF IInv, TypeOK, SetKey, sender
<1>2. TypeOK'
  <2>1. decrypt_iv' \in IV
    <3>1. setups[raw_key + 1] \in Nonces
      BY <1>1 DEF IInv, TypeOK
    <3>2. setups[raw_key + 1] \in IV
      BY <3>1, NonceAssumption, Widths
    <3> QED BY <3>2 DEF SetKey
  <2> QED BY <1>1, <2>1 DEF IInv, TypeOK, SetKey, sender
<1>3. \A p \in accepted : p.key \in Nat /\ p.key < raw_key'
  BY <1>1 DEF IInv, KnownKeys, TypeOK
<1>4. KnownKeys' /\ WindowRemembered'
  BY <1>1, <1>3 DEF KnownKeys, WindowRemembered
<1>5. IsFiniteSet(accepted)' /\ NoReplay'
  BY DEF IInv, SetKey, NoReplay
<1> QED BY <1>2, <1>4, <1>5 DEF IInv

LEMMA EncryptInv == ASSUME IInv, Encrypt PROVE IInv'
<1>1. encrypt_iv' \in IV
  <2>1. /\ encrypt_iv.lo \in Byte /\ encrypt_iv.hi \in Int
    BY DEF IInv, TypeOK
  <2>2. (encrypt_iv.lo + 1) % Base \in Byte
    BY <2>1, NextByte, Widths
  <2> QED BY <2>1, <2>2 DEF Encrypt, Increment
<1>2. TypeOK'
  <2>1. Len(setups) \in Nat
    BY DEF IInv, TypeOK
  <2> QED BY <1>1, <2>1 DEF IInv, TypeOK, Encrypt
<1>3. KnownKeys' /\ WindowRemembered' /\ IsFiniteSet(accepted)' /\ NoReplay'
  BY DEF IInv, Encrypt, KnownKeys, WindowRemembered, NoReplay, Num
<1> QED BY <1>2, <1>3 DEF IInv

\* A datagram that opens beyond the window's top is new, and one that opens
\* below it is not in the history, so it is new as well.
LEMMA OpensOnlyNew ==
    ASSUME IInv, NEW p \in sent, TagMatches(p),
           \/ InOrder(p.iv.lo)
           \/ Ahead(p.iv.lo)
           \/ Late(p.iv.lo) /\ ~Repeated(p.iv.lo)
    PROVE  p \notin accepted
<1>1. /\ p \in Datagram /\ decrypt_iv \in IV /\ p.iv.lo \in Byte
      /\ p.key = raw_key /\ p.iv = Candidate(p.iv.lo)
  BY DEF IInv, TypeOK, TagMatches
<1>2. Num(p.iv) \in Int /\ Num(decrypt_iv) \in Int
  BY <1>1, NumInt
<1>3. CASE InOrder(p.iv.lo)
  <2>1. Num(p.iv) = Num(decrypt_iv) + 1
    BY <1>1, <1>3, InOrderNum
  <2> QED BY <2>1, <1>1, <1>2 DEF IInv, WindowRemembered
<1>4. CASE Ahead(p.iv.lo)
  <2>1. Num(p.iv) = Num(decrypt_iv) + Diff(p.iv.lo) /\ Diff(p.iv.lo) > 0
    BY <1>1, <1>4, AheadNum DEF Ahead
  <2>2. Num(p.iv) > Num(decrypt_iv)
    BY <2>1, <1>1, <1>2, DiffInt
  <2> QED BY <2>2, <1>1, <1>2 DEF IInv, WindowRemembered
<1>5. CASE Late(p.iv.lo) /\ ~Repeated(p.iv.lo)
  <2>1. Num(p.iv) = Num(decrypt_iv) + Diff(p.iv.lo) /\ Diff(p.iv.lo) > -LateWindow
    BY <1>1, <1>5, LateNum DEF Late
  <2>2. Num(p.iv) > Num(decrypt_iv) - LateWindow
    BY <2>1, <1>1, <1>2, DiffInt, Widths
  <2>3. decrypt_history[p.iv.lo] # p.iv.hi % Base
    BY <1>1, <1>5 DEF Repeated
  <2> QED BY <2>2, <2>3, <1>1 DEF IInv, WindowRemembered
<1> QED BY <1>3, <1>4, <1>5

\* Opening a new datagram of the current key keeps the invariant if it leaves
\* the newest number where it was or moves it up to that datagram.
LEMMA AcceptInv ==
    ASSUME IInv, NEW p \in sent, p \notin accepted, p.key = raw_key, Accept(p),
           decrypt_iv' \in IV,
           Num(decrypt_iv) <= Num(decrypt_iv'),
           Num(p.iv) <= Num(decrypt_iv'),
           Num(p.iv) > Num(decrypt_iv') - LateWindow,
           uiLate' \in Nat, uiLost' \in Int
    PROVE  IInv'
<1>1. /\ p \in Datagram /\ p.iv \in IV /\ p.iv.lo \in Byte /\ p.iv.hi % Base \in Byte
  BY ByteOne DEF IInv, TypeOK
<1>2. TypeOK'
  BY <1>1 DEF IInv, TypeOK, Accept, sender
<1>3. KnownKeys'
  BY DEF IInv, TypeOK, KnownKeys, Accept
<1>4. WindowRemembered'
  <2> SUFFICES ASSUME NEW q \in accepted', q.key = raw_key'
               PROVE  /\ Num(q.iv) <= Num(decrypt_iv')
                      /\ Num(q.iv) > Num(decrypt_iv') - LateWindow =>
                            decrypt_history'[q.iv.lo] = q.iv.hi % Base
    BY DEF WindowRemembered, Num
  <2>1. /\ Num(p.iv) \in Int /\ Num(decrypt_iv) \in Int /\ Num(decrypt_iv') \in Int
    BY <1>1, NumInt DEF IInv, TypeOK
  <2>2. decrypt_history \in [Byte -> Byte]
    BY DEF IInv, TypeOK
  <2>3. CASE q = p
    BY <2>2, <2>3, <1>1 DEF Accept
  <2>4. CASE q # p
    <3>1. q \in accepted /\ q.key = raw_key /\ q \in Datagram /\ q.iv \in IV /\ q.iv.lo \in Byte
      BY <2>4 DEF Accept, IInv, TypeOK
    <3>2. Num(q.iv) \in Int /\ Num(q.iv) <= Num(decrypt_iv)
      BY <3>1, NumInt DEF IInv, WindowRemembered
    <3>3. ASSUME Num(q.iv) > Num(decrypt_iv') - LateWindow
          PROVE  decrypt_history'[q.iv.lo] = q.iv.hi % Base
      <4>1. decrypt_history[q.iv.lo] = q.iv.hi % Base
        BY <3>1, <3>2, <3>3, <2>1, Widths DEF IInv, WindowRemembered
      <4>2. q.iv.lo # p.iv.lo
        <5> SUFFICES ASSUME q.iv.lo = p.iv.lo PROVE FALSE
          OBVIOUS
        <5>1. Num(q.iv) < Num(p.iv) + Base /\ Num(p.iv) < Num(q.iv) + Base
          BY <3>2, <3>3, <2>1, Widths
        <5>2. q.iv = p.iv
          BY <5>1, <3>1, <1>1, SameSlot
        <5> QED BY <5>2, <3>1, <1>1, <2>4
      <4> QED BY <4>1, <4>2, <2>2, <1>1, <3>1 DEF Accept
    <3> QED BY <3>2, <3>3, <2>1
  <2> QED BY <2>3, <2>4
<1>5. IsFiniteSet(accepted)' /\ NoReplay'
  BY FS_AddElement DEF IInv, NoReplay, Accept
<1> QED BY <1>2, <1>3, <1>4, <1>5 DEF IInv

LEMMA DecryptInOrderInv ==
    ASSUME IInv, NEW p \in sent, DecryptInOrder(p) PROVE IInv'
<1>1. /\ p \in Datagram /\ p.iv \in IV /\ p.iv.lo \in Byte /\ decrypt_iv \in IV
      /\ p.key = raw_key /\ p.iv = Candidate(p.iv.lo) /\ decrypt_iv' = p.iv
  BY DEF IInv, TypeOK, TagMatches, DecryptInOrder
<1>2. Num(p.iv) = Num(decrypt_iv) + 1 /\ Num(decrypt_iv) \in Int
  BY <1>1, InOrderNum, NumInt DEF DecryptInOrder
<1>3. p \notin accepted
  BY OpensOnlyNew DEF DecryptInOrder
<1>4. uiLate' \in Nat /\ uiLost' \in Int
  BY DEF DecryptInOrder, IInv, TypeOK
<1>5. Num(decrypt_iv') = Num(p.iv)
  BY <1>1
<1>6. Accept(p)
  BY DEF DecryptInOrder
<1> QED BY <1>1, <1>2, <1>3, <1>4, <1>5, <1>6, AcceptInv, Widths

LEMMA DecryptLateInv ==
    ASSUME IInv, NEW p \in sent, DecryptLate(p) PROVE IInv'
<1>1. /\ p \in Datagram /\ p.iv \in IV /\ p.iv.lo \in Byte /\ decrypt_iv \in IV
      /\ p.key = raw_key /\ p.iv = Candidate(p.iv.lo) /\ decrypt_iv' = decrypt_iv
  BY DEF IInv, TypeOK, TagMatches, DecryptLate
<1>2. /\ Num(p.iv) = Num(decrypt_iv) + Diff(p.iv.lo) /\ Num(decrypt_iv) \in Int
      /\ Diff(p.iv.lo) \in Int /\ Diff(p.iv.lo) < 0 /\ Diff(p.iv.lo) > -LateWindow
  BY <1>1, LateNum, NumInt, DiffInt DEF DecryptLate, Late
<1>3. p \notin accepted
  BY OpensOnlyNew DEF DecryptLate
<1>4. uiLate' \in Nat /\ uiLost' \in Int
  BY DEF DecryptLate, IInv, TypeOK
<1>5. Num(decrypt_iv') = Num(decrypt_iv)
  BY <1>1
<1>6. Accept(p)
  BY DEF DecryptLate
<1> QED BY <1>1, <1>2, <1>3, <1>4, <1>5, <1>6, AcceptInv, Widths

LEMMA DecryptAheadInv ==
    ASSUME IInv, NEW p \in sent, DecryptAhead(p) PROVE IInv'
<1>1. /\ p \in Datagram /\ p.iv \in IV /\ p.iv.lo \in Byte /\ decrypt_iv \in IV
      /\ p.key = raw_key /\ p.iv = Candidate(p.iv.lo) /\ decrypt_iv' = p.iv
  BY DEF IInv, TypeOK, TagMatches, DecryptAhead
<1>2. /\ Num(p.iv) = Num(decrypt_iv) + Diff(p.iv.lo) /\ Num(decrypt_iv) \in Int
      /\ Diff(p.iv.lo) \in Int /\ Diff(p.iv.lo) > 0
  BY <1>1, AheadNum, NumInt, DiffInt DEF DecryptAhead, Ahead
<1>3. p \notin accepted
  BY OpensOnlyNew DEF DecryptAhead
<1>4. uiLate' \in Nat /\ uiLost' \in Int
  BY <1>2 DEF DecryptAhead, IInv, TypeOK
<1>5. Num(decrypt_iv') = Num(p.iv)
  BY <1>1
<1>6. Accept(p)
  BY DEF DecryptAhead
<1> QED BY <1>1, <1>2, <1>3, <1>4, <1>5, <1>6, AcceptInv, Widths

LEMMA StutterInv == ASSUME IInv, UNCHANGED vars PROVE IInv'
BY DEF IInv, vars, TypeOK, KnownKeys, WindowRemembered, NoReplay, Num

LEMMA NextInv == IInv /\ [Next]_vars => IInv'
<1> SUFFICES ASSUME IInv, [Next]_vars PROVE IInv'
  OBVIOUS
<1>1. ASSUME NEW nonce \in Nonces, Setup(nonce) PROVE IInv'
  BY <1>1, SetupInv
<1>2. CASE SetKey
  BY <1>2, SetKeyInv
<1>3. CASE Encrypt
  BY <1>3, EncryptInv
<1>4. ASSUME NEW p \in sent, Decrypt(p) PROVE IInv'
  <2>1. CASE DecryptInOrder(p)
    BY <2>1, DecryptInOrderInv
  <2>2. CASE DecryptLate(p)
    BY <2>2, DecryptLateInv
  <2>3. CASE DecryptAhead(p)
    BY <2>3, DecryptAheadInv
  <2>4. CASE DecryptReject(p)
    BY <2>4, StutterInv DEF DecryptReject
  <2> QED BY <1>4, <2>1, <2>2, <2>3, <2>4 DEF Decrypt
<1>5. CASE UNCHANGED vars
  BY <1>5, StutterInv
<1> QED BY <1>1, <1>2, <1>3, <1>4, <1>5 DEF Next

LEMMA Invariance == Spec => []IInv
<1>1. Init => IInv
  BY InitInv
<1>2. IInv /\ [Next]_vars => IInv'
  BY NextInv
<1> QED BY <1>1, <1>2, PTL DEF Spec

\* Every variable of the cipher keeps its type.
THEOREM TypeCorrect == Spec => []TypeOK
<1>1. IInv => TypeOK
  BY DEF IInv
<1> QED BY <1>1, Invariance, PTL

\* The history never forgets a datagram that could still be taken for a late
\* one, whatever the network does.
THEOREM HistoryCoversWindow == Spec => []WindowRemembered
<1>1. IInv => WindowRemembered
  BY DEF IInv
<1> QED BY <1>1, Invariance, PTL

\* decrypt returns true at most once for each datagram.
THEOREM AtMostOnce == Spec => []NoReplay
<1>1. IInv => NoReplay
  BY DEF IInv
<1> QED BY <1>1, Invariance, PTL

-----------------------------------------------------------------------------
(***************************************************************************)
(* Nonces as numbers                                                       *)
(***************************************************************************)

\* A nonce is determined by its number.
LEMMA NumInjective ==
    ASSUME NEW v \in IV, NEW w \in IV, Num(v) = Num(w)
    PROVE  v = w
<1> DEFINE V == Base * v.hi
           W == Base * w.hi
<1>1. /\ v.hi \in Int /\ w.hi \in Int /\ v.lo \in Byte /\ w.lo \in Byte
      /\ V \in Int /\ W \in Int
  BY Widths
<1>2. V + v.lo = W + w.lo
  BY DEF Num
<1>3. v.hi < w.hi => V + Base <= W
  BY <1>1, Rounds
<1>4. w.hi < v.hi => W + Base <= V
  BY <1>1, Rounds
<1>5. v.hi = w.hi
  <2> HIDE DEF V, W
  <2> QED BY <1>1, <1>2, <1>3, <1>4, Widths
<1>6. v.lo = w.lo
  <2>1. V = W
    BY <1>5
  <2> HIDE DEF V, W
  <2> QED BY <1>1, <1>2, <2>1
<1> QED BY <1>5, <1>6

\* The counter counts.
LEMMA IncrementNum ==
    ASSUME NEW iv \in IV
    PROVE  Increment(iv) \in IV /\ Num(Increment(iv)) = Num(iv) + 1
<1>1. iv.lo \in Byte /\ iv.hi \in Int
  OBVIOUS
<1>2. CASE iv.lo + 1 = Base
  <2>1. Increment(iv) = [lo |-> 0, hi |-> iv.hi + 1]
    BY <1>1, <1>2, NextByte DEF Increment
  <2> QED BY <2>1, <1>1, <1>2, Round, Widths DEF Num
<1>3. CASE iv.lo + 1 # Base
  <2>1. Increment(iv) = [lo |-> iv.lo + 1, hi |-> iv.hi]
    BY <1>1, <1>3, NextByte DEF Increment
  <2> QED BY <2>1, <1>1, <1>3, Round, Widths DEF Num
<1> QED BY <1>2, <1>3

\* A datagram is new as a number if it is new.
LEMMA NewNumbered ==
    ASSUME NEW P \in SUBSET Datagram, NEW p \in Datagram, p \notin P
    PROVE  [key |-> p.key, num |-> Num(p.iv)] \notin Numbered(P)
<1> SUFFICES ASSUME NEW q \in P, q.key = p.key, Num(q.iv) = Num(p.iv) PROVE FALSE
  BY DEF Numbered
<1>1. q.iv \in IV /\ p.iv \in IV
  OBVIOUS
<1>2. q.iv = p.iv
  BY <1>1, NumInjective
<1> QED BY <1>2

LEMMA NumberedAdd ==
    ASSUME NEW P, NEW p
    PROVE  Numbered(P \cup {p}) = Numbered(P) \cup {[key |-> p.key, num |-> Num(p.iv)]}
BY DEF Numbered

-----------------------------------------------------------------------------
(***************************************************************************)
(* The sender's numbers: those of the last key end with its nonce          *)
(***************************************************************************)

SentKeys == \A p \in sent : p.key <= Len(setups)

SentNumbers ==
    \A p \in sent : p.key = Len(setups) => Num(p.iv) <= Num(encrypt_iv)

SentLast ==
    setups # << >> =>
        \/ Num(encrypt_iv) = Num(setups[Len(setups)])
        \/ \E p \in sent : p.key = Len(setups) /\ Num(p.iv) = Num(encrypt_iv)

SInv == SentKeys /\ SentNumbers /\ SentLast

LEMMA SenderInv == IInv /\ SInv /\ [Next]_vars => SInv'
<1> SUFFICES ASSUME IInv, SInv, [Next]_vars PROVE SInv'
  OBVIOUS
<1>0. TypeOK /\ Len(setups) \in Nat
  BY DEF IInv, TypeOK
<1>1. ASSUME UNCHANGED sender PROVE SInv'
  BY <1>1 DEF SInv, SentKeys, SentNumbers, SentLast, sender, Num
<1>2. ASSUME NEW nonce \in Nonces, Setup(nonce) PROVE SInv'
  <2>1. /\ setups' = Append(setups, nonce) /\ Len(setups') = Len(setups) + 1
        /\ setups'[Len(setups')] = nonce /\ encrypt_iv' = nonce /\ sent' = sent
    BY <1>0, <1>2 DEF Setup, TypeOK
  <2>2. \A p \in sent : p.key \in Nat
    BY <1>0 DEF TypeOK
  <2>3. SentKeys' /\ SentNumbers'
    BY <1>0, <2>1, <2>2 DEF SInv, SentKeys, SentNumbers
  <2>4. SentLast'
    BY <2>1 DEF SentLast, Num
  <2> QED BY <2>3, <2>4 DEF SInv
<1>3. ASSUME Encrypt PROVE SInv'
  <2> DEFINE p == [key |-> Len(setups), iv |-> encrypt_iv']
  <2>1. /\ setups' = setups /\ sent' = sent \cup {p} /\ setups # << >>
        /\ encrypt_iv \in IV /\ encrypt_iv' = Increment(encrypt_iv)
    BY <1>0, <1>3 DEF Encrypt, TypeOK
  <2>2. /\ encrypt_iv' \in IV
        /\ Num(encrypt_iv') = Num(encrypt_iv) + 1 /\ Num(encrypt_iv) \in Int
    BY <2>1, IncrementNum, NumInt
  <2>3. p.key = Len(setups) /\ p.iv = encrypt_iv'
    OBVIOUS
  <2> HIDE DEF p
  <2>4. SentKeys'
    BY <1>0, <2>1, <2>3 DEF SInv, SentKeys
  <2>5. SentNumbers'
    <3> SUFFICES ASSUME NEW q \in sent', q.key = Len(setups) PROVE Num(q.iv) <= Num(encrypt_iv')
      BY <2>1 DEF SentNumbers, Num
    <3>1. CASE q = p
      BY <3>1, <2>2, <2>3
    <3>2. CASE q \in sent
      <4>1. Num(q.iv) <= Num(encrypt_iv) /\ q.iv \in IV
        BY <1>0, <3>2 DEF SInv, SentNumbers, TypeOK
      <4> QED BY <4>1, <2>2, NumInt
    <3> QED BY <3>1, <3>2, <2>1
  <2>6. SentLast'
    <3>1. p \in sent' /\ p.key = Len(setups') /\ Num(p.iv) = Num(encrypt_iv')
      BY <2>1, <2>3
    <3> QED BY <3>1 DEF SentLast, Num
  <2> QED BY <2>4, <2>5, <2>6 DEF SInv
<1>4. CASE SetKey
  BY <1>1, <1>4 DEF SetKey
<1>5. ASSUME NEW p \in sent, Decrypt(p) PROVE SInv'
  BY <1>1, <1>5
     DEF Decrypt, DecryptInOrder, DecryptLate, DecryptAhead, DecryptReject, Accept, vars, sender
<1>6. CASE UNCHANGED vars
  BY <1>1, <1>6 DEF vars, sender
<1> QED BY <1>2, <1>3, <1>4, <1>5, <1>6 DEF Next

-----------------------------------------------------------------------------
(***************************************************************************)
(* Every step is a step of the window                                      *)
(***************************************************************************)

LEMMA InitMaps == Init => Window!Init
<1> SUFFICES ASSUME Init PROVE Window!Init
  OBVIOUS
<1>1. [k \in DOMAIN setups |-> Num(setups[k])] = << >>
  BY DEF Init
<1>2. Numbered(sent) = {} /\ Numbered(accepted) = {}
  BY DEF Init, Numbered
<1>3. Num(decrypt_iv) = 0
  BY Widths DEF Init, Num
<1> QED BY <1>1, <1>2, <1>3 DEF Init, Window!Init

LEMMA SetupMaps ==
    ASSUME IInv, NEW nonce \in Nonces, Setup(nonce)
    PROVE  Window!Next
<1>1. /\ setups \in Seq(Nonces) /\ setups' = Append(setups, nonce)
      /\ setups' \in Seq(Nonces)
  BY DEF IInv, TypeOK, Setup
<1>2. [k \in DOMAIN setups' |-> Num(setups'[k])]
        = Append([k \in DOMAIN setups |-> Num(setups[k])], Num(nonce))
  BY <1>1
<1>3. Window!Rekey(Num(nonce))
  BY <1>2 DEF Setup, Window!Rekey, Numbered, Num
<1> QED BY <1>3 DEF Window!Next

LEMMA SetKeyMaps == ASSUME IInv, SetKey PROVE Window!Next
<1>1. /\ setups \in Seq(Nonces) /\ raw_key \in Nat /\ raw_key < Len(setups)
      /\ raw_key + 1 \in DOMAIN setups
  BY DEF IInv, TypeOK, SetKey
<1>2. Len([k \in DOMAIN setups |-> Num(setups[k])]) = Len(setups)
  BY <1>1
<1>3. Window!Install
  BY <1>1, <1>2 DEF SetKey, sender, Window!Install, Numbered, Num
<1> QED BY <1>3 DEF Window!Next

LEMMA EncryptMaps == ASSUME IInv, SInv, Encrypt PROVE Window!Next
<1> DEFINE p == [key |-> Len(setups), iv |-> encrypt_iv']
           starts == [k \in DOMAIN setups |-> Num(setups[k])]
           num == Num(encrypt_iv) + 1
           Used == Window!Numbers(Len(setups))
<1>1. /\ setups \in Seq(Nonces) /\ setups # << >> /\ Len(setups) \in DOMAIN setups
      /\ encrypt_iv \in IV /\ encrypt_iv' = Increment(encrypt_iv)
      /\ sent' = sent \cup {p} /\ sent \subseteq Datagram
  BY DEF IInv, TypeOK, Encrypt
<1>2. Num(encrypt_iv') = num /\ Num(encrypt_iv) \in Int
  BY <1>1, IncrementNum, NumInt
<1>3. Len(starts) = Len(setups) /\ starts # << >> /\ starts[Len(setups)] = Num(setups[Len(setups)])
  BY <1>1
<1>4. Numbered(sent') = Numbered(sent) \cup {[key |-> Len(setups), num |-> num]}
  <2>1. p.key = Len(setups) /\ Num(p.iv) = num
    BY <1>2
  <2>2. Numbered(sent \cup {p}) = Numbered(sent) \cup {[key |-> p.key, num |-> Num(p.iv)]}
    BY NumberedAdd
  <2> HIDE DEF p, num
  <2> QED BY <1>1, <2>1, <2>2
<1>5. \A n : n \in Used <=> \E q \in sent : q.key = Len(setups) /\ n = Num(q.iv)
  <2>1. ASSUME NEW q \in sent, q.key = Len(setups) PROVE Num(q.iv) \in Used
    <3>1. [key |-> q.key, num |-> Num(q.iv)] \in Numbered(sent)
      BY DEF Numbered
    <3> QED BY <2>1, <3>1 DEF Window!Numbers
  <2>2. ASSUME NEW n \in Used PROVE \E q \in sent : q.key = Len(setups) /\ n = Num(q.iv)
    <3>1. PICK r \in Numbered(sent) : r.key = Len(setups) /\ n = r.num
      BY <2>2 DEF Window!Numbers
    <3>2. PICK q \in sent : r = [key |-> q.key, num |-> Num(q.iv)]
      BY DEF Numbered
    <3> QED BY <3>1, <3>2
  <2> HIDE DEF Used
  <2> QED BY <2>1, <2>2
<1> HIDE DEF Used
<1>6. num \notin Used
  <2> SUFFICES ASSUME NEW q \in sent, q.key = Len(setups), num = Num(q.iv) PROVE FALSE
    BY <1>5
  <2>1. Num(q.iv) <= Num(encrypt_iv)
    BY DEF SInv, SentNumbers
  <2> QED BY <2>1, <1>2
<1>7. num \in {starts[Len(starts)] + 1} \cup {m + 1 : m \in Used}
  <2>1. CASE Num(encrypt_iv) = Num(setups[Len(setups)])
    BY <2>1, <1>3
  <2>2. CASE \E q \in sent : q.key = Len(setups) /\ Num(q.iv) = Num(encrypt_iv)
    <3>1. Num(encrypt_iv) \in Used
      BY <2>2, <1>5
    <3> QED BY <3>1
  <2> QED BY <2>1, <2>2, <1>1 DEF SInv, SentLast
<1>8. /\ UNCHANGED <<starts, raw_key, Num(decrypt_iv), Numbered(accepted), uiGood>>
  BY DEF Encrypt, Numbered, Num
<1>9. Window!Send
  BY <1>3, <1>4, <1>6, <1>7, <1>8 DEF Window!Send, Used
<1> QED BY <1>9 DEF Window!Next

\* What a step that opens p has to do to be a step of the window.
LEMMA OpenMaps ==
    ASSUME IInv, NEW p \in sent, p \notin accepted, TagMatches(p), Accept(p),
           decrypt_iv' \in IV,
           Num(p.iv) > Num(decrypt_iv) - LateWindow,
           Num(p.iv) <= Num(decrypt_iv) + Half,
           Num(decrypt_iv') = IF Num(p.iv) > Num(decrypt_iv) THEN Num(p.iv) ELSE Num(decrypt_iv)
    PROVE  Window!Next
<1> DEFINE m == [key |-> p.key, num |-> Num(p.iv)]
<1>1. /\ p \in Datagram /\ accepted \subseteq Datagram /\ p.key = raw_key
  BY DEF IInv, TypeOK, TagMatches
<1>2. m \in Numbered(sent) /\ m.key = raw_key /\ m.num = Num(p.iv)
  BY <1>1 DEF Numbered
<1>3. m \notin Numbered(accepted)
  BY <1>1, NewNumbered
<1>4. Numbered(accepted') = Numbered(accepted) \cup {m}
  BY NumberedAdd DEF Accept
<1>5. /\ UNCHANGED <<[k \in DOMAIN setups |-> Num(setups[k])], Numbered(sent), raw_key>>
      /\ uiGood' = uiGood + 1
  BY DEF Accept, sender, Numbered, Num
<1>6. Num(decrypt_iv) \in Int /\ Num(p.iv) \in Int
  BY <1>1, NumInt DEF IInv, TypeOK
<1> HIDE DEF m
<1>7. Window!Receive(m)
  BY <1>2, <1>3, <1>4, <1>5, <1>6, Widths DEF Window!Receive
<1> QED BY <1>2, <1>7 DEF Window!Next

LEMMA DecryptMaps ==
    ASSUME IInv, NEW p \in sent, Decrypt(p)
    PROVE  Window!Next \/ UNCHANGED Window!vars
<1>1. /\ p \in Datagram /\ p.iv \in IV /\ p.iv.lo \in Byte /\ decrypt_iv \in IV
      /\ Num(decrypt_iv) \in Int /\ Num(p.iv) \in Int
      /\ Diff(p.iv.lo) \in Int /\ Diff(p.iv.lo) <= Half
  BY NumInt, DiffInt DEF IInv, TypeOK
<1>2. CASE DecryptInOrder(p)
  <2>1. InOrder(p.iv.lo) /\ TagMatches(p) /\ Accept(p) /\ decrypt_iv' = p.iv
    BY <1>2 DEF DecryptInOrder
  <2>2. p \notin accepted /\ p.iv = Candidate(p.iv.lo)
    BY <2>1, OpensOnlyNew DEF TagMatches
  <2>3. Num(p.iv) = Num(decrypt_iv) + 1
    BY <1>1, <2>1, <2>2, InOrderNum
  <2>4. Num(decrypt_iv') = Num(p.iv)
    BY <2>1
  <2> QED BY <1>1, <2>1, <2>2, <2>3, <2>4, OpenMaps, Widths
<1>3. CASE DecryptLate(p)
  <2>1. /\ Late(p.iv.lo) /\ ~Repeated(p.iv.lo) /\ TagMatches(p) /\ Accept(p)
        /\ decrypt_iv' = decrypt_iv
    BY <1>3 DEF DecryptLate
  <2>2. p \notin accepted /\ p.iv = Candidate(p.iv.lo)
    BY <2>1, OpensOnlyNew DEF TagMatches
  <2>3. Num(p.iv) = Num(decrypt_iv) + Diff(p.iv.lo) /\ -LateWindow < Diff(p.iv.lo) /\ Diff(p.iv.lo) < 0
    BY <1>1, <2>1, <2>2, LateNum DEF Late
  <2>4. Num(decrypt_iv') = Num(decrypt_iv)
    BY <2>1
  <2> QED BY <1>1, <2>1, <2>2, <2>3, <2>4, OpenMaps, Widths
<1>4. CASE DecryptAhead(p)
  <2>1. /\ Ahead(p.iv.lo) /\ TagMatches(p) /\ Accept(p) /\ decrypt_iv' = p.iv
    BY <1>4 DEF DecryptAhead
  <2>2. p \notin accepted /\ p.iv = Candidate(p.iv.lo)
    BY <2>1, OpensOnlyNew DEF TagMatches
  <2>3. Num(p.iv) = Num(decrypt_iv) + Diff(p.iv.lo) /\ Diff(p.iv.lo) > 0
    BY <1>1, <2>1, <2>2, AheadNum DEF Ahead
  <2>4. Num(decrypt_iv') = Num(p.iv)
    BY <2>1
  <2> QED BY <1>1, <2>1, <2>2, <2>3, <2>4, OpenMaps, Widths
<1>5. CASE DecryptReject(p)
  BY <1>5 DEF DecryptReject, vars, Window!vars, Numbered, Num
<1> QED BY <1>2, <1>3, <1>4, <1>5 DEF Decrypt

LEMMA NextMaps == IInv /\ SInv /\ [Next]_vars => [Window!Next]_(Window!vars)
<1> SUFFICES ASSUME IInv, SInv, [Next]_vars PROVE Window!Next \/ UNCHANGED Window!vars
  OBVIOUS
<1>1. ASSUME NEW nonce \in Nonces, Setup(nonce) PROVE Window!Next
  BY <1>1, SetupMaps
<1>2. CASE SetKey
  BY <1>2, SetKeyMaps
<1>3. CASE Encrypt
  BY <1>3, EncryptMaps
<1>4. ASSUME NEW p \in sent, Decrypt(p) PROVE Window!Next \/ UNCHANGED Window!vars
  BY <1>4, DecryptMaps
<1>5. CASE UNCHANGED vars
  BY <1>5 DEF vars, Window!vars, Numbered, Num
<1> QED BY <1>1, <1>2, <1>3, <1>4, <1>5 DEF Next

\* The bytes, the folded distance and the history are an implementation of the
\* window: every datagram is opened at most once and only inside it.
THEOREM Refines == Spec => ImplementsWindow
<1>1. Init => SInv
  BY DEF Init, SInv, SentKeys, SentNumbers, SentLast
<1> QED
  BY <1>1, InitMaps, SenderInv, NextMaps, Invariance, PTL
     DEF Spec, ImplementsWindow, Window!Spec
=============================================================================
