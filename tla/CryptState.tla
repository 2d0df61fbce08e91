----------------------------- MODULE CryptState -----------------------------
(***************************************************************************)
(* mumlib2::CryptState, the cipher of the voice datagrams: the counter     *)
(* that numbers what one end encrypts, and the byte of that counter from   *)
(* which the other end reconstructs the whole of it, refuses repeats and   *)
(* keeps its statistics.  Both ends of the channel are here: the sender is *)
(* an object that only encrypts, the receiver one that only decrypts; the  *)
(* protocol is the same in the two directions.                             *)
(*                                                                         *)
(* The 16 bytes of a nonce are a record: lo is byte 0, the one that is     *)
(* sent, and hi is bytes 1 to 15 read as one little-endian number, so byte *)
(* 1 is hi % Base.  hi is not wrapped at 2^120.  The cipher is ideal: a    *)
(* datagram opens under the key and nonce it was sealed with and no other. *)
(* The network is the set of datagrams ever sent: each may be delivered    *)
(* never, once or many times, in any order.                                *)
(***************************************************************************)
EXTENDS Integers, Sequences, FiniteSets

CONSTANTS
    Base,        \* the values of a byte (256 in the code)
    Half,        \* the reach of an ahead datagram (128)
    LateWindow,  \* a late datagram is less than this far behind (30)
    Nonces,      \* the nonces a key may be set up with
    MaxSent,     \* bound: datagrams sent
    MaxKey       \* bound: keys set up

ASSUME WidthAssumption ==
    /\ Half \in Nat
    /\ Half > 1
    /\ Base = 2 * Half
    /\ LateWindow \in 1 .. Half

ASSUME NonceAssumption == Nonces \subseteq [lo : 0 .. Base - 1, hi : Nat]

ASSUME BoundAssumption == MaxSent \in Nat /\ MaxKey \in Nat

VARIABLES
    setups,           \* nonce of each key the sender has set up: key k is the k-th
    encrypt_iv,       \* the sender's nonce, of the last datagram it sealed
    sent,             \* the datagrams sent, with the key and nonce that seal them
    raw_key,          \* the receiver's key; 0 is bInit = false
    decrypt_iv,       \* the receiver's nonce, of the newest datagram it opened
    decrypt_history,  \* byte 1 of the nonce last opened with each byte 0
    uiGood, uiLate, uiLost,
    accepted          \* history: the datagrams decrypt has returned true for

vars == <<setups, encrypt_iv, sent, raw_key, decrypt_iv, decrypt_history,
          uiGood, uiLate, uiLost, accepted>>

sender == <<setups, encrypt_iv, sent>>

Byte == 0 .. Base - 1
IV == [lo : Byte, hi : Int]
Datagram == [key : Nat, iv : IV]

\* The nonce as one number: what the 16 little-endian bytes stand for.
Num(iv) == Base * iv.hi + iv.lo

-----------------------------------------------------------------------------
(***************************************************************************)
(* The counter                                                             *)
(***************************************************************************)

\* Mutant: the carry comes one value too late.
IncrementLate(iv) ==
    IF iv.lo = Base THEN [lo |-> 0, hi |-> iv.hi + 1] ELSE [iv EXCEPT !.lo = @ + 1]

\* The carry of encrypt's loop over the bytes: past the last value of byte 0
\* the rest of the nonce is incremented.
Increment(iv) ==
    [lo |-> (iv.lo + 1) % Base, hi |-> IF iv.lo + 1 = Base THEN iv.hi + 1 ELSE iv.hi]

\* How far the received byte is from the one expected, as the code folds it:
\* both -Half and Half can come out.
Diff(byte) ==
    LET d == byte - decrypt_iv.lo
    IN  IF d > Half THEN d - Base ELSE IF d < -Half THEN d + Base ELSE d

InOrder(byte) == byte = (decrypt_iv.lo + 1) % Base
Late(byte) == ~InOrder(byte) /\ -LateWindow < Diff(byte) /\ Diff(byte) < 0
Ahead(byte) == ~InOrder(byte) /\ Diff(byte) > 0

\* Mutant: nothing is carried.
CandidateFlat(byte) == [lo |-> byte, hi |-> decrypt_iv.hi]

\* The nonce decrypt assumes for a datagram that carries this byte: the byte
\* wrapped if it went the other way than the counter did.
Candidate(byte) ==
    [lo |-> byte,
     hi |-> IF Late(byte) /\ byte > decrypt_iv.lo THEN decrypt_iv.hi - 1
            ELSE IF ~Late(byte) /\ byte < decrypt_iv.lo THEN decrypt_iv.hi + 1
            ELSE decrypt_iv.hi]

\* Mutant: the history is compared with the newest nonce.
RepeatedNewest(byte) == decrypt_history[byte] = decrypt_iv.hi % Base

\* The history's verdict on the assumed nonce.
Repeated(byte) == decrypt_history[byte] = Candidate(byte).hi % Base

\* The tag matches: the key and the assumed nonce are those that sealed it.
TagMatches(p) == p.key = raw_key /\ p.iv = Candidate(p.iv.lo)

-----------------------------------------------------------------------------
Init ==
    /\ setups = << >>
    /\ encrypt_iv = [lo |-> 0, hi |-> 0]
    /\ sent = {}
    /\ raw_key = 0
    /\ decrypt_iv = [lo |-> 0, hi |-> 0]
    /\ decrypt_history = [b \in Byte |-> 0]
    /\ uiGood = 0
    /\ uiLate = 0
    /\ uiLost = 0
    /\ accepted = {}

\* setKey at the sender: a new key and a nonce to count from.
Setup(nonce) ==
    /\ Len(setups) < MaxKey
    /\ setups' = Append(setups, nonce)
    /\ encrypt_iv' = nonce
    /\ UNCHANGED <<sent, raw_key, decrypt_iv, decrypt_history, uiGood, uiLate, uiLost, accepted>>

\* setKey at the receiver.  The history and the statistics stay as they are.
SetKey ==
    /\ raw_key < Len(setups)
    /\ raw_key' = raw_key + 1
    /\ decrypt_iv' = setups[raw_key + 1]
    /\ UNCHANGED <<sender, decrypt_history, uiGood, uiLate, uiLost, accepted>>

Encrypt ==
    /\ setups # << >>
    /\ Cardinality(sent) < MaxSent
    /\ encrypt_iv' = Increment(encrypt_iv)
    /\ sent' = sent \cup {[key |-> Len(setups), iv |-> encrypt_iv']}
    /\ UNCHANGED <<setups, raw_key, decrypt_iv, decrypt_history, uiGood, uiLate, uiLost, accepted>>

\* Mutant: the history is not written.
AcceptForgetting(p) ==
    /\ uiGood' = uiGood + 1
    /\ accepted' = accepted \cup {p}
    /\ UNCHANGED <<sender, raw_key, decrypt_history>>

\* What every successful decrypt does.
Accept(p) ==
    /\ decrypt_history' = [decrypt_history EXCEPT ![p.iv.lo] = p.iv.hi % Base]
    /\ uiGood' = uiGood + 1
    /\ accepted' = accepted \cup {p}
    /\ UNCHANGED <<sender, raw_key>>

\* The datagram expected next; its history is not consulted.
DecryptInOrder(p) ==
    /\ InOrder(p.iv.lo)
    /\ TagMatches(p)
    /\ Accept(p)
    /\ decrypt_iv' = p.iv
    /\ UNCHANGED <<uiLate, uiLost>>

\* Mutants: the nonce is not put back; the counter of lost datagrams is not.
DecryptLateUnrestored(p) ==
    /\ Late(p.iv.lo)
    /\ ~Repeated(p.iv.lo)
    /\ TagMatches(p)
    /\ Accept(p)
    /\ decrypt_iv' = p.iv
    /\ uiLate' = uiLate + 1
    /\ uiLost' = uiLost - 1
DecryptLateStillLost(p) ==
    /\ Late(p.iv.lo)
    /\ ~Repeated(p.iv.lo)
    /\ TagMatches(p)
    /\ Accept(p)
    /\ uiLate' = uiLate + 1
    /\ UNCHANGED <<decrypt_iv, uiLost>>

\* One that was overtaken: the nonce is put back afterwards.
DecryptLate(p) ==
    /\ Late(p.iv.lo)
    /\ ~Repeated(p.iv.lo)
    /\ TagMatches(p)
    /\ Accept(p)
    /\ uiLate' = uiLate + 1
    /\ uiLost' = uiLost - 1
    /\ UNCHANGED decrypt_iv

\* One after a gap: the datagrams in between are counted lost for now.
DecryptAhead(p) ==
    /\ Ahead(p.iv.lo)
    /\ ~Repeated(p.iv.lo)
    /\ TagMatches(p)
    /\ Accept(p)
    /\ decrypt_iv' = p.iv
    /\ uiLost' = uiLost + Diff(p.iv.lo) - 1
    /\ UNCHANGED uiLate

\* decrypt returns true for p.
Opens(p) ==
    /\ TagMatches(p)
    /\ \/ InOrder(p.iv.lo)
       \/ (Late(p.iv.lo) \/ Ahead(p.iv.lo)) /\ ~Repeated(p.iv.lo)

\* decrypt returns false, from one of its four exits, and has put back the
\* nonce it tried.
DecryptReject(p) ==
    /\ ~Opens(p)
    /\ UNCHANGED vars

Decrypt(p) ==
    \/ DecryptInOrder(p)
    \/ DecryptLate(p)
    \/ DecryptAhead(p)
    \/ DecryptReject(p)

Next ==
    \/ \E nonce \in Nonces : Setup(nonce)
    \/ SetKey
    \/ Encrypt
    \/ raw_key > 0 /\ \E p \in sent : Decrypt(p)

Spec == Init /\ [][Next]_vars

-----------------------------------------------------------------------------
(***************************************************************************)
(* Properties                                                              *)
(***************************************************************************)

\* Every variable has its type, and only what was sent is ever opened.  That
\* the unsigned uiLost stays at or above zero is part of LostExact.
TypeOK ==
    /\ setups \in Seq(Nonces)
    /\ encrypt_iv \in IV
    /\ sent \subseteq Datagram
    /\ raw_key \in 0 .. Len(setups)
    /\ decrypt_iv \in IV
    /\ decrypt_history \in [Byte -> Byte]
    /\ uiGood \in Nat
    /\ uiLate \in Nat
    /\ uiLost \in Int
    /\ accepted \subseteq sent

\* No datagram is opened twice, however often and in whatever order the
\* network delivers it: decrypt returned true once per accepted datagram,
\* even after the history slot it was remembered in has been reused.
NoReplay == uiGood = Cardinality(accepted)

\* Every datagram opened under the current key lies at or below the newest,
\* and as long as it could still be taken for a late one the history holds
\* its byte 1: the slot is not reused before the window has moved past it.
WindowRemembered ==
    \A p \in accepted :
        p.key = raw_key =>
            /\ Num(p.iv) <= Num(decrypt_iv)
            /\ Num(p.iv) > Num(decrypt_iv) - LateWindow =>
                    decrypt_history[p.iv.lo] = p.iv.hi % Base

\* The datagrams that a later one of the same key overtook and that have not
\* been opened.
Missing ==
    {p \in sent \ accepted :
        \E q \in accepted : q.key = p.key /\ Num(q.iv) > Num(p.iv)}

\* uiLost counts exactly the overtaken datagrams that are still missing: each
\* is counted once, discounted when it arrives late, and counted again never,
\* so that the unsigned counter cannot wrap below zero.
LostExact == uiLost = Cardinality(Missing)

\* A datagram of the receiver's key that has not been opened, and is neither
\* too old nor too far ahead, would be opened if it arrived now.  The one
\* exception is a slot that holds the datagram's byte 1 by chance, and has not
\* been written under this key for as long as it takes that byte to come round:
\* the constructor zeroes the history, setKey leaves the previous key's bytes in
\* it, and a slot all of whose datagrams are lost keeps what it has.
FreshAccepted ==
    \A p \in sent \ accepted :
        /\ p.key = raw_key
        /\ Num(p.iv) > Num(decrypt_iv) - LateWindow
        /\ Num(p.iv) < Num(decrypt_iv) + Half
        => \/ Opens(p)
           \/ /\ decrypt_history[p.iv.lo] = p.iv.hi % Base
              /\ \A q \in accepted :
                    q.key = raw_key /\ Num(q.iv) > Num(p.iv) - Base * Base => q.iv.lo # p.iv.lo

(***************************************************************************)
(* The window of the abstract receiver.                                    *)
(***************************************************************************)
Numbered(P) == {[key |-> p.key, num |-> Num(p.iv)] : p \in P}

Window == INSTANCE ReplayWindow WITH
    Starts <- {Num(nonce) : nonce \in Nonces},
    Behind <- LateWindow,
    Beyond <- Half,
    starts <- [k \in DOMAIN setups |-> Num(setups[k])],
    sent <- Numbered(sent),
    key <- raw_key,
    high <- Num(decrypt_iv),
    got <- Numbered(accepted),
    good <- uiGood

\* The bytes, the folding and the history implement the abstract window.
ImplementsWindow == Window!Spec
=============================================================================
