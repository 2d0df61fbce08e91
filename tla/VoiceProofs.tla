---------------------------- MODULE VoiceProofs -----------------------------
(***************************************************************************)
(* Theorems of modules VarInt, AudioPacket and Voice.  What parse reads is *)
(* what Encode wrote, so what Decode finds in a packet is what its sender  *)
(* meant by it; and the sequence numbers of a spurt are in the order it    *)
(* was said in.                                                            *)
(***************************************************************************)
EXTENDS Voice, SequenceTheorems, TLAPS

-----------------------------------------------------------------------------
(* The numbers of a packet. *)

\* Encode writes the short form of some length when the number fits one.
LEMMA EncodeShort ==
    ASSUME NEW v \in Int64, \E n \in 1 .. 4 : Fits(v, n)
    PROVE  \E n \in 1 .. 4 :
              /\ Fits(v, n)
              /\ Encode(v) = [i \in 1 .. n |-> IF i = 1 THEN Mark[n] + v[9 - n] ELSE v[8 - n + i]]
<1> DEFINE Least(n) == Fits(v, n) /\ \A m \in 1 .. n - 1 : ~Fits(v, m)
<1>1. \E n \in 1 .. 4 : Least(n)
  <2>1. CASE Fits(v, 1)
    BY <2>1
  <2>2. CASE ~Fits(v, 1) /\ Fits(v, 2)
    <3>1. Least(2)
      BY <2>2
    <3> QED
      BY <3>1
  <2>3. CASE ~Fits(v, 1) /\ ~Fits(v, 2) /\ Fits(v, 3)
    <3>1. Least(3)
      BY <2>3
    <3> QED
      BY <3>1
  <2>4. CASE ~Fits(v, 1) /\ ~Fits(v, 2) /\ ~Fits(v, 3)
    <3>1. Fits(v, 4)
      BY <2>4
    <3>2. Least(4)
      BY <2>4, <3>1
    <3> QED
      BY <3>2
  <2> QED
    BY <2>1, <2>2, <2>3, <2>4
<1> DEFINE n == CHOOSE n \in 1 .. 4 : Least(n)
<1>2. n \in 1 .. 4 /\ Least(n)
  BY <1>1
<1>3. Encode(v) = [i \in 1 .. n |-> IF i = 1 THEN Mark[n] + v[9 - n] ELSE v[8 - n + i]]
  BY Zenon DEF Encode
<1> QED
  BY <1>2, <1>3

\* A byte that fits beside the mark of a form makes a lead byte of that form.
LEMMA Marked ==
    ASSUME NEW n \in 1 .. 4, NEW b \in Byte, b < Room[n]
    PROVE  /\ Leads(Mark[n] + b, n)
           /\ Mark[n] + b \in Byte
           /\ (Mark[n] + b) - Mark[n] = b
<1> USE DEF Leads, Mark, Room, Byte
<1>1. CASE n = 1
  BY <1>1
<1>2. CASE n = 2
  BY <1>2
<1>3. CASE n = 3
  BY <1>3
<1>4. CASE n = 4
  BY <1>4
<1> QED
  BY <1>1, <1>2, <1>3, <1>4

\* The lead byte of a short form tells its length: the four ranges are apart.
LEMMA LeadsOne ==
    ASSUME NEW b \in Byte, NEW n \in 1 .. 4, Leads(b, n)
    PROVE  (CHOOSE m \in 1 .. 4 : Leads(b, m)) = n
<1>1. \A m \in 1 .. 4 : Leads(b, m) => m = n
  BY DEF Leads, Mark, Room, Byte
<1> QED
  BY <1>1

\* ... and it is below those of the long forms.
LEMMA LeadsBelow ==
    ASSUME NEW b \in Byte, NEW n \in 1 .. 4, Leads(b, n)
    PROVE  ~(b \in 240 .. 243) /\ ~(b \in 244 .. 247) /\ ~(b >= 248)
<1> USE DEF Leads, Mark, Room, Byte
<1>1. CASE n = 1
  BY <1>1
<1>2. CASE n = 2
  BY <1>2
<1>3. CASE n = 3
  BY <1>3
<1>4. CASE n = 4
  BY <1>4
<1> QED
  BY <1>1, <1>2, <1>3, <1>4

\* The bytes of the number that a short form stands for.
LEMMA ShortBytes ==
    ASSUME NEW buf, NEW n \in 1 .. 4, NEW i \in 1 .. 8
    PROVE  /\ i < 9 - n => Short(buf, n)[i] = 0
           /\ i = 9 - n => Short(buf, n)[i] = buf[1] - Mark[n]
           /\ i > 9 - n => Short(buf, n)[i] = buf[i + n - 8]
<1>1. Short(buf, n)[i] = IF i < 9 - n THEN 0
                         ELSE IF i = 9 - n THEN buf[1] - Mark[n] ELSE buf[i + n - 8]
  BY Zenon DEF Short
<1>2. /\ i = 9 - n => ~(i < 9 - n)
      /\ i > 9 - n => ~(i < 9 - n) /\ ~(i = 9 - n)
  OBVIOUS
<1> QED
  BY <1>1, <1>2, Zenon

\* The first bytes of a sequence are not touched by what is appended.
LEMMA HeadOfAppended ==
    ASSUME NEW s \in Seq(Byte), NEW t \in Seq(Byte)
    PROVE  \A i \in 1 .. Len(s) : (s \o t)[i] = s[i]
  OBVIOUS

\* VarInt round trip: for every number that Encode does not throw for, parse finds in
\* the bytes Encode writes, whatever follows them in the buffer, that number and the
\* number of those bytes.
THEOREM RoundTrip ==
    ASSUME NEW v \in Int64, ~Negative(v), NEW rest \in Seq(Byte)
    PROVE  /\ Encode(v) \in Seq(Byte)
           /\ Parse(Encode(v) \o rest) = [val |-> v, size |-> Len(Encode(v))]
<1> DEFINE buf == Encode(v) \o rest
<1>v. \A i \in 1 .. 8 : v[i] \in Byte
  BY DEF Int64
<1>h. Encode(v) \in Seq(Byte) => \A i \in 1 .. Len(Encode(v)) : buf[i] = Encode(v)[i]
  BY HeadOfAppended
<1> HIDE DEF buf
<1>1. CASE \E n \in 1 .. 4 : Fits(v, n)
  <2>1. PICK n \in 1 .. 4 :
            /\ Fits(v, n)
            /\ Encode(v) = [i \in 1 .. n |-> IF i = 1 THEN Mark[n] + v[9 - n] ELSE v[8 - n + i]]
    BY <1>1, EncodeShort
  <2>2. /\ Leads(Mark[n] + v[9 - n], n)
        /\ Mark[n] + v[9 - n] \in Byte
        /\ (Mark[n] + v[9 - n]) - Mark[n] = v[9 - n]
    <3>1. v[9 - n] \in Byte /\ v[9 - n] < Room[n]
      BY <2>1, <1>v DEF Fits
    <3> QED
      BY <3>1, Marked
  <2>3. /\ Encode(v) \in Seq(Byte)
        /\ Len(Encode(v)) = n
        /\ \A i \in 1 .. n : Encode(v)[i] = (IF i = 1 THEN Mark[n] + v[9 - n] ELSE v[8 - n + i])
    <3>1. \A i \in 1 .. n : (IF i = 1 THEN Mark[n] + v[9 - n] ELSE v[8 - n + i]) \in Byte
      BY <2>2, <1>v
    <3> QED
      BY <2>1, <3>1
  <2>4. \A i \in 1 .. n : buf[i] = Encode(v)[i]
    BY <2>3, <1>h
  <2>5. buf[1] = Mark[n] + v[9 - n] /\ buf[1] \in Byte
    BY <2>2, <2>3, <2>4
  <2>6. Short(buf, n) = v
    <3>1. \A i \in 1 .. 8 : Short(buf, n)[i] = v[i]
      <4> SUFFICES ASSUME NEW i \in 1 .. 8
                   PROVE  Short(buf, n)[i] = v[i]
        OBVIOUS
      <4>1. CASE i < 9 - n
        <5>1. v[i] = 0
          BY <2>1, <4>1 DEF Fits
        <5> QED
          BY <4>1, <5>1, ShortBytes
      <4>2. CASE i = 9 - n
        <5>1. buf[1] - Mark[n] = v[i]
          BY <2>2, <2>5, <4>2
        <5> QED
          BY <4>2, <5>1, ShortBytes
      <4>3. CASE i > 9 - n
        <5>1. i + n - 8 \in 2 .. n
          BY <4>3
        <5>2. buf[i + n - 8] = v[8 - n + (i + n - 8)]
          BY <2>3, <2>4, <5>1
        <5>3. buf[i + n - 8] = v[i]
          BY <5>2
        <5>4. Short(buf, n)[i] = buf[i + n - 8]
          BY <4>3, ShortBytes
        <5> QED
          BY <5>3, <5>4
      <4> QED
        BY <4>1, <4>2, <4>3
    <3> QED
      BY <3>1 DEF Short, Int64
  <2>7. Leads(buf[1], n)
    BY <2>2, <2>5
  <2>8. (CHOOSE m \in 1 .. 4 : Leads(buf[1], m)) = n
    BY <2>5, <2>7, LeadsOne
  <2>9. Parse(buf) = [val |-> Short(buf, n), size |-> n]
    <3>1. ~(buf[1] \in 240 .. 243) /\ ~(buf[1] \in 244 .. 247) /\ ~(buf[1] >= 248)
      BY <2>5, <2>7, LeadsBelow
    <3> QED
      BY <2>7, <2>8, <3>1 DEF Parse
  <2> QED
    BY <2>3, <2>6, <2>9 DEF buf
<1>2. CASE ~\E n \in 1 .. 4 : Fits(v, n)
  <2>1. Encode(v) = [i \in 1 .. 9 |-> IF i = 1 THEN 244 ELSE v[i - 1]]
    BY <1>2 DEF Encode
  <2>2. /\ Encode(v) \in Seq(Byte)
        /\ Len(Encode(v)) = 9
        /\ \A i \in 1 .. 9 : Encode(v)[i] = (IF i = 1 THEN 244 ELSE v[i - 1])
    <3>1. ASSUME NEW i \in 1 .. 9
          PROVE  (IF i = 1 THEN 244 ELSE v[i - 1]) \in Byte
      <4>1. CASE i = 1
        BY <4>1 DEF Byte
      <4>2. CASE i # 1
        <5>1. i - 1 \in 1 .. 8
          BY <4>2
        <5> QED
          BY <4>2, <5>1, <1>v
      <4> QED
        BY <4>1, <4>2
    <3> QED
      BY <2>1, <3>1
  <2>3. \A i \in 1 .. 9 : buf[i] = Encode(v)[i]
    BY <2>2, <1>h
  <2>4. buf[1] = 244
    BY <2>2, <2>3
  <2>5. ASSUME NEW i \in 1 .. 8
        PROVE  buf[i + 1] = v[i]
    <3>1. i + 1 \in 1 .. 9 /\ i + 1 # 1 /\ (i + 1) - 1 = i
      OBVIOUS
    <3> QED
      BY <2>2, <2>3, <3>1
  <2>6. Swapped64(buf) = v
    BY <2>5 DEF Swapped64, Int64
  <2>7. Parse(buf) = [val |-> Swapped64(buf), size |-> 9]
    <3>1. ~\E n \in 1 .. 4 : Leads(buf[1], n)
      BY <2>4 DEF Leads, Mark, Room
    <3> QED
      BY <2>4, <3>1 DEF Parse
  <2> QED
    BY <2>2, <2>6, <2>7 DEF buf
<1> QED
  BY <1>1, <1>2

\* Encode writes one to nine bytes.
LEMMA EncodeLength ==
    ASSUME NEW v \in Int64, ~Negative(v)
    PROVE  Encode(v) \in Seq(Byte) /\ Len(Encode(v)) \in 1 .. 9
<1>1. Encode(v) \in Seq(Byte)
  <2>1. <<>> \in Seq(Byte)
    OBVIOUS
  <2> QED
    BY <2>1, RoundTrip
<1>2. CASE \E n \in 1 .. 4 : Fits(v, n)
  <2>1. PICK n \in 1 .. 4 :
            Encode(v) = [i \in 1 .. n |-> IF i = 1 THEN Mark[n] + v[9 - n] ELSE v[8 - n + i]]
    BY <1>2, EncodeShort
  <2>2. DOMAIN Encode(v) = 1 .. n
    BY <2>1
  <2>3. Len(Encode(v)) = n
    BY <1>1, <2>2, LenProperties
  <2> QED
    BY <1>1, <2>3
<1>3. CASE ~\E n \in 1 .. 4 : Fits(v, n)
  <2>1. DOMAIN Encode(v) = 1 .. 9
    BY <1>3 DEF Encode
  <2>2. Len(Encode(v)) = 9
    BY <1>1, <2>1, LenProperties
  <2> QED
    BY <1>1, <2>2
<1> QED
  BY <1>2, <1>3

\* Eight bytes are an int64_t.
LEMMA EightBytes ==
    ASSUME NEW a \in Byte, NEW b \in Byte, NEW c \in Byte, NEW d \in Byte,
           NEW e \in Byte, NEW f \in Byte, NEW g \in Byte, NEW h \in Byte
    PROVE  <<a, b, c, d, e, f, g, h>> \in Int64
  BY DEF Int64

\* The bytes of a number are bytes.
LEMMA NumberTyped ==
    ASSUME NEW n \in Nat
    PROVE  Number(n) \in Int64
<1> DEFINE high == (n \div 65536) \div 65536
           w(x, y) == (x \div y) % 256
<1>1. \A k \in Nat : k % 256 \in Byte
  BY DEF Byte
<1>2. high \in Nat
  OBVIOUS
<1>3. Number(n) = <<w(high, 16777216), w(high, 65536), w(high, 256), high % 256,
                    w(n, 16777216), w(n, 65536), w(n, 256), n % 256>>
  BY SMT DEF Number
<1> HIDE DEF high
<1>4. /\ w(high, 16777216) \in Byte /\ w(high, 65536) \in Byte /\ w(high, 256) \in Byte
      /\ w(n, 16777216) \in Byte /\ w(n, 65536) \in Byte /\ w(n, 256) \in Byte
  BY <1>1, <1>2, SMT
<1>5. high % 256 \in Byte /\ n % 256 \in Byte
  BY <1>1, <1>2
<1> DEFINE a == w(high, 16777216)
           b == w(high, 65536)
           c == w(high, 256)
           d == high % 256
           e == w(n, 16777216)
           f == w(n, 65536)
           g == w(n, 256)
           h == n % 256
<1>6. Number(n) = <<a, b, c, d, e, f, g, h>>
  BY <1>3
<1>7. /\ a \in Byte /\ b \in Byte /\ c \in Byte /\ d \in Byte
      /\ e \in Byte /\ f \in Byte /\ g \in Byte /\ h \in Byte
  BY <1>4, <1>5
<1> HIDE DEF a, b, c, d, e, f, g, h
<1>8. <<a, b, c, d, e, f, g, h>> \in Int64
  BY <1>7, EightBytes, Zenon
<1> QED
  BY <1>6, <1>8

\* A uint32_t is not negative as an int64_t.
LEMMA NumberPositive ==
    ASSUME NEW n, UInt32(n)
    PROVE  n \in Nat /\ ~Negative(Number(n))
<1>1. n \in Nat /\ (n \div 65536) \div 65536 = 0
  BY DEF UInt32
<1>2. PICK high : high = (n \div 65536) \div 65536
  OBVIOUS
<1>3. (high \div 16777216) % 256 = 0
  BY <1>1, <1>2
<1>4. Number(n)[1] = (high \div 16777216) % 256
  BY <1>2 DEF Number
<1> QED
  BY <1>1, <1>3, <1>4 DEF Negative

\* The int an int64_t is narrowed to is one.
LEMMA NarrowedTyped ==
    ASSUME NEW v \in Int64
    PROVE  Int32(ToInt(v))
<1>1. v[5] \in 0 .. 255 /\ v[6] \in 0 .. 255 /\ v[7] \in 0 .. 255 /\ v[8] \in 0 .. 255
  BY DEF Int64, Byte
<1>2. PICK a, b, c, d : a = v[5] /\ b = v[6] /\ c = v[7] /\ d = v[8]
  OBVIOUS
<1>3. PICK h : h = IF a >= 128 THEN a - 256 ELSE a
  OBVIOUS
<1>4. h \in -128 .. 127
  BY <1>1, <1>2, <1>3, SMT
<1>5. ToInt(v) = h * 16777216 + b * 65536 + c * 256 + d
  BY <1>2, <1>3, SMT DEF ToInt
<1>6. b \in 0 .. 255 /\ c \in 0 .. 255 /\ d \in 0 .. 255
  BY <1>1, <1>2
<1>7. PICK r : r = b * 65536 + c * 256 + d
  OBVIOUS
<1>8. r \in Int /\ 0 <= r /\ r < 16777216
  BY <1>6, <1>7, SMT
<1>9. ToInt(v) = h * 16777216 + r
  BY <1>4, <1>5, <1>6, <1>7, SMT
<1>10. ToInt(v) \in Int /\ ToInt(v) \div 16777216 = h
  BY <1>4, <1>8, <1>9, SMT
<1> QED
  BY <1>4, <1>10 DEF Int32

\* A number that an int holds is not changed by becoming one.
LEMMA NarrowedSame ==
    ASSUME NEW n \in Nat, Int32(n)
    PROVE  ToInt(Number(n)) = n
<1> DEFINE e == (n \div 16777216) % 256
           f == (n \div 65536) % 256
           g == (n \div 256) % 256
           h == n % 256
<1>1. Number(n)[5] = e /\ Number(n)[6] = f /\ Number(n)[7] = g /\ Number(n)[8] = h
  BY DEF Number
<1>2. n \div 16777216 < 128
  BY DEF Int32
<1>3. e = n \div 16777216
  BY <1>2, SMT
<1>4. n = e * 16777216 + f * 65536 + g * 256 + h
  <2>1. n = (n \div 256) * 256 + h
    BY SMT
  <2>2. n \div 256 = (n \div 65536) * 256 + g
    BY SMT
  <2>3. n \div 65536 = e * 256 + f
    BY <1>3, SMT
  <2>4. n \div 256 \in Int /\ n \div 65536 \in Int /\ e \in Int /\ f \in Int /\ g \in Int /\ h \in Int
    BY <1>3, SMT
  <2>5. PICK k \in Int, j \in Int : k = n \div 256 /\ j = n \div 65536
    BY <2>4
  <2> HIDE DEF e, f, g, h
  <2>6. k = (e * 256 + f) * 256 + g
    BY <2>2, <2>3, <2>5
  <2>7. k = e * 65536 + f * 256 + g
    BY <2>4, <2>6, SMT
  <2>8. n = k * 256 + h
    BY <2>1, <2>5
  <2> QED BY <2>4, <2>7, <2>8, SMT
<1>5. ~(e >= 128)
  BY <1>2, <1>3, SMT
<1> HIDE DEF e, f, g, h
<1>6. ToInt(Number(n)) = e * 16777216 + f * 65536 + g * 256 + h
  BY <1>1, <1>5 DEF ToInt
<1> QED
  BY <1>4, <1>6

\* The number in front of a payload is its length, the packet not being the last.
LEMMA LengthWritten ==
    ASSUME NEW len \in 1 .. LastMask - 1
    PROVE  OpusHeader(len, FALSE) = len
  BY DEF OpusHeader, LastMask

\* The length of a payload comes back from the number in front of it.
LEMMA LengthRead ==
    ASSUME NEW len \in 1 .. LastMask - 1
    PROVE  /\ UInt32(len)
           /\ LengthOf(Number(len)) = len
           /\ ~IsLast(Number(len))
<1>2. UInt32(len)
  <2>1. len \div 65536 = 0
    BY DEF LastMask
  <2> QED
    BY <2>1 DEF UInt32
<1>3. Number(len)[7] = (len \div 256) % 256 /\ Number(len)[8] = len % 256
  BY DEF Number
<1>4. PICK q \in 0 .. 31, r \in 0 .. 255 : len = 256 * q + r
  <2>1. len \div 256 \in 0 .. 31 /\ len % 256 \in 0 .. 255 /\ len = 256 * (len \div 256) + (len % 256)
    BY DEF LastMask
  <2> QED
    BY <2>1
<1>5. (len \div 256) % 256 = q /\ len % 256 = r
  BY <1>4
<1>6. q % 32 = q /\ (q \div 32) % 2 = 0
  OBVIOUS
<1>7. LengthOf(Number(len)) = len
  BY <1>3, <1>4, <1>5, <1>6 DEF LengthOf
<1>8. ~IsLast(Number(len))
  BY <1>3, <1>5, <1>6 DEF IsLast
<1> QED
  BY <1>2, <1>7, <1>8

-----------------------------------------------------------------------------
(* The bytes of a packet. *)

\* Nine bytes of a buffer, from where some others end.
LEMMA Window ==
    ASSUME NEW a \in Seq(Byte), NEW e \in Seq(Byte), NEW c \in Seq(Byte),
           Len(e) \in 1 .. 9, Len(c) >= 8
    PROVE  /\ SubSeq(c, 1, 9 - Len(e)) \in Seq(Byte)
           /\ At(a \o (e \o c), 1 + Len(a)) = e \o SubSeq(c, 1, 9 - Len(e))
<1>1. PICK k \in 1 .. 9 : k = Len(e)
  OBVIOUS
<1>2. PICK d : d = SubSeq(c, 1, 9 - k)
  OBVIOUS
<1>3. d \in Seq(Byte) /\ Len(d) = 9 - k /\ \A i \in 1 .. 9 - k : d[i] = c[i]
  BY <1>2
<1>4. PICK u : u = e \o c
  OBVIOUS
<1>5. u \in Seq(Byte) /\ Len(u) = k + Len(c) /\ \A i \in 1 .. Len(u) : u[i] = IF i <= k THEN e[i] ELSE c[i - k]
  BY <1>1, <1>4, ConcatProperties
<1>6. PICK n \in Nat : n = Len(a)
  OBVIOUS
<1>7. PICK b : b = a \o u
  OBVIOUS
<1>8. b \in Seq(Byte) /\ Len(b) = n + Len(u) /\ \A i \in 1 .. Len(u) : b[n + i] = u[i]
  <2>1. b \in Seq(Byte) /\ Len(b) = n + Len(u)
    BY <1>5, <1>6, <1>7, ConcatProperties, ZenonT(30)
  <2>2. \A i \in 1 .. n + Len(u) : b[i] = IF i <= n THEN a[i] ELSE u[i - n]
    BY <1>5, <1>6, <1>7, ConcatProperties
  <2>3. ASSUME NEW i \in 1 .. Len(u)
        PROVE  b[n + i] = u[i]
    <3>1. n + i \in 1 .. n + Len(u) /\ ~(n + i <= n) /\ (n + i) - n = i
      BY <1>5
    <3> QED
      BY <3>1, <2>2
  <2> QED
    BY <2>1, <2>3
<1>9. PICK w : w = SubSeq(b, 1 + n, 1 + n + 8)
  OBVIOUS
<1>10. w \in Seq(Byte) /\ Len(w) = 9 /\ \A i \in 1 .. 9 : w[i] = b[n + i]
  <2>1. PICK m \in Nat : m = Len(b)
    BY <1>8
  <2>2. m >= n + 9
    BY <2>1, <1>5, <1>8
  <2>3. \A i \in 1 + n .. 1 + n + 8 : b[i] \in Byte
    BY <2>1, <2>2, <1>8, ElementOfSeq
  <2>4. w \in Seq(Byte) /\ Len(w) = 9
    BY <2>3, <1>9, SubSeqProperties
  <2>5. \A i \in 1 .. 9 : w[i] = b[1 + n + i - 1]
    BY <1>9
  <2>6. \A i \in 1 .. 9 : 1 + n + i - 1 = n + i
    OBVIOUS
  <2> QED
    BY <2>4, <2>5, <2>6
<1>11. PICK x : x = e \o d
  OBVIOUS
<1>12. x \in Seq(Byte) /\ Len(x) = 9 /\ \A i \in 1 .. 9 : x[i] = IF i <= k THEN e[i] ELSE d[i - k]
  <2>1. x \in Seq(Byte) /\ Len(x) = k + Len(d)
    BY <1>1, <1>3, <1>11, ConcatProperties
  <2>2. \A i \in 1 .. k + Len(d) : x[i] = IF i <= k THEN e[i] ELSE d[i - k]
    BY <1>1, <1>3, <1>11, ConcatProperties
  <2>3. k + Len(d) = 9
    BY <1>3
  <2> QED
    BY <2>1, <2>2, <2>3
<1>13. \A i \in 1 .. 9 : w[i] = x[i]
  <2> SUFFICES ASSUME NEW i \in 1 .. 9
               PROVE  w[i] = x[i]
    OBVIOUS
  <2>1. w[i] = u[i]
    <3>1. i \in 1 .. Len(u)
      <4>1. PICK j \in Nat : j = Len(c) /\ j >= 8
        OBVIOUS
      <4>2. Len(u) = k + j
        BY <4>1, <1>5
      <4> QED
        BY <4>1, <4>2
    <3> QED
      BY <3>1, <1>8, <1>10
  <2>2. u[i] = IF i <= k THEN e[i] ELSE c[i - k]
    BY <1>5
  <2>3. CASE i <= k
    BY <2>1, <2>2, <2>3, <1>12
  <2>4. CASE ~(i <= k)
    <3>1. d[i - k] = c[i - k]
      BY <1>3, <2>4
    <3> QED
      BY <2>1, <2>2, <2>4, <3>1, <1>12
  <2> QED
    BY <2>3, <2>4
<1>14. w = x
  BY <1>10, <1>12, <1>13, SeqEqual
<1> QED
  BY <1>1, <1>2, <1>3, <1>4, <1>6, <1>7, <1>9, <1>11, <1>14 DEF At

\* A VarInt is read where it was written.
LEMMA ReadsAt ==
    ASSUME NEW a \in Seq(Byte), NEW v \in Int64, ~Negative(v), NEW c \in Seq(Byte), Len(c) >= 8
    PROVE  Parse(At(a \o (Encode(v) \o c), 1 + Len(a))) = [val |-> v, size |-> Len(Encode(v))]
<1>1. PICK e : e = Encode(v)
  OBVIOUS
<1>2. e \in Seq(Byte) /\ Len(e) \in 1 .. 9
  BY <1>1, EncodeLength
<1>3. PICK d \in Seq(Byte) : At(a \o (e \o c), 1 + Len(a)) = e \o d
  BY <1>2, Window
<1>4. Parse(Encode(v) \o d) = [val |-> v, size |-> Len(Encode(v))]
  BY RoundTrip
<1> QED
  BY <1>1, <1>3, <1>4

\* Bytes in the midst of others.
LEMMA Middle ==
    ASSUME NEW a \in Seq(Byte), NEW p \in Seq(Byte), NEW c \in Seq(Byte)
    PROVE  SubSeq(a \o (p \o c), 1 + Len(a), Len(a) + Len(p)) = p
<1>1. PICK n \in Nat, k \in Nat : n = Len(a) /\ k = Len(p)
  OBVIOUS
<1>2. PICK u : u = p \o c
  OBVIOUS
<1>3. u \in Seq(Byte) /\ Len(u) >= k /\ \A i \in 1 .. k : u[i] = p[i]
  BY <1>1, <1>2, ConcatProperties
<1>4. PICK b : b = a \o u
  OBVIOUS
<1>5. b \in Seq(Byte) /\ Len(b) = n + Len(u) /\ \A i \in 1 .. Len(u) : b[n + i] = u[i]
  BY <1>1, <1>3, <1>4, ConcatProperties
<1>6. PICK w : w = SubSeq(b, 1 + n, n + k)
  OBVIOUS
<1>7. w \in Seq(Byte) /\ Len(w) = k /\ \A i \in 1 .. k : w[i] = b[n + i]
  <2>1. PICK m \in Nat : m = Len(b)
    BY <1>5
  <2>2. m >= n + k
    BY <2>1, <1>3, <1>5
  <2>3. \A i \in 1 + n .. n + k : b[i] \in Byte
    BY <2>1, <2>2, <1>5, ElementOfSeq
  <2>4. w \in Seq(Byte) /\ Len(w) = k
    BY <2>3, <1>6, SubSeqProperties
  <2>5. \A i \in 1 .. k : w[i] = b[1 + n + i - 1]
    BY <1>6
  <2>6. \A i \in 1 .. k : 1 + n + i - 1 = n + i
    OBVIOUS
  <2> QED
    BY <2>4, <2>5, <2>6
<1>8. \A i \in 1 .. k : w[i] = p[i]
  <2>1. \A i \in 1 .. k : i \in 1 .. Len(u)
    BY <1>3
  <2> QED
    BY <2>1, <1>3, <1>5, <1>7
<1>9. w = p
  BY <1>1, <1>7, <1>8, SeqEqual
<1> QED
  BY <1>1, <1>2, <1>4, <1>6, <1>9

\* Without its first byte.
LEMMA TailOfHeaded ==
    ASSUME NEW h \in Byte, NEW t \in Seq(Byte)
    PROVE  Tail(<<h>> \o t) = t
<1>1. PICK u : u = <<h>> \o t
  OBVIOUS
<1>2. u \in Seq(Byte) /\ Len(u) = 1 + Len(t) /\ \A i \in 1 .. Len(t) : u[1 + i] = t[i]
  <2>1. <<h>> \in Seq(Byte) /\ Len(<<h>>) = 1
    OBVIOUS
  <2>2. u \in Seq(Byte) /\ Len(u) = 1 + Len(t)
    BY <1>1, <2>1, ConcatProperties
  <2>3. \A i \in 1 .. 1 + Len(t) : u[i] = IF i <= 1 THEN <<h>>[i] ELSE t[i - 1]
    BY <1>1, <2>1, ConcatProperties
  <2>4. ASSUME NEW i \in 1 .. Len(t)
        PROVE  u[1 + i] = t[i]
    <3>1. 1 + i \in 1 .. 1 + Len(t) /\ ~(1 + i <= 1) /\ (1 + i) - 1 = i
      OBVIOUS
    <3> QED
      BY <2>3, <3>1
  <2> QED
    BY <2>2, <2>4
<1>3. u # <<>>
  BY <1>2
<1>4. PICK w : w = Tail(u)
  OBVIOUS
<1>5. w \in Seq(Byte) /\ Len(w) = Len(t) /\ \A i \in 1 .. Len(t) : w[i] = u[i + 1]
  BY <1>2, <1>3, <1>4, HeadTailProperties
<1>6. \A i \in 1 .. Len(t) : w[i] = t[i]
  BY <1>2, <1>5
<1>7. w = t
  BY <1>5, <1>6, SeqEqual
<1> QED
  BY <1>1, <1>4, <1>7

\* Concatenation, a name for the provers not to look behind.
Cat(s, t) == s \o t

LEMMA Joined ==
    ASSUME NEW s \in Seq(Byte), NEW t \in Seq(Byte)
    PROVE  Cat(s, t) \in Seq(Byte) /\ Len(Cat(s, t)) = Len(s) + Len(t)
  BY ConcatProperties DEF Cat

LEMMA Regroup ==
    ASSUME NEW s \in Seq(Byte), NEW t \in Seq(Byte), NEW u \in Seq(Byte)
    PROVE  Cat(Cat(s, t), u) = Cat(s, Cat(t, u))
  BY DEF Cat

\* What Relayed makes of an Opus packet, and the buffer it is decoded in, cut before
\* each of its numbers and before its payload.
Lays(h, g, e1, e2, e3, p, pad, rest, b, a2, a3, a4, c2, c3, c4, d4) ==
    /\ b = <<h>> \o e1 \o Tail(<<g>> \o e2 \o e3 \o p) \o pad
    /\ Len(b) = 1 + Len(e1) + Len(e2) + Len(e3) + Len(p) + Len(pad)
    /\ Len(a2) = 1 + Len(e1) /\ Len(a3) = 1 + Len(e1) + Len(e2)
    /\ Len(a4) = 1 + Len(e1) + Len(e2) + Len(e3)
    /\ Len(c2) >= Len(rest) /\ Len(c3) >= Len(rest) /\ Len(d4) >= Len(rest)
    /\ b \o rest = <<h>> \o (e1 \o c2)
    /\ b \o rest = a2 \o (e2 \o c3)
    /\ b \o rest = a3 \o (e3 \o d4)
    /\ b \o rest = a4 \o (p \o c4)

\* ... which can be done.
LEMMA Laid ==
    ASSUME NEW h \in Byte, NEW g \in Byte,
           NEW e1 \in Seq(Byte), NEW e2 \in Seq(Byte), NEW e3 \in Seq(Byte),
           NEW p \in Seq(Byte), NEW pad \in Seq(Byte), NEW rest \in Seq(Byte)
    PROVE  \E b \in Seq(Byte), a2 \in Seq(Byte), a3 \in Seq(Byte), a4 \in Seq(Byte),
              c2 \in Seq(Byte), c3 \in Seq(Byte), c4 \in Seq(Byte), d4 \in Seq(Byte) :
              Lays(h, g, e1, e2, e3, p, pad, rest, b, a2, a3, a4, c2, c3, c4, d4)
<1>1. PICK u, v : u = <<h>> /\ v = <<g>>
  OBVIOUS
<1>2. u \in Seq(Byte) /\ v \in Seq(Byte) /\ Len(u) = 1
  BY <1>1
<1> DEFINE t2 == Cat(e2, e3)
           t  == Cat(t2, p)
           a2 == Cat(u, e1)
           k  == Cat(a2, t)
           b  == Cat(k, pad)
           c4 == Cat(pad, rest)
           d4 == Cat(p, c4)
           c3 == Cat(e3, d4)
           c2 == Cat(e2, c3)
           a3 == Cat(a2, e2)
           a4 == Cat(a3, e3)
<1>3. t2 \in Seq(Byte) /\ Len(t2) = Len(e2) + Len(e3)
  BY Joined
<1>4. t \in Seq(Byte) /\ Len(t) = Len(t2) + Len(p)
  BY <1>3, Joined
<1>5. a2 \in Seq(Byte) /\ Len(a2) = Len(u) + Len(e1)
  BY <1>2, Joined
<1>6. k \in Seq(Byte) /\ Len(k) = Len(a2) + Len(t)
  BY <1>4, <1>5, Joined
<1>7. b \in Seq(Byte) /\ Len(b) = Len(k) + Len(pad)
  BY <1>6, Joined
<1>8. c4 \in Seq(Byte) /\ Len(c4) = Len(pad) + Len(rest)
  BY Joined
<1>9. d4 \in Seq(Byte) /\ Len(d4) = Len(p) + Len(c4)
  BY <1>8, Joined
<1>10. c3 \in Seq(Byte) /\ Len(c3) = Len(e3) + Len(d4)
  BY <1>9, Joined
<1>11. c2 \in Seq(Byte) /\ Len(c2) = Len(e2) + Len(c3)
  BY <1>10, Joined
<1>12. a3 \in Seq(Byte) /\ Len(a3) = Len(a2) + Len(e2)
  BY <1>5, Joined
<1>13. a4 \in Seq(Byte) /\ Len(a4) = Len(a3) + Len(e3)
  BY <1>12, Joined
<1>14. Tail(Cat(Cat(Cat(v, e2), e3), p)) = t
  <2>1. Cat(Cat(v, e2), e3) = Cat(v, t2)
    BY <1>2, Regroup
  <2>2. Cat(Cat(v, t2), p) = Cat(v, t)
    BY <1>2, <1>3, Regroup
  <2>3. Tail(Cat(v, t)) = t
    <3> HIDE DEF t
    <3> QED
      BY <1>1, <1>4, TailOfHeaded DEF Cat
  <2> QED
    BY <2>1, <2>2, <2>3
<1>15. Cat(b, rest) = Cat(k, c4)
  BY <1>6, Regroup
<1>16. Cat(k, c4) = Cat(a2, Cat(t, c4))
  BY <1>4, <1>5, <1>8, Regroup
<1>17. Cat(t, c4) = Cat(t2, d4)
  BY <1>3, <1>8, Regroup
<1>18. Cat(t2, d4) = c2
  BY <1>9, Regroup
<1>19. Cat(a2, c2) = Cat(u, Cat(e1, c2))
  BY <1>2, <1>11, Regroup
<1>20. Cat(a2, c2) = Cat(a3, c3)
  BY <1>5, <1>10, Regroup
<1>21. Cat(a3, c3) = Cat(a4, d4)
  BY <1>9, <1>12, Regroup
<1>22. b = <<h>> \o e1 \o Tail(<<g>> \o e2 \o e3 \o p) \o pad
  <2>1. b = Cat(Cat(Cat(u, e1), Tail(Cat(Cat(Cat(v, e2), e3), p))), pad)
    BY <1>14
  <2> QED
    BY <1>1, <2>1, Zenon DEF Cat
<1>23. /\ Cat(b, rest) = Cat(u, Cat(e1, c2))
       /\ Cat(b, rest) = Cat(a2, Cat(e2, c3))
       /\ Cat(b, rest) = Cat(a3, Cat(e3, d4))
       /\ Cat(b, rest) = Cat(a4, Cat(p, c4))
  BY <1>15, <1>16, <1>17, <1>18, <1>19, <1>20, <1>21
<1> HIDE DEF t2, t, a2, k, b, c4, d4, c3, c2, a3, a4
<1>24. /\ b \o rest = <<h>> \o (e1 \o c2)
       /\ b \o rest = a2 \o (e2 \o c3)
       /\ b \o rest = a3 \o (e3 \o d4)
       /\ b \o rest = a4 \o (p \o c4)
  BY <1>1, <1>23, Zenon DEF Cat
<1>25. /\ Len(b) = 1 + Len(e1) + Len(e2) + Len(e3) + Len(p) + Len(pad)
       /\ Len(a2) = 1 + Len(e1) /\ Len(a3) = 1 + Len(e1) + Len(e2)
       /\ Len(a4) = 1 + Len(e1) + Len(e2) + Len(e3)
       /\ Len(c2) >= Len(rest) /\ Len(c3) >= Len(rest) /\ Len(d4) >= Len(rest)
  <2>1. PICK m1 \in Nat, m2 \in Nat, m3 \in Nat, mp \in Nat, md \in Nat, mr \in Nat :
            /\ m1 = Len(e1) /\ m2 = Len(e2) /\ m3 = Len(e3)
            /\ mp = Len(p) /\ md = Len(pad) /\ mr = Len(rest)
    BY LenProperties
  <2>2. Len(a2) = 1 + m1 /\ Len(a3) = 1 + m1 + m2 /\ Len(a4) = 1 + m1 + m2 + m3
    BY <2>1, <1>2, <1>5, <1>12, <1>13
  <2>3. Len(b) = 1 + m1 + m2 + m3 + mp + md
    BY <2>1, <2>2, <1>3, <1>4, <1>6, <1>7
  <2>4. Len(c4) = md + mr /\ Len(d4) = mp + md + mr
    BY <2>1, <1>8, <1>9
  <2>5. Len(c3) = m3 + mp + md + mr /\ Len(c2) = m2 + m3 + mp + md + mr
    BY <2>1, <2>4, <1>10, <1>11
  <2>6. Len(d4) >= mr /\ Len(c3) >= mr /\ Len(c2) >= mr
    BY <2>4, <2>5
  <2> QED
    BY <2>1, <2>2, <2>3, <2>6
<1>26. /\ b \in Seq(Byte) /\ a2 \in Seq(Byte) /\ a3 \in Seq(Byte) /\ a4 \in Seq(Byte)
       /\ c2 \in Seq(Byte) /\ c3 \in Seq(Byte) /\ c4 \in Seq(Byte) /\ d4 \in Seq(Byte)
  BY <1>5, <1>7, <1>8, <1>9, <1>10, <1>11, <1>12, <1>13
<1>27. Lays(h, g, e1, e2, e3, p, pad, rest, b, a2, a3, a4, c2, c3, c4, d4)
  BY <1>22, <1>24, <1>25, Zenon DEF Lays
<1> QED
  BY <1>26, <1>27

\* What a packet with audio in it is read as.
Reads(p, type, target, session, seq, payload) ==
    /\ p.type = type /\ p.target = target /\ p.session = session /\ p.seq = seq
    /\ p.last = FALSE /\ p.payload = payload /\ p.timestamp = Number(0)

\* The payload, of length len from pos on.
Body(buf, pos, len) == SubSeq(buf, pos, pos + len - 1)

\* The numbers behind the header of a packet, and how long they are; the last of them
\* is not marked.
Numbers(buf, length, s, k, q, m, h, n) ==
    /\ length \in Nat /\ k \in 1 .. 9 /\ m \in 1 .. 9 /\ n \in 1 .. 9
    /\ Parse(At(buf, 2)) = [val |-> s, size |-> k]
    /\ Parse(At(buf, 2 + k)) = [val |-> q, size |-> m]
    /\ Parse(At(buf, 2 + k + m)) = [val |-> h, size |-> n]
    /\ ~IsLast(h)

\* ... and what parse_audio makes of them.
Audio(r, w, buf, length, s, k, q, m, h, n) ==
    IF 2 + k + m + n + LengthOf(h) # length + 1 THEN r = Refused
    ELSE Reads(r, "Opus", w, s, q, Body(buf, 2 + k + m + n, LengthOf(h)))

LEMMA AudioParsed ==
    ASSUME NEW w, NEW buf, NEW length, NEW s, NEW q, NEW h, NEW k, NEW m, NEW n,
           Numbers(buf, length, s, k, q, m, h, n)
    PROVE  Audio(ParseAudio(Blank("Opus", w), buf, length), w, buf, length, s, k, q, m, h, n)
<1>0. /\ length \in Nat /\ k \in 1 .. 9 /\ m \in 1 .. 9 /\ n \in 1 .. 9
      /\ Parse(At(buf, 2)) = [val |-> s, size |-> k]
      /\ Parse(At(buf, 2 + k)) = [val |-> q, size |-> m]
      /\ Parse(At(buf, 2 + k + m)) = [val |-> h, size |-> n]
      /\ ~IsLast(h)
  BY DEF Numbers
<1> DEFINE pos == 2 + k + m + n
           len == LengthOf(h)
           body == SubSeq(buf, pos, pos + len - 1)
           packet == Blank("Opus", w)
           S == Parse(At(buf, 2))
           Q == Parse(At(buf, 2 + S.size))
           H == Parse(At(buf, 2 + S.size + Q.size))
           at == 2 + S.size + Q.size + H.size
           named == [packet EXCEPT !.session = S.val, !.seq = Q.val]
<1>1. ParseAudio(packet, buf, length) =
        IF S.size = 0 \/ Q.size = 0 THEN Refused
        ELSE IF packet.type # "Opus" THEN named
        ELSE IF H.size = 0 \/ at + LengthOf(H.val) # length + 1 THEN Refused
        ELSE [named EXCEPT !.last = IsLast(H.val),
                           !.payload = SubSeq(buf, at, at + LengthOf(H.val) - 1)]
  BY Zenon DEF ParseAudio
<1>2. S.size = k /\ S.val = s
  BY <1>0
<1>3. Q.size = m /\ Q.val = q
  BY <1>0, <1>2
<1>4. H.size = n /\ H.val = h
  BY <1>0, <1>2, <1>3
<1>5. at = pos /\ LengthOf(H.val) = len
  BY <1>2, <1>3, <1>4
<1>6. named = [packet EXCEPT !.session = s, !.seq = q]
  BY <1>2, <1>3
<1>7. packet.type = "Opus"
  BY DEF Blank
<1> HIDE DEF packet, S, Q, H, at, named, pos, len, body
<1>9. IsLast(h) = FALSE
  BY <1>0, Zenon DEF IsLast
<1>10. ~(S.size = 0 \/ Q.size = 0) /\ ~(packet.type # "Opus") /\ ~(H.size = 0)
  BY <1>0, <1>2, <1>3, <1>4, <1>7
<1>11. ParseAudio(packet, buf, length) =
         IF at + LengthOf(H.val) # length + 1 THEN Refused
         ELSE [named EXCEPT !.last = IsLast(H.val),
                            !.payload = SubSeq(buf, at, at + LengthOf(H.val) - 1)]
  BY <1>1, <1>10
<1>12. ParseAudio(packet, buf, length) =
         IF pos + len # length + 1 THEN Refused
         ELSE [named EXCEPT !.last = FALSE, !.payload = body]
  BY <1>4, <1>5, <1>9, <1>11 DEF body
<1>13. Reads([named EXCEPT !.last = FALSE, !.payload = body], "Opus", w, s, q, body)
  BY <1>6 DEF packet, Blank, Reads
<1> QED
  BY <1>12, <1>13 DEF packet, pos, len, body, Body, Audio

\* The header byte of an Opus packet, before and behind the server.
LEMMA HeaderRead ==
    ASSUME NEW target \in Targets
    PROVE  LET g == Header("Opus", target)
               w == IF target = 0 THEN 0 ELSE 2
           IN  /\ g \in Byte
               /\ (IF g % 32 = 0 THEN g ELSE g - (g % 32) + 2) = 128 + w
               /\ 128 + w \in Byte /\ Types[(128 + w) \div 32 + 1] = "Opus" /\ (128 + w) % 32 = w
<1>1. (CHOOSE k \in 1 .. 8 : Types[k] = "Opus") = 5
  BY DEF Types
<1>2. target \in 0 .. 31
  BY PacketAssumption
<1>3. Header("Opus", target) = 128 + target
  <2>1. target % 32 = target /\ 32 * (5 - 1) = 128
    BY <1>2
  <2>2. Header("Opus", target) = 32 * (5 - 1) + (target % 32)
    BY <1>1, Zenon DEF Header
  <2> QED
    BY <2>1, <2>2
<1>4. (128 + target) % 32 = target /\ 128 + target \in Byte
  BY <1>2 DEF Byte
<1>5. 128 \div 32 + 1 = 5 /\ 130 \div 32 + 1 = 5 /\ 128 % 32 = 0 /\ 130 % 32 = 2
  OBVIOUS
<1>6. Types[5] = "Opus"
  BY DEF Types
<1>7. CASE target = 0
  BY <1>3, <1>4, <1>5, <1>6, <1>7
<1>8. CASE target # 0
  <2>1. PICK g : g = Header("Opus", target)
    OBVIOUS
  <2>2. g = 128 + target /\ g % 32 = target
    BY <2>1, <1>3, <1>4
  <2>3. g - target + 2 = 130 /\ 128 + 2 = 130 /\ 130 \in Byte
    BY <2>2, <1>2 DEF Byte
  <2>4. (IF g % 32 = 0 THEN g ELSE g - (g % 32) + 2) = 130
    BY <2>2, <2>3, <1>8
  <2>5. g \in Byte
    BY <2>2, <1>4
  <2> QED
    BY <2>1, <2>3, <2>4, <2>5, <1>5, <1>6, <1>8
<1> QED
  BY <1>7, <1>8

\* What the server puts behind an Opus packet.
Pad(s) == IF s \in Positional THEN [i \in 1 .. 12 |-> 0] ELSE <<>>

LEMMA PadTyped ==
    ASSUME NEW s
    PROVE  Pad(s) \in Seq(Byte) /\ Len(Pad(s)) = IF s \in Positional THEN 12 ELSE 0
<1>1. CASE s \in Positional
  <2>1. 0 \in Byte
    BY DEF Byte
  <2>2. [i \in 1 .. 12 |-> 0] \in Seq(Byte) /\ Len([i \in 1 .. 12 |-> 0]) = 12
    BY <2>1
  <2> QED
    BY <1>1, <2>2 DEF Pad
<1>2. CASE s \notin Positional
  BY <1>2 DEF Pad
<1> QED
  BY <1>1, <1>2

\* What a listener reads in an Opus packet that a speaker has sent.
OpusRead(p, target, s, q, payload) ==
    IF s \in Positional THEN p = Refused
    ELSE Reads(p, "Opus", IF target = 0 THEN 0 ELSE 2, Number(s), Number(q), payload)

\* Decode reads in a relayed Opus packet what was written, unless there is a position.
LEMMA OpusDecoded ==
    ASSUME NEW target \in Targets, NEW s \in Speakers, NEW q, UInt32(q),
           NEW payload \in Seq(Byte), Len(payload) \in 1 .. LastMask - 1,
           NEW rest \in Seq(Byte), Len(rest) >= 8
    PROVE  LET b == Relayed(EncodeOpus(target, Number(q), payload, FALSE), s)
           IN  b \in Seq(Byte) /\ OpusRead(Decode(b \o rest, Len(b)), target, s, q, payload)
<1> DEFINE g  == Header("Opus", target)
           w  == IF target = 0 THEN 0 ELSE 2
           h  == 128 + w
           len == Len(payload)
<1>1. /\ g \in Byte /\ h \in Byte
      /\ (IF g % 32 = 0 THEN g ELSE g - (g % 32) + 2) = h
      /\ Types[h \div 32 + 1] = "Opus" /\ h % 32 = w
  BY HeaderRead
<1>2. /\ Number(s) \in Int64 /\ ~Negative(Number(s)) /\ Number(q) \in Int64 /\ ~Negative(Number(q))
      /\ Number(len) \in Int64 /\ ~Negative(Number(len))
  <2>1. UInt32(s) /\ UInt32(len)
    BY SpeakerAssumption, LengthRead
  <2>2. s \in Nat /\ q \in Nat /\ len \in Nat
    BY <2>1, NumberPositive
  <2> QED
    BY <2>1, <2>2, NumberPositive, NumberTyped
<1>3. LengthOf(Number(len)) = len /\ ~IsLast(Number(len)) /\ OpusHeader(len, FALSE) = len
  BY LengthRead, LengthWritten
<1> HIDE DEF g, w, h, len
<1>4. PICK e1, e2, e3, pad : /\ e1 = Encode(Number(s)) /\ e2 = Encode(Number(q))
                             /\ e3 = Encode(Number(len)) /\ pad = Pad(s)
  OBVIOUS
<1>5. /\ e1 \in Seq(Byte) /\ e2 \in Seq(Byte) /\ e3 \in Seq(Byte) /\ pad \in Seq(Byte)
      /\ Len(e1) \in 1 .. 9 /\ Len(e2) \in 1 .. 9 /\ Len(e3) \in 1 .. 9
      /\ Len(pad) = IF s \in Positional THEN 12 ELSE 0
  BY <1>2, <1>4, EncodeLength, PadTyped
<1>6. PICK b \in Seq(Byte), a2 \in Seq(Byte), a3 \in Seq(Byte), a4 \in Seq(Byte),
           c2 \in Seq(Byte), c3 \in Seq(Byte), c4 \in Seq(Byte), d4 \in Seq(Byte) :
              Lays(h, g, e1, e2, e3, payload, pad, rest, b, a2, a3, a4, c2, c3, c4, d4)
  BY <1>1, <1>5, Laid
<1> USE DEF Lays
<1>7. Relayed(EncodeOpus(target, Number(q), payload, FALSE), s) = b
  <2>1. PICK x : x = EncodeOpus(target, Number(q), payload, FALSE)
    OBVIOUS
  <2>2. x = <<g>> \o e2 \o e3 \o payload
    BY <2>1, <1>3, <1>4, Zenon DEF EncodeOpus, g, len
  <2>3. x[1] = g
    BY <2>2, <1>1, <1>5, SMTT(30)
  <2>4. Relayed(x, s) = <<IF x[1] % 32 = 0 THEN x[1] ELSE x[1] - (x[1] % 32) + 2>> \o e1 \o Tail(x) \o pad
    BY <1>4, Zenon DEF Relayed, Pad
  <2>5. (IF x[1] % 32 = 0 THEN x[1] ELSE x[1] - (x[1] % 32) + 2) = h
    BY <2>3, <1>1
  <2> QED
    BY <2>1, <2>2, <2>4, <2>5, <1>6, Zenon
<1>8. PICK k \in 1 .. 9, m \in 1 .. 9, n \in 1 .. 9, d \in {0, 12} :
           /\ k = Len(e1) /\ m = Len(e2) /\ n = Len(e3) /\ d = Len(pad)
           /\ d = IF s \in Positional THEN 12 ELSE 0
           /\ Len(a2) = 1 + k /\ Len(a3) = 1 + k + m /\ Len(a4) = 1 + k + m + n
  <2>1. /\ Len(a2) = 1 + Len(e1) /\ Len(a3) = 1 + Len(e1) + Len(e2)
        /\ Len(a4) = 1 + Len(e1) + Len(e2) + Len(e3)
    BY <1>6, Zenon
  <2> QED
    BY <2>1, <1>5
<1>9. PICK buf : buf = b \o rest
  OBVIOUS
<1>10. PICK packet : packet = Blank("Opus", w)
  OBVIOUS
<1>11. len \in 1 .. LastMask - 1 /\ len = Len(payload)
  BY DEF len
<1>12. Parse(At(buf, 2)) = [val |-> Number(s), size |-> k]
  <2>1. PICK u : u = <<h>> /\ u \in Seq(Byte)
    <3>1. <<h>> \in Seq(Byte)
      BY <1>1
    <3> QED
      BY <3>1
  <2>2. 1 + Len(u) = 2
    BY <2>1
  <2>3. Parse(At(u \o (Encode(Number(s)) \o c2), 1 + Len(u))) = [val |-> Number(s), size |-> Len(Encode(Number(s)))]
    <3>1. Len(c2) >= 8
      BY <1>6
    <3>2. u \in Seq(Byte)
      BY <2>1
    <3> QED
      BY <1>2, <3>1, <3>2, ReadsAt
  <2> QED
    BY <2>1, <2>2, <2>3, <1>4, <1>6, <1>8, <1>9, Zenon
<1>13. Parse(At(buf, 2 + k)) = [val |-> Number(q), size |-> m]
  <2>1. 1 + Len(a2) = 2 + k
    BY <1>8
  <2>2. Parse(At(a2 \o (Encode(Number(q)) \o c3), 1 + Len(a2))) = [val |-> Number(q), size |-> Len(Encode(Number(q)))]
    <3>1. Len(c3) >= 8
      BY <1>6
    <3> QED
      BY <1>2, <3>1, ReadsAt
  <2> QED
    BY <2>1, <2>2, <1>4, <1>6, <1>8, <1>9, Zenon
<1>14. Parse(At(buf, 2 + k + m)) = [val |-> Number(len), size |-> n]
  <2>1. 1 + Len(a3) = 2 + k + m
    BY <1>8
  <2>2. Parse(At(a3 \o (Encode(Number(len)) \o d4), 1 + Len(a3))) = [val |-> Number(len), size |-> Len(Encode(Number(len)))]
    <3>1. Len(d4) >= 8
      BY <1>6
    <3> QED
      BY <1>2, <3>1, ReadsAt
  <2> QED
    BY <2>1, <2>2, <1>4, <1>6, <1>8, <1>9, Zenon
<1>15. PICK pos \in Nat : pos = 2 + k + m + n
  OBVIOUS
<1>16. SubSeq(buf, pos, pos + len - 1) = payload
  <2>1. 1 + Len(a4) = pos /\ Len(a4) + Len(payload) = pos + len - 1
    BY <1>8, <1>11, <1>15
  <2>2. SubSeq(a4 \o (payload \o c4), 1 + Len(a4), Len(a4) + Len(payload)) = payload
    BY Middle
  <2> QED
    BY <2>1, <2>2, <1>6, <1>9, Zenon
<1>17. Len(b) \in Nat /\ (pos + len # Len(b) + 1 <=> s \in Positional)
  <2>1. Len(b) = 1 + k + m + n + len + d
    BY <1>6, <1>8, <1>11
  <2>2. len \in Nat
    BY <1>11
  <2>3. pos + len # Len(b) + 1 <=> d # 0
    BY <2>1, <2>2, <1>15
  <2>4. d # 0 <=> s \in Positional
    BY <1>8
  <2> QED
    BY <2>1, <2>2, <2>3, <2>4
<1>18. packet.type = "Opus"
  BY <1>10 DEF Blank
<1>19. PICK v : v = Number(len)
  OBVIOUS
<1>20. OpusRead(ParseAudio(packet, buf, Len(b)), target, s, q, payload)
  <2>1. Parse(At(buf, 2 + k + m)) = [val |-> v, size |-> n] /\ len = LengthOf(v) /\ ~IsLast(v)
    BY <1>3, <1>14, <1>19
  <2>2. PICK L \in Nat : L = Len(b)
    BY <1>17
  <2>3. PICK r : r = ParseAudio(Blank("Opus", w), buf, L)
    OBVIOUS
  <2>4. IF pos + len # L + 1 THEN r = Refused ELSE Reads(r, "Opus", w, Number(s), Number(q), payload)
    <3>1. PICK x, y : x = Number(s) /\ y = Number(q)
      OBVIOUS
    <3>2. Numbers(buf, L, x, k, y, m, v, n)
      BY <2>1, <3>1, <1>12, <1>13 DEF Numbers
    <3>3. Audio(r, w, buf, L, x, k, y, m, v, n)
      BY <2>3, <3>2, AudioParsed, Zenon
    <3> QED
      BY <2>1, <3>1, <3>3, <1>15, <1>16 DEF Body, Audio
  <2> QED
    BY <2>2, <2>3, <2>4, <1>10, <1>17 DEF OpusRead, w
<1>21. Decode(buf, Len(b)) = ParseAudio(packet, buf, Len(b))
  <2>1. buf[1] = h
    <3>1. e1 \o c2 \in Seq(Byte)
      BY <1>5, ConcatProperties
    <3>2. PICK z \in Seq(Byte) : z = e1 \o c2
      BY <3>1
    <3>3. (<<h>> \o z)[1] = h
      BY <1>1
    <3> QED
      BY <3>2, <3>3, <1>6, <1>9, Zenon
  <2>2. packet = Blank(Types[buf[1] \div 32 + 1], buf[1] % 32)
    BY <2>1, <1>1, <1>10
  <2>3. packet.type \in {"CeltAlpha", "Speex", "CeltBeta", "Opus"}
    BY <1>18
  <2> QED
    BY <2>2, <2>3, Zenon DEF Decode
<1> QED
  BY <1>7, <1>9, <1>20, <1>21, Zenon

\* There is something to put behind a packet.
LEMMA EightZeros == \E rest : rest \in Seq(Byte) /\ Len(rest) >= 8
<1>1. 0 \in Byte
  BY DEF Byte
<1>2. <<0, 0, 0, 0, 0, 0, 0, 0>> \in Seq(Byte) /\ Len(<<0, 0, 0, 0, 0, 0, 0, 0>>) >= 8
  BY <1>1
<1> QED
  BY <1>2

\* The Opus packet is bytes.
LEMMA OpusTyped ==
    ASSUME NEW target \in Targets, NEW s \in Speakers, NEW q, UInt32(q),
           NEW payload \in Seq(Byte), Len(payload) \in 1 .. LastMask - 1,
           NEW b, b = Relayed(EncodeOpus(target, Number(q), payload, FALSE), s)
    PROVE  b \in Seq(Byte)
<1>1. PICK rest : rest \in Seq(Byte) /\ Len(rest) >= 8
  BY EightZeros
<1> QED
  BY <1>1, OpusDecoded

\* The header byte of a packet in another codec, and that of a ping.
LEMMA OtherHeaderRead ==
    ASSUME NEW type \in {"CeltAlpha", "Speex", "CeltBeta", "Ping"}
    PROVE  LET h == Header(type, 0)
           IN  h \in Byte /\ Types[h \div 32 + 1] = type /\ h % 32 = 0
<1>1. /\ (CHOOSE k \in 1 .. 8 : Types[k] = "CeltAlpha") = 1 /\ (CHOOSE k \in 1 .. 8 : Types[k] = "Ping") = 2
      /\ (CHOOSE k \in 1 .. 8 : Types[k] = "Speex") = 3 /\ (CHOOSE k \in 1 .. 8 : Types[k] = "CeltBeta") = 4
  BY DEF Types
<1>2. /\ Types[1] = "CeltAlpha" /\ Types[2] = "Ping" /\ Types[3] = "Speex" /\ Types[4] = "CeltBeta"
  BY DEF Types
<1>3. ASSUME NEW i \in 1 .. 4, (CHOOSE k \in 1 .. 8 : Types[k] = type) = i, Types[i] = type
      PROVE  LET h == Header(type, 0)
             IN  h \in Byte /\ Types[h \div 32 + 1] = type /\ h % 32 = 0
  <2>1. Header(type, 0) = 32 * (i - 1) + (0 % 32)
    BY <1>3, Zenon DEF Header
  <2>2. PICK h \in Int : h = 32 * (i - 1)
    OBVIOUS
  <2>3. h + (0 % 32) = h /\ h \in Byte /\ h \div 32 + 1 = i /\ h % 32 = 0
    BY <2>2 DEF Byte
  <2> QED
    BY <2>1, <2>2, <2>3, <1>3
<1> QED
  BY <1>1, <1>2, <1>3

\* Decode of a packet that is not Opus, its two numbers being where they are.
LEMMA OtherParsed ==
    ASSUME NEW type \in {"CeltAlpha", "Speex", "CeltBeta"}, NEW buf, NEW length, NEW s, NEW q,
           Types[buf[1] \div 32 + 1] = type, buf[1] % 32 = 0,
           NEW k \in 1 .. 9, NEW m \in 1 .. 9,
           Parse(At(buf, 2)) = [val |-> s, size |-> k],
           Parse(At(buf, 2 + k)) = [val |-> q, size |-> m]
    PROVE  Reads(Decode(buf, length), type, 0, s, q, <<>>)
<1> DEFINE packet == Blank(type, 0)
           S == Parse(At(buf, 2))
           Q == Parse(At(buf, 2 + S.size))
           H == Parse(At(buf, 2 + S.size + Q.size))
           at == 2 + S.size + Q.size + H.size
           named == [packet EXCEPT !.session = S.val, !.seq = Q.val]
<1>1. ParseAudio(packet, buf, length) =
        IF S.size = 0 \/ Q.size = 0 THEN Refused
        ELSE IF packet.type # "Opus" THEN named
        ELSE IF H.size = 0 \/ at + LengthOf(H.val) # length + 1 THEN Refused
        ELSE [named EXCEPT !.last = IsLast(H.val),
                           !.payload = SubSeq(buf, at, at + LengthOf(H.val) - 1)]
  BY Zenon DEF ParseAudio
<1>2. S.size = k /\ S.val = s
  OBVIOUS
<1>3. Q.size = m /\ Q.val = q
  BY <1>2
<1>4. named = [packet EXCEPT !.session = s, !.seq = q]
  BY <1>2, <1>3
<1>5. packet.type = type /\ type # "Opus" /\ type # "Ping"
  BY DEF Blank
<1>6. Decode(buf, length) = ParseAudio(packet, buf, length)
  BY <1>5 DEF Decode
<1> HIDE DEF packet, S, Q, H, at, named
<1>7. ParseAudio(packet, buf, length) = named
  <2>1. ~(S.size = 0 \/ Q.size = 0) /\ packet.type # "Opus"
    BY <1>2, <1>3, <1>5
  <2> QED
    BY <1>1, <2>1
<1>8. Reads(named, type, 0, s, q, <<>>)
  BY <1>4 DEF packet, Blank, Reads
<1> QED
  BY <1>6, <1>7, <1>8

\* Decode reads in a packet of another codec whose it is and its number.
LEMMA OtherDecoded ==
    ASSUME NEW type \in Codecs, NEW s \in Speakers, NEW q, UInt32(q),
           NEW rest \in Seq(Byte), Len(rest) >= 8
    PROVE  LET b == <<Header(type, 0)>> \o Encode(Number(s)) \o Encode(Number(q)) \o <<2, 0, 0>>
           IN  b \in Seq(Byte) /\ Reads(Decode(b \o rest, Len(b)), type, 0, Number(s), Number(q), <<>>)
<1> DEFINE h == Header(type, 0)
<1>1. /\ type \in {"CeltAlpha", "Speex", "CeltBeta"} /\ type # "Opus"
      /\ h \in Byte /\ Types[h \div 32 + 1] = type /\ h % 32 = 0
  <2>1. type \in {"CeltAlpha", "Speex", "CeltBeta"}
    BY PacketAssumption
  <2> QED
    BY <2>1, OtherHeaderRead
<1>2. /\ Number(s) \in Int64 /\ ~Negative(Number(s)) /\ Number(q) \in Int64 /\ ~Negative(Number(q))
  BY SpeakerAssumption, NumberPositive, NumberTyped
<1> HIDE DEF h
<1>3. PICK e1, e2, e3, pad : e1 = Encode(Number(s)) /\ e2 = Encode(Number(q)) /\ e3 = <<>> /\ pad = <<2, 0, 0>>
  OBVIOUS
<1>4. /\ e1 \in Seq(Byte) /\ e2 \in Seq(Byte) /\ Len(e1) \in 1 .. 9 /\ Len(e2) \in 1 .. 9
      /\ e3 \in Seq(Byte) /\ Len(e3) = 0 /\ pad \in Seq(Byte)
  <2>1. 2 \in Byte /\ 0 \in Byte
    BY DEF Byte
  <2>2. <<2, 0, 0>> \in Seq(Byte) /\ <<>> \in Seq(Byte) /\ Len(<<>>) = 0
    BY <2>1
  <2> QED
    BY <1>2, <1>3, <2>2, EncodeLength
<1>5. PICK b \in Seq(Byte), a2 \in Seq(Byte), a3 \in Seq(Byte), a4 \in Seq(Byte),
           c2 \in Seq(Byte), c3 \in Seq(Byte), c4 \in Seq(Byte), d4 \in Seq(Byte) :
              Lays(h, h, e1, e2, e3, e3, pad, rest, b, a2, a3, a4, c2, c3, c4, d4)
  BY <1>1, <1>4, Laid
<1>6. b = <<h>> \o e1 \o e2 \o pad
  <2>1. Tail(<<h>> \o e2) = e2
    BY <1>1, <1>4, TailOfHeaded
  <2>2. PICK v : v = <<h>> \o e2
    OBVIOUS
  <2>3. v \in Seq(Byte)
    <3>1. <<h>> \in Seq(Byte)
      BY <1>1
    <3> QED
      BY <3>1, <1>4, <2>2, ConcatProperties
  <2>4. v \o e3 = v
    BY <1>3, <2>3, ConcatEmptySeq
  <2>5. b = <<h>> \o e1 \o Tail(<<h>> \o e2 \o e3 \o e3) \o pad
    BY <1>5, Zenon DEF Lays
  <2> QED
    BY <2>1, <2>2, <2>4, <2>5, Zenon
<1>7. PICK buf : buf = b \o rest
  OBVIOUS
<1>8. PICK k \in 1 .. 9, m \in 1 .. 9 : k = Len(e1) /\ m = Len(e2) /\ Len(a2) = 1 + k
  <2>1. Len(a2) = 1 + Len(e1)
    BY <1>5, Zenon DEF Lays
  <2> QED
    BY <2>1, <1>4
<1>9. Parse(At(buf, 2)) = [val |-> Number(s), size |-> k]
  <2>1. PICK u : u = <<h>> /\ u \in Seq(Byte)
    <3>1. <<h>> \in Seq(Byte)
      BY <1>1
    <3> QED
      BY <3>1
  <2>2. 1 + Len(u) = 2
    BY <2>1
  <2>3. Len(c2) >= 8
    BY <1>5 DEF Lays
  <2>4. Parse(At(u \o (Encode(Number(s)) \o c2), 1 + Len(u))) = [val |-> Number(s), size |-> Len(Encode(Number(s)))]
    BY <1>2, <2>1, <2>3, ReadsAt
  <2>5. buf = u \o (e1 \o c2)
    BY <2>1, <1>5, <1>7, Zenon DEF Lays
  <2> QED
    BY <2>2, <2>4, <2>5, <1>3, <1>8, Zenon
<1>10. Parse(At(buf, 2 + k)) = [val |-> Number(q), size |-> m]
  <2>1. 1 + Len(a2) = 2 + k
    BY <1>8
  <2>2. Len(c3) >= 8
    BY <1>5 DEF Lays
  <2>3. Parse(At(a2 \o (Encode(Number(q)) \o c3), 1 + Len(a2))) = [val |-> Number(q), size |-> Len(Encode(Number(q)))]
    BY <1>2, <2>2, ReadsAt
  <2>4. buf = a2 \o (e2 \o c3)
    BY <1>5, <1>7, Zenon DEF Lays
  <2> QED
    BY <2>1, <2>3, <2>4, <1>3, <1>8, Zenon
<1>11. buf[1] = h
  <2>1. PICK v : v = e1 \o c2
    OBVIOUS
  <2>2. v \in Seq(Byte)
    BY <1>4, <2>1, ConcatProperties
  <2>3. (<<h>> \o v)[1] = h
    BY <1>1, <2>2
  <2>4. buf = <<h>> \o (e1 \o c2)
    BY <1>5, <1>7, Zenon DEF Lays
  <2> QED
    BY <2>1, <2>3, <2>4, Zenon
<1>12. PICK L : L = Len(b)
  OBVIOUS
<1>13. Reads(Decode(buf, L), type, 0, Number(s), Number(q), <<>>)
  BY <1>1, <1>9, <1>10, <1>11, OtherParsed
<1> QED
  BY <1>3, <1>5, <1>6, <1>7, <1>12, <1>13, Zenon DEF h

\* What a ping is read as.
PingRead(p, t) ==
    /\ p.type = "Ping" /\ p.timestamp = Number(t)
    /\ p.session = Number(0) /\ p.seq = Number(0)

\* Decode reads in a ping the time it was sent at.
LEMMA PingDecoded ==
    ASSUME NEW t \in Timestamps, NEW rest \in Seq(Byte), Len(rest) >= 8, NEW length
    PROVE  EncodePing(Number(t)) \in Seq(Byte) /\ PingRead(Decode(EncodePing(Number(t)) \o rest, length), t)
<1> DEFINE h == Header("Ping", 0)
           packet == Blank("Ping", 0)
<1>1. h \in Byte /\ Types[h \div 32 + 1] = "Ping" /\ h % 32 = 0
  BY OtherHeaderRead
<1>2. Number(t) \in Int64 /\ ~Negative(Number(t))
  BY ClockAssumption, NumberTyped
<1> HIDE DEF h
<1>3. PICK u, e : u = <<h>> /\ e = Encode(Number(t))
  OBVIOUS
<1>4. u \in Seq(Byte) /\ Len(u) = 1 /\ u[1] = h /\ e \in Seq(Byte) /\ Len(e) \in 1 .. 9
  <2>1. <<h>> \in Seq(Byte) /\ Len(<<h>>) = 1 /\ <<h>>[1] = h
    BY <1>1
  <2> QED
    BY <2>1, <1>2, <1>3, EncodeLength
<1>5. PICK buf : buf = Cat(Cat(u, e), rest)
  OBVIOUS
<1>6. buf = Cat(u, Cat(e, rest))
  BY <1>4, <1>5, Regroup
<1>7. Cat(u, e) \in Seq(Byte)
  BY <1>4, Joined
<1>8. EncodePing(Number(t)) \in Seq(Byte) /\ buf = EncodePing(Number(t)) \o rest
  <2>1. EncodePing(Number(t)) = Cat(u, e)
    BY <1>3, Zenon DEF EncodePing, Cat, h
  <2> QED
    BY <2>1, <1>5, <1>7, Zenon DEF Cat
<1>9. buf[1] = h
  <2>1. PICK v : v = Cat(e, rest)
    OBVIOUS
  <2>2. v \in Seq(Byte)
    BY <2>1, <1>4, Joined
  <2>3. (u \o v)[1] = u[1]
    BY <2>2, <1>4, ConcatProperties
  <2> QED
    BY <2>1, <2>3, <1>4, <1>6, Zenon DEF Cat
<1>10. Parse(At(buf, 2)) = [val |-> Number(t), size |-> Len(e)]
  <2>1. Parse(At(u \o (Encode(Number(t)) \o rest), 1 + Len(u))) = [val |-> Number(t), size |-> Len(Encode(Number(t)))]
    BY <1>2, <1>4, ReadsAt
  <2>2. 1 + Len(u) = 2
    BY <1>4
  <2> QED
    BY <2>1, <2>2, <1>3, <1>6, Zenon DEF Cat
<1>11. packet.type = "Ping"
  BY DEF Blank
<1>12. Decode(buf, length) = ParsePing(packet, buf)
  <2>1. packet = Blank(Types[buf[1] \div 32 + 1], buf[1] % 32)
    BY <1>1, <1>9
  <2>2. packet.type \notin {"CeltAlpha", "Speex", "CeltBeta", "Opus"}
    BY <1>11
  <2> HIDE DEF packet
  <2> QED
    BY <2>1, <2>2, <1>11, Zenon DEF Decode
<1>13. ParsePing(packet, buf) = [packet EXCEPT !.timestamp = Number(t)]
  <2>1. PICK k \in 1 .. 9 : k = Len(e)
    BY <1>4
  <2>2. PICK r : r = Parse(At(buf, 2))
    OBVIOUS
  <2>3. r.size # 0 /\ r.val = Number(t)
    BY <2>1, <2>2, <1>10
  <2>4. ParsePing(packet, buf) = IF r.size = 0 THEN Refused ELSE [packet EXCEPT !.timestamp = r.val]
    BY <2>2, Zenon DEF ParsePing
  <2> QED
    BY <2>3, <2>4, Zenon
<1>14. PingRead([packet EXCEPT !.timestamp = Number(t)], t)
  BY DEF Blank, PingRead
<1> QED
  BY <1>8, <1>12, <1>13, <1>14, Zenon

-----------------------------------------------------------------------------
(* The inductive invariant. *)

\* The payload a frame became.
PayloadIn(m) == [i \in 1 .. PayloadOf[m.samples] |-> m.fields.number]

\* The three kinds of packets as their senders send them.
Spoken(m) ==
    /\ m.speaker \in Speakers /\ m.samples \in DOMAIN PayloadOf /\ m.fields.target \in Targets
    /\ UInt32(m.fields.seq) /\ m.fields.number \in Byte /\ m.fields.last = FALSE
    /\ m.bytes = Relayed(EncodeOpus(m.fields.target, Number(m.fields.seq), PayloadIn(m), FALSE), m.speaker)

Foreign(m) ==
    /\ m.speaker \in Speakers /\ UInt32(m.fields.seq)
    /\ \E type \in Codecs :
          m.bytes = <<Header(type, 0)>> \o Encode(Number(m.speaker)) \o Encode(Number(m.fields.seq)) \o <<2, 0, 0>>

Pinged(m) == m.fields.seq \in Timestamps /\ m.bytes = EncodePing(Number(m.fields.seq))

Meant(m) ==
    /\ m.kind = "opus" => Spoken(m)
    /\ m.kind = "other" => Foreign(m)
    /\ m.kind = "ping" => Pinged(m)

\* What the listener makes of a packet.
Understood(m, p) ==
    /\ m.kind = "opus" => OpusRead(p, m.fields.target, m.speaker, m.fields.seq, PayloadIn(m))
    /\ m.kind = "other" =>
          \E type \in Codecs : Reads(p, type, 0, Number(m.speaker), Number(m.fields.seq), <<>>)
    /\ m.kind = "ping" => PingRead(p, m.fields.seq)

\* What HeardAsSaid says of one packet.
AsSaid(m, h) ==
    /\ m.kind = "opus" =>
          /\ h.callback = "audio"
          /\ h.target = (IF m.fields.target = 0 THEN 0 ELSE 2)
          /\ h.session = ToInt(Number(m.speaker)) /\ h.seq = ToInt(Number(m.fields.seq))
          /\ h.last = m.fields.last /\ h.payload = PayloadIn(m)
    /\ m.kind = "other" =>
          /\ h.callback = "unsupportedAudio"
          /\ h.session = ToInt(Number(m.speaker)) /\ h.seq = ToInt(Number(m.fields.seq))
    /\ m.kind # "ping"

\* A frame of the encoder's own spurt, as long as that goes on, is counted by it.
Counted(m, e) ==
    /\ m.spurt <= e.spurt
    /\ m.spurt = e.spurt /\ ~e.silent => m.fields.seq + (100 * m.samples) \div 48000 <= e.sequence_number

Sent == \A i \in DOMAIN said : Meant(said[i])

Read == decoded # None => decoded.index \in DOMAIN said /\ Understood(said[decoded.index], decoded.packet)

Heard == heard # None => heard.index \in DOMAIN said /\ AsSaid(said[heard.index], heard)

Ended == over => decoded.index \in DOMAIN said /\ Understood(said[decoded.index], Refused)

AllCounted == \A i \in DOMAIN said : said[i].kind = "opus" => Counted(said[i], encoder[said[i].speaker])

IInv == TypeOK /\ Sent /\ Read /\ Heard /\ Ended /\ AllCounted /\ SpurtOrdered

-----------------------------------------------------------------------------
(* What a packet is understood as. *)

\* The payload of a frame is bytes, and as many as fit.
LEMMA PayloadTyped ==
    ASSUME NEW m, m.samples \in DOMAIN PayloadOf, m.fields.number \in Byte
    PROVE  PayloadIn(m) \in Seq(Byte) /\ Len(PayloadIn(m)) \in 1 .. LastMask - 1
<1>1. PICK n \in 1 .. LastMask - 1 : n = PayloadOf[m.samples]
  BY FrameAssumption
<1>2. n \in Nat
  OBVIOUS
<1>3. PICK b \in Byte : b = m.fields.number
  OBVIOUS
<1>4. PayloadIn(m) = [i \in 1 .. n |-> b]
  BY <1>1, <1>3 DEF PayloadIn
<1>5. [i \in 1 .. n |-> b] \in Seq(Byte) /\ Len([i \in 1 .. n |-> b]) = n
  BY <1>2
<1> QED
  BY <1>1, <1>4, <1>5

\* The bytes of a packet are bytes, and Decode understands them as they were meant.
LEMMA Decoded ==
    ASSUME NEW m, m.kind \in {"opus", "ping", "other"}, Meant(m), NEW rest \in Stale
    PROVE  m.bytes \in Seq(Byte) /\ Understood(m, Decode(m.bytes \o rest, Len(m.bytes)))
<1>1. rest \in Seq(Byte) /\ Len(rest) >= 8
  BY BufferAssumption
<1>2. CASE m.kind = "opus"
  <2>1. Spoken(m)
    BY <1>2 DEF Meant
  <2>2. /\ m.speaker \in Speakers /\ m.samples \in DOMAIN PayloadOf /\ m.fields.target \in Targets
        /\ UInt32(m.fields.seq) /\ m.fields.number \in Byte
    BY <2>1, Zenon DEF Spoken
  <2>0. PICK q : q = m.fields.seq
    OBVIOUS
  <2>3. PICK target \in Targets, s \in Speakers :
            target = m.fields.target /\ s = m.speaker /\ q = m.fields.seq
    BY <2>0, <2>2
  <2>4. UInt32(q)
    BY <2>2, <2>3
  <2>5. PICK payload : payload = PayloadIn(m)
    OBVIOUS
  <2>6. payload \in Seq(Byte) /\ Len(payload) \in 1 .. LastMask - 1
    BY <2>2, <2>5, PayloadTyped
  <2>7. PICK b : b = Relayed(EncodeOpus(target, Number(q), payload, FALSE), s)
    OBVIOUS
  <2>8. b \in Seq(Byte) /\ OpusRead(Decode(b \o rest, Len(b)), target, s, q, payload)
    BY <1>1, <2>4, <2>6, <2>7, OpusDecoded
  <2>9. m.bytes = b
    BY <2>1, <2>3, <2>5, <2>7 DEF Spoken
  <2> QED
    BY <1>2, <2>3, <2>5, <2>8, <2>9, Zenon DEF Understood
<1>3. CASE m.kind = "other"
  <2>1. PICK type \in Codecs :
            m.bytes = <<Header(type, 0)>> \o Encode(Number(m.speaker)) \o Encode(Number(m.fields.seq)) \o <<2, 0, 0>>
    BY <1>3 DEF Meant, Foreign
  <2>0. PICK q : q = m.fields.seq
    OBVIOUS
  <2>2. PICK s \in Speakers : s = m.speaker /\ q = m.fields.seq /\ UInt32(q)
    BY <1>3, <2>0 DEF Meant, Foreign
  <2>3. PICK b : b = <<Header(type, 0)>> \o Encode(Number(s)) \o Encode(Number(q)) \o <<2, 0, 0>>
    OBVIOUS
  <2>4. b \in Seq(Byte) /\ Reads(Decode(b \o rest, Len(b)), type, 0, Number(s), Number(q), <<>>)
    BY <1>1, <2>2, <2>3, OtherDecoded, Zenon
  <2>5. m.bytes = b
    BY <2>1, <2>2, <2>3, Zenon
  <2> QED
    BY <1>3, <2>2, <2>4, <2>5, Zenon DEF Understood
<1>4. CASE m.kind = "ping"
  <2>1. PICK t \in Timestamps : t = m.fields.seq /\ m.bytes = EncodePing(Number(t))
    BY <1>4 DEF Meant, Pinged
  <2>2. PICK L : L = Len(m.bytes)
    OBVIOUS
  <2>3. EncodePing(Number(t)) \in Seq(Byte) /\ PingRead(Decode(EncodePing(Number(t)) \o rest, L), t)
    BY <1>1, PingDecoded
  <2> QED
    BY <1>4, <2>1, <2>2, <2>3, Zenon DEF Understood
<1> QED
  BY <1>2, <1>3, <1>4

\* The number zero is an int64_t.
LEMMA ZeroTyped == Number(0) \in Int64
  BY NumberTyped

\* What is understood has fields of the right width.
LEMMA UnderstoodTyped ==
    ASSUME NEW m, m.kind \in {"opus", "ping", "other"}, Meant(m), NEW p, Understood(m, p), p # Refused
    PROVE  p.session \in Int64 /\ p.seq \in Int64 /\ p.timestamp \in Int64
<1>1. CASE m.kind = "opus"
  <2>1. Spoken(m) /\ OpusRead(p, m.fields.target, m.speaker, m.fields.seq, PayloadIn(m))
    BY <1>1 DEF Meant, Understood
  <2>2. UInt32(m.speaker) /\ UInt32(m.fields.seq)
    BY <2>1, SpeakerAssumption DEF Spoken
  <2>3. Number(m.speaker) \in Int64 /\ Number(m.fields.seq) \in Int64
    BY <2>2, NumberPositive, NumberTyped
  <2> QED
    BY <2>1, <2>3, ZeroTyped DEF OpusRead, Reads
<1>2. CASE m.kind = "other"
  <2>1. Foreign(m)
    BY <1>2 DEF Meant
  <2>2. UInt32(m.speaker) /\ UInt32(m.fields.seq)
    BY <2>1, SpeakerAssumption DEF Foreign
  <2>3. Number(m.speaker) \in Int64 /\ Number(m.fields.seq) \in Int64
    BY <2>2, NumberPositive, NumberTyped
  <2>4. PICK type \in Codecs : Reads(p, type, 0, Number(m.speaker), Number(m.fields.seq), <<>>)
    BY <1>2 DEF Understood
  <2> QED
    BY <2>3, <2>4, ZeroTyped DEF Reads
<1>3. CASE m.kind = "ping"
  <2>1. m.fields.seq \in Timestamps /\ PingRead(p, m.fields.seq)
    BY <1>3 DEF Meant, Pinged, Understood
  <2>2. Number(m.fields.seq) \in Int64
    BY <2>1, ClockAssumption, NumberTyped
  <2> QED
    BY <2>1, <2>2, ZeroTyped DEF PingRead
<1> QED
  BY <1>1, <1>2, <1>3

\* Only a packet with a position is refused.
LEMMA RefusedPositional ==
    ASSUME NEW m, m.kind \in {"opus", "ping", "other"}, Understood(m, Refused)
    PROVE  m.kind = "opus" /\ m.speaker \in Positional
<1>1. Refused.type = "refused"
  BY DEF Refused
<1>2. m.kind # "ping"
  BY <1>1 DEF Understood, PingRead
<1>3. m.kind # "other"
  <2>1. \A type \in Codecs : type # "refused"
    BY PacketAssumption
  <2> QED
    BY <1>1, <2>1 DEF Understood, Reads
<1>4. m.kind = "opus"
  BY <1>2, <1>3
<1>5. OpusRead(Refused, m.fields.target, m.speaker, m.fields.seq, PayloadIn(m))
  BY <1>4 DEF Understood
<1>6. CASE m.speaker \notin Positional
  BY <1>1, <1>5, <1>6 DEF OpusRead, Reads
<1> QED
  BY <1>4, <1>6

-----------------------------------------------------------------------------
(* The steps. *)

\* What is said grows at its end.
LEMMA Grows ==
    ASSUME NEW s \in Seq(Said), NEW m \in Said
    PROVE  /\ Append(s, m) \in Seq(Said) /\ DOMAIN s = 1 .. Len(s) /\ Len(s) \in Nat
           /\ DOMAIN Append(s, m) = 1 .. Len(s) + 1
           /\ \A i \in 1 .. Len(s) : Append(s, m)[i] = s[i]
           /\ Append(s, m)[Len(s) + 1] = m
  BY AppendProperties, LenProperties

\* Another packet on the way leaves what has been heard of the others.
LEMMA PutStep ==
    ASSUME IInv, NEW m \in Said, Meant(m), PutOnWay(m), UNCHANGED <<muted, decoded, heard, over>>,
           (encoder \in [Speakers -> Encoder])'
    PROVE  TypeOK' /\ Sent' /\ Read' /\ Heard' /\ Ended'
<1>1. said \in Seq(Said) /\ onWay \subseteq DOMAIN said
  BY DEF IInv, TypeOK
<1>2. said' = Append(said, m) /\ onWay' = onWay \cup {Len(said) + 1}
  BY DEF PutOnWay
<1>3. PICK s, n : s = said /\ n = said'
  OBVIOUS
<1>4. /\ n \in Seq(Said) /\ DOMAIN s = 1 .. Len(s) /\ DOMAIN n = 1 .. Len(s) + 1 /\ Len(s) \in Nat
      /\ \A i \in DOMAIN s : n[i] = s[i]
      /\ n[Len(s) + 1] = m
  BY <1>1, <1>2, <1>3, Grows
<1>5. \A i \in DOMAIN said : i \in DOMAIN said' /\ said'[i] = said[i]
  BY <1>3, <1>4
<1>6. TypeOK'
  <2>1. onWay' \subseteq DOMAIN said'
    BY <1>1, <1>2, <1>3, <1>4
  <2> QED
    BY <2>1, <1>3, <1>4 DEF IInv, TypeOK
<1>7. Sent'
  <2> SUFFICES ASSUME NEW i \in DOMAIN said'
               PROVE  Meant(said'[i])
    BY DEF Sent
  <2>1. CASE i \in DOMAIN said
    BY <2>1, <1>5 DEF IInv, Sent
  <2>2. CASE i \notin DOMAIN said
    <3>1. i = Len(s) + 1
      BY <2>2, <1>3, <1>4
    <3> QED
      BY <3>1, <1>3, <1>4
  <2> QED
    BY <2>1, <2>2
<1>8. Read'
  BY <1>5 DEF IInv, Read
<1>9. Heard'
  BY <1>5 DEF IInv, Heard
<1>10. Ended'
  BY <1>5 DEF IInv, Ended
<1> QED
  BY <1>6, <1>7, <1>8, <1>9, <1>10

\* Frames take up numbers.
LEMMA CountTyped ==
    ASSUME NEW samples \in Nat
    PROVE  (100 * samples) \div 48000 \in Nat /\ (samples >= 480 => (100 * samples) \div 48000 >= 1)
  OBVIOUS

\* A number no greater than a uint32_t is one.
LEMMA SmallerFits ==
    ASSUME NEW n \in Nat, NEW k \in Nat, UInt32(n + k)
    PROVE  UInt32(n)
<1>1. (n + k) \div 65536 < 65536
  BY DEF UInt32
<1>2. n \div 65536 <= (n + k) \div 65536
  OBVIOUS
<1>3. n \div 65536 < 65536
  BY <1>1, <1>2
<1> QED
  BY <1>3 DEF UInt32

\* The encoder's next spurt, if there is one, has no frames yet.
LEMMA ReadyCounts ==
    ASSUME NEW e \in Encoder, NEW m, m.spurt \in Nat, m.samples \in Nat, m.fields.seq \in Nat, Counted(m, e)
    PROVE  Counted(m, Ready(e)) /\ Ready(e) \in Encoder /\ ~Ready(e).silent
  BY DEF Counted, Ready, Encoder

\* Frames only move it on.
LEMMA MovedCounts ==
    ASSUME NEW e \in Encoder, NEW f \in Encoder, NEW m, m.spurt \in Nat, m.samples \in Nat, m.fields.seq \in Nat,
           Counted(m, e), f.spurt = e.spurt, ~f.silent => ~e.silent /\ f.sequence_number >= e.sequence_number
    PROVE  Counted(m, f)
<1>1. (100 * m.samples) \div 48000 \in Nat
  BY CountTyped
<1> QED
  BY <1>1 DEF Counted, Encoder

\* What is counted is typed.
LEMMA SaidTyped ==
    ASSUME TypeOK, NEW i \in DOMAIN said
    PROVE  /\ said[i] \in Said /\ said[i].kind \in {"opus", "ping", "other"}
           /\ said[i].spurt \in Nat /\ said[i].samples \in Nat /\ said[i].fields.seq \in Nat
<1>1. said \in Seq(Said) /\ i \in 1 .. Len(said)
  BY LenProperties DEF TypeOK
<1>2. said[i] \in Said
  BY <1>1, ElementOfSeq
<1> QED
  BY <1>2 DEF Said

\* A step of one encoder alone, which keeps what it has counted counted.
LEMMA EncoderStep ==
    ASSUME IInv, NEW s \in Speakers, NEW f \in Encoder, encoder' = [encoder EXCEPT ![s] = f],
           \A i \in DOMAIN said : said[i].kind = "opus" /\ said[i].speaker = s => Counted(said[i], f),
           UNCHANGED <<muted, onWay, said, decoded, heard, over>>
    PROVE  IInv'
<1>1. encoder \in [Speakers -> Encoder]
  BY DEF IInv, TypeOK
<1>2. encoder' \in [Speakers -> Encoder] /\ \A t \in Speakers : encoder'[t] = IF t = s THEN f ELSE encoder[t]
  BY <1>1
<1>3. TypeOK'
  BY <1>2 DEF IInv, TypeOK
<1>4. AllCounted'
  <2> SUFFICES ASSUME NEW i \in DOMAIN said, said[i].kind = "opus"
               PROVE  Counted(said[i], encoder'[said[i].speaker])
    BY DEF AllCounted
  <2>1. Counted(said[i], encoder[said[i].speaker])
    BY DEF IInv, AllCounted
  <2>2. said[i].speaker \in Speakers
    BY DEF IInv, Sent, Meant, Spoken
  <2> QED
    BY <2>1, <2>2, <1>2
<1>5. Sent' /\ Read' /\ Heard' /\ Ended' /\ SpurtOrdered'
  BY DEF IInv, Sent, Read, Heard, Ended, SpurtOrdered
<1> QED
  BY <1>3, <1>4, <1>5 DEF IInv

\* A packet on the way, and the encoder it comes from moved past its frame.
LEMMA SendStep ==
    ASSUME IInv, NEW s \in Speakers, AudioSendTarget(s)
    PROVE  IInv'
<1>1. PICK samples \in DOMAIN PayloadOf, target \in Targets :
          LET e       == Ready(encoder[s])
              number  == (Len(said) + 1) % 256
              payload == [i \in 1 .. PayloadOf[samples] |-> number]
              bytes   == EncodeOpus(target, Number(e.sequence_number), payload, FALSE)
          IN  /\ UInt32(Advanced(e, samples).sequence_number)
              /\ encoder' = [encoder EXCEPT ![s] = Advanced(e, samples)]
              /\ PutOnWay([kind |-> "opus", speaker |-> s, spurt |-> e.spurt, samples |-> samples,
                           fields |-> [target |-> target, seq |-> e.sequence_number, last |-> FALSE, number |-> number],
                           bytes |-> Relayed(bytes, s)])
              /\ UNCHANGED <<muted, decoded, heard, over, pauses, bursts>>
  BY Zenon DEF AudioSendTarget
<1>2. encoder \in [Speakers -> Encoder] /\ said \in Seq(Said)
  BY DEF IInv, TypeOK
<1>3. PICK b \in Encoder : b = encoder[s]
  BY <1>2
<1>4. PICK e \in Encoder : e = Ready(b) /\ ~e.silent
  <2>1. Ready(b) \in Encoder /\ ~Ready(b).silent
    BY DEF Ready, Encoder
  <2> QED
    BY <2>1
<1>5. PICK number \in Byte : number = (Len(said) + 1) % 256
  <2>1. PICK n \in Nat : n = Len(said) + 1
    BY <1>2, LenProperties
  <2>2. n % 256 \in Byte
    BY DEF Byte
  <2> QED
    BY <2>1, <2>2
<1>6. PICK payload : payload = [i \in 1 .. PayloadOf[samples] |-> number]
  OBVIOUS
<1>7. PICK bytes : bytes = Relayed(EncodeOpus(target, Number(e.sequence_number), payload, FALSE), s)
  OBVIOUS
<1>8. PICK m : m = [kind |-> "opus", speaker |-> s, spurt |-> e.spurt, samples |-> samples,
                    fields |-> [target |-> target, seq |-> e.sequence_number, last |-> FALSE, number |-> number],
                    bytes |-> bytes]
  OBVIOUS
<1>9. PICK f : f = Advanced(e, samples)
  OBVIOUS
<1>10. /\ UInt32(f.sequence_number) /\ encoder' = [encoder EXCEPT ![s] = f] /\ PutOnWay(m)
       /\ UNCHANGED <<muted, decoded, heard, over>>
  BY <1>1, <1>3, <1>4, <1>5, <1>6, <1>7, <1>8, <1>9, SMTT(30)
<1>11. samples \in Nat /\ target \in Nat
  BY FrameAssumption, PacketAssumption
<1>12. PICK c \in Nat : c = (100 * samples) \div 48000 /\ (samples >= 480 => c >= 1)
  BY <1>11, CountTyped
<1>13. /\ f \in Encoder /\ f.sequence_number = e.sequence_number + c /\ f.spurt = e.spurt /\ f.silent = e.silent
  BY <1>9, <1>12 DEF Advanced, Encoder
<1>14. e.sequence_number \in Nat /\ e.spurt \in Nat /\ UInt32(e.sequence_number)
  BY <1>10, <1>13, SmallerFits DEF Encoder
<1>15. /\ m.kind = "opus" /\ m.speaker = s /\ m.spurt = e.spurt /\ m.samples = samples /\ m.bytes = bytes
       /\ m.fields.target = target /\ m.fields.seq = e.sequence_number /\ m.fields.last = FALSE
       /\ m.fields.number = number
  BY <1>8
<1>16. Meant(m)
  <2>1. PayloadIn(m) = payload
    BY <1>6, <1>15, Zenon DEF PayloadIn
  <2>2. Spoken(m)
    BY <2>1, <1>7, <1>14, <1>15 DEF Spoken
  <2> QED
    BY <2>2, <1>15 DEF Meant
<1>17. m \in Said
  <2>1. PayloadIn(m) = payload
    BY <1>6, <1>15, Zenon DEF PayloadIn
  <2>2. payload \in Seq(Byte) /\ Len(payload) \in 1 .. LastMask - 1
    BY <2>1, <1>15, PayloadTyped
  <2>3. bytes \in Seq(Byte)
    <3>1. PICK q : q = e.sequence_number /\ UInt32(q)
      BY <1>14
    <3>2. PICK z : z = Relayed(EncodeOpus(target, Number(q), payload, FALSE), s)
      OBVIOUS
    <3>3. z \in Seq(Byte)
      BY <2>2, <3>1, <3>2, OpusTyped
    <3> QED
      BY <1>7, <3>1, <3>2, <3>3, Zenon
  <2>4. m.fields = [target |-> target, seq |-> e.sequence_number, last |-> FALSE, number |-> number] /\ number \in Nat
    BY <1>8 DEF Byte
  <2> QED
    BY <2>3, <1>8, <1>11, <1>14, <2>4 DEF Said
<1>18. encoder' \in [Speakers -> Encoder] /\ \A t \in Speakers : encoder'[t] = IF t = s THEN f ELSE encoder[t]
  BY <1>2, <1>10, <1>13
<1>19. TypeOK' /\ Sent' /\ Read' /\ Heard' /\ Ended'
  BY <1>10, <1>16, <1>17, <1>18, PutStep
<1>20. PICK old, new : old = said /\ new = said'
  OBVIOUS
<1>21. /\ DOMAIN old = 1 .. Len(old) /\ DOMAIN new = 1 .. Len(old) + 1 /\ Len(old) \in Nat
       /\ \A i \in DOMAIN old : new[i] = old[i]
       /\ new[Len(old) + 1] = m
  BY <1>2, <1>10, <1>17, <1>20, Grows DEF PutOnWay
<1>22. \A i \in DOMAIN old : old[i].kind = "opus" /\ old[i].speaker = s => Counted(old[i], e)
  <2> SUFFICES ASSUME NEW i \in DOMAIN old, old[i].kind = "opus", old[i].speaker = s
               PROVE  Counted(old[i], e)
    OBVIOUS
  <2>1. Counted(old[i], b)
    BY <1>3, <1>20 DEF IInv, AllCounted
  <2>2. old[i].spurt \in Nat /\ old[i].samples \in Nat /\ old[i].fields.seq \in Nat
    BY <1>20, SaidTyped DEF IInv
  <2> QED
    BY <1>4, <2>1, <2>2, ReadyCounts
<1>23. AllCounted'
  <2> SUFFICES ASSUME NEW i \in DOMAIN new, new[i].kind = "opus"
               PROVE  Counted(new[i], encoder'[new[i].speaker])
    BY <1>20 DEF AllCounted
  <2>1. CASE i = Len(old) + 1
    <3>1. new[i] = m /\ encoder'[m.speaker] = f
      BY <2>1, <1>15, <1>18, <1>21
    <3> QED
      BY <3>1, <1>11, <1>12, <1>13, <1>14, <1>15 DEF Counted
  <2>2. CASE i # Len(old) + 1
    <3>1. i \in DOMAIN old /\ new[i] = old[i]
      BY <2>2, <1>21
    <3>2. old[i].speaker \in Speakers
      BY <3>1, <1>20 DEF IInv, Sent, Meant, Spoken
    <3>3. CASE old[i].speaker = s
      <4>1. Counted(old[i], e)
        BY <3>1, <3>3, <1>22
      <4>2. old[i].spurt \in Nat /\ old[i].samples \in Nat /\ old[i].fields.seq \in Nat
        BY <3>1, <1>20, SaidTyped DEF IInv
      <4>3. f.sequence_number >= e.sequence_number
        BY <1>12, <1>13, <1>14
      <4>4. Counted(old[i], f)
        BY <4>1, <4>2, <4>3, <1>4, <1>13, MovedCounts
      <4> QED
        BY <3>1, <3>3, <4>4, <1>18
    <3>4. CASE old[i].speaker # s
      <4>1. Counted(old[i], encoder[old[i].speaker])
        BY <3>1, <1>20 DEF IInv, AllCounted
      <4> QED
        BY <3>1, <3>2, <3>4, <4>1, <1>18
    <3> QED
      BY <3>3, <3>4
  <2> QED
    BY <2>1, <2>2
<1>24. SpurtOrdered'
  <2> SUFFICES ASSUME NEW i \in DOMAIN new, NEW j \in DOMAIN new, i < j, new[i].kind = "opus", new[j].kind = "opus",
                      new[i].speaker = new[j].speaker, new[i].spurt = new[j].spurt
               PROVE  /\ new[i].fields.seq <= new[j].fields.seq
                      /\ new[i].samples >= 480 => new[i].fields.seq < new[j].fields.seq
    BY <1>20 DEF SpurtOrdered
  <2>1. i \in DOMAIN old /\ new[i] = old[i]
    BY <1>21
  <2>2. CASE j \in DOMAIN old
    BY <2>1, <2>2, <1>20, <1>21 DEF IInv, SpurtOrdered
  <2>3. CASE j \notin DOMAIN old
    <3>1. new[j] = m
      BY <2>3, <1>21
    <3>2. Counted(old[i], e)
      BY <2>1, <3>1, <1>15, <1>22
    <3>3. old[i].samples \in Nat /\ old[i].fields.seq \in Nat
      BY <2>1, <1>20, SaidTyped DEF IInv
    <3>4. old[i].fields.seq + (100 * old[i].samples) \div 48000 <= e.sequence_number
      BY <2>1, <3>1, <3>2, <1>4, <1>15 DEF Counted
    <3>5. PICK d \in Nat : d = (100 * old[i].samples) \div 48000 /\ (old[i].samples >= 480 => d >= 1)
      BY <3>3, CountTyped
    <3> QED
      BY <2>1, <3>1, <3>3, <3>4, <3>5, <1>14, <1>15
  <2> QED
    BY <2>2, <2>3
<1> QED
  BY <1>19, <1>23, <1>24 DEF IInv

\* A frame that fails moves nothing that has been counted.
LEMMA FailStep ==
    ASSUME IInv, NEW s \in Speakers, EncodeFails(s)
    PROVE  IInv'
<1>1. PICK b \in Encoder : b = encoder[s]
  BY DEF IInv, TypeOK
<1>2. PICK f : f = AfterFailure(b)
  OBVIOUS
<1>3. f \in Encoder /\ f.spurt = b.spurt /\ (~f.silent => ~b.silent /\ f.sequence_number >= b.sequence_number)
  BY <1>2 DEF AfterFailure, Encoder
<1>4. encoder' = [encoder EXCEPT ![s] = f] /\ UNCHANGED <<muted, onWay, said, decoded, heard, over>>
  BY <1>1, <1>2 DEF EncodeFails
<1>5. \A i \in DOMAIN said : said[i].kind = "opus" /\ said[i].speaker = s => Counted(said[i], f)
  <2> SUFFICES ASSUME NEW i \in DOMAIN said, said[i].kind = "opus", said[i].speaker = s
               PROVE  Counted(said[i], f)
    OBVIOUS
  <2>1. PICK m : m = said[i]
    OBVIOUS
  <2>2. m.spurt \in Nat /\ m.samples \in Nat /\ m.fields.seq \in Nat /\ Counted(m, b)
    BY <2>1, <1>1, SaidTyped DEF IInv, AllCounted
  <2> QED
    BY <2>1, <2>2, <1>3, MovedCounts
<1> QED
  BY <1>3, <1>4, <1>5, EncoderStep

\* Frames nobody hears are counted too.
LEMMA UnheardStep ==
    ASSUME IInv, NEW s \in Speakers, Unheard(s)
    PROVE  IInv'
<1>1. PICK b \in Encoder : b = encoder[s]
  BY DEF IInv, TypeOK
<1>2. PICK e \in Encoder : e = Ready(b)
  <2>1. Ready(b) \in Encoder
    BY DEF Ready, Encoder
  <2> QED
    BY <2>1
<1>3. PICK k \in Bursts :
          LET d == Passed(Ready(encoder[s]), k)
          IN  /\ bursts < MaxBursts /\ UInt32(d.sequence_number)
              /\ bursts' = bursts + 1
              /\ encoder' = [encoder EXCEPT ![s] = d]
              /\ UNCHANGED <<muted, onWay, said, decoded, heard, over, pauses>>
  BY Zenon DEF Unheard
<1>4. k \in Nat
  BY FrameAssumption
<1>5. Advanced(e, 2880).sequence_number - e.sequence_number = 6
  BY DEF Advanced, Encoder
<1>6. PICK n \in Nat : n = k * (Advanced(e, 2880).sequence_number - e.sequence_number)
  BY <1>4, <1>5
<1>7. PICK f : f = Passed(e, k)
  OBVIOUS
<1>8. f \in Encoder /\ f.spurt = e.spurt /\ f.silent = e.silent /\ f.sequence_number >= e.sequence_number
  <2>1. f = [e EXCEPT !.sequence_number = @ + n]
    BY <1>6, <1>7 DEF Passed
  <2> QED
    BY <2>1 DEF Encoder
<1>9. encoder' = [encoder EXCEPT ![s] = f] /\ UNCHANGED <<muted, onWay, said, decoded, heard, over>>
  <2>1. Ready(encoder[s]) = e
    BY <1>1, <1>2
  <2>2. encoder' = [encoder EXCEPT ![s] = Passed(Ready(encoder[s]), k)]
    BY <1>3
  <2> QED
    BY <2>1, <2>2, <1>3, <1>7
<1>10. \A i \in DOMAIN said : said[i].kind = "opus" /\ said[i].speaker = s => Counted(said[i], f)
  <2> SUFFICES ASSUME NEW i \in DOMAIN said, said[i].kind = "opus", said[i].speaker = s
               PROVE  Counted(said[i], f)
    OBVIOUS
  <2>1. PICK m : m = said[i]
    OBVIOUS
  <2>2. m.spurt \in Nat /\ m.samples \in Nat /\ m.fields.seq \in Nat /\ Counted(m, b)
    BY <2>1, <1>1, SaidTyped DEF IInv, AllCounted
  <2>3. Counted(m, e)
    BY <2>2, <1>2, ReadyCounts
  <2> QED
    BY <2>1, <2>2, <2>3, <1>8, MovedCounts
<1> QED
  BY <1>8, <1>9, <1>10, EncoderStep

\* A pause ends the spurt.
LEMMA PauseStep ==
    ASSUME IInv, NEW s \in Speakers, Pause(s)
    PROVE  IInv'
<1>1. PICK b \in Encoder : b = encoder[s]
  BY DEF IInv, TypeOK
<1>2. PICK f : f = [b EXCEPT !.silent = TRUE]
  OBVIOUS
<1>3. f \in Encoder /\ f.spurt = b.spurt /\ f.silent
  BY <1>2 DEF Encoder
<1>4. encoder' = [encoder EXCEPT ![s] = f] /\ UNCHANGED <<muted, onWay, said, decoded, heard, over>>
  BY <1>1, <1>2 DEF Pause
<1>5. \A i \in DOMAIN said : said[i].kind = "opus" /\ said[i].speaker = s => Counted(said[i], f)
  <2> SUFFICES ASSUME NEW i \in DOMAIN said, said[i].kind = "opus", said[i].speaker = s
               PROVE  Counted(said[i], f)
    OBVIOUS
  <2>1. PICK m : m = said[i]
    OBVIOUS
  <2>2. m.spurt \in Nat /\ m.samples \in Nat /\ m.fields.seq \in Nat /\ Counted(m, b)
    BY <2>1, <1>1, SaidTyped DEF IInv, AllCounted
  <2> QED
    BY <2>1, <2>2, <1>3, MovedCounts
<1> QED
  BY <1>3, <1>4, <1>5, EncoderStep

\* A packet that is not Opus is not of any spurt.
LEMMA SilentPut ==
    ASSUME IInv, NEW m \in Said, m.kind # "opus", PutOnWay(m), UNCHANGED encoder
    PROVE  AllCounted' /\ SpurtOrdered'
<1>1. PICK old, new : old = said /\ new = said'
  OBVIOUS
<1>2. /\ DOMAIN old = 1 .. Len(old) /\ DOMAIN new = 1 .. Len(old) + 1 /\ Len(old) \in Nat
      /\ \A i \in DOMAIN old : new[i] = old[i]
      /\ new[Len(old) + 1] = m
  BY <1>1, Grows DEF PutOnWay, IInv, TypeOK
<1>3. \A i \in DOMAIN new : new[i].kind = "opus" => i \in DOMAIN old /\ new[i] = old[i]
  BY <1>2
<1>4. AllCounted'
  BY <1>1, <1>3 DEF IInv, AllCounted
<1>5. SpurtOrdered'
  BY <1>1, <1>3 DEF IInv, SpurtOrdered
<1> QED
  BY <1>4, <1>5

\* A packet of another codec on the way.
LEMMA OtherStep ==
    ASSUME IInv, NEW s \in Speakers, OtherSpeech(s)
    PROVE  IInv'
<1>1. PICK type, q :
          /\ type \in Codecs /\ q \in {0, 200}
          /\ PutOnWay([kind |-> "other", speaker |-> s, spurt |-> 0, samples |-> 0,
                       fields |-> [target |-> 0, seq |-> q, last |-> FALSE, number |-> 0],
                       bytes |-> <<Header(type, 0)>> \o Encode(Number(s)) \o Encode(Number(q)) \o <<2, 0, 0>>])
          /\ UNCHANGED <<encoder, muted, decoded, heard, over, pauses, bursts>>
  BY Zenon DEF OtherSpeech
<1>2. UInt32(q) /\ q \in Nat
  <2>1. 0 \div 65536 = 0 /\ 200 \div 65536 = 0
    OBVIOUS
  <2> QED
    BY <1>1, <2>1 DEF UInt32
<1>3. PICK b : b = <<Header(type, 0)>> \o Encode(Number(s)) \o Encode(Number(q)) \o <<2, 0, 0>>
  OBVIOUS
<1>4. PICK m : m = [kind |-> "other", speaker |-> s, spurt |-> 0, samples |-> 0,
                    fields |-> [target |-> 0, seq |-> q, last |-> FALSE, number |-> 0], bytes |-> b]
  OBVIOUS
<1>5. PutOnWay(m) /\ UNCHANGED <<encoder, muted, decoded, heard, over>>
  BY <1>1, <1>3, <1>4, Zenon
<1>6. m.kind = "other" /\ m.speaker = s /\ m.fields.seq = q /\ m.bytes = b
  BY <1>4
<1>7. Meant(m)
  <2>1. m.bytes = <<Header(type, 0)>> \o Encode(Number(m.speaker)) \o Encode(Number(m.fields.seq)) \o <<2, 0, 0>>
    BY <1>3, <1>6, Zenon
  <2>2. m.speaker \in Speakers /\ UInt32(m.fields.seq)
    BY <1>2, <1>6
  <2>3. Foreign(m)
    BY <1>1, <2>1, <2>2, Zenon DEF Foreign
  <2> QED
    BY <2>3, <1>6 DEF Meant
<1>8. b \in Seq(Byte)
  <2>1. PICK rest : rest \in Seq(Byte) /\ Len(rest) >= 8
    BY EightZeros
  <2> QED
    BY <2>1, <1>1, <1>2, <1>3, OtherDecoded, Zenon
<1>9. m \in Said
  <2>1. s \in Speakers \cup {0} /\ 0 \in Nat
    OBVIOUS
  <2> QED
    BY <2>1, <1>2, <1>4, <1>8 DEF Said
<1>10. (encoder \in [Speakers -> Encoder])'
  BY <1>5 DEF IInv, TypeOK
<1>11. TypeOK' /\ Sent' /\ Read' /\ Heard' /\ Ended'
  BY <1>5, <1>7, <1>9, <1>10, PutStep
<1>12. AllCounted' /\ SpurtOrdered'
  BY <1>5, <1>6, <1>9, SilentPut
<1> QED
  BY <1>11, <1>12 DEF IInv

\* A ping on the way.
LEMMA PingStep ==
    ASSUME IInv, Ping
    PROVE  IInv'
<1>1. PICK t \in Timestamps :
          /\ PutOnWay([kind |-> "ping", speaker |-> 0, spurt |-> 0, samples |-> 0,
                       fields |-> [target |-> 0, seq |-> t, last |-> FALSE, number |-> 0],
                       bytes |-> EncodePing(Number(t))])
          /\ UNCHANGED <<encoder, muted, decoded, heard, over, pauses, bursts>>
  BY Zenon DEF Ping
<1>2. PICK b : b = EncodePing(Number(t))
  OBVIOUS
<1>3. PICK m : m = [kind |-> "ping", speaker |-> 0, spurt |-> 0, samples |-> 0,
                    fields |-> [target |-> 0, seq |-> t, last |-> FALSE, number |-> 0], bytes |-> b]
  OBVIOUS
<1>4. PutOnWay(m) /\ UNCHANGED <<encoder, muted, decoded, heard, over>>
  BY <1>1, <1>2, <1>3, Zenon
<1>5. m.kind = "ping" /\ m.fields.seq = t /\ m.bytes = b
  BY <1>3
<1>6. Meant(m)
  BY <1>2, <1>5 DEF Meant, Pinged
<1>7. b \in Seq(Byte)
  <2>1. PICK rest : rest \in Seq(Byte) /\ Len(rest) >= 8
    BY EightZeros
  <2> QED
    BY <2>1, <1>2, PingDecoded, Zenon
<1>8. m \in Said
  <2>1. t \in Nat
    BY ClockAssumption
  <2> QED
    BY <2>1, <1>3, <1>7 DEF Said
<1>9. (encoder \in [Speakers -> Encoder])'
  BY <1>4 DEF IInv, TypeOK
<1>10. TypeOK' /\ Sent' /\ Read' /\ Heard' /\ Ended'
  BY <1>4, <1>6, <1>8, <1>9, PutStep
<1>11. AllCounted' /\ SpurtOrdered'
  BY <1>4, <1>5, <1>8, SilentPut
<1> QED
  BY <1>10, <1>11 DEF IInv

\* The listener mutes a speaker, or no longer.
LEMMA MuteStep ==
    ASSUME IInv, NEW s \in Speakers, UserMute(s)
    PROVE  IInv'
<1>1. muted' \subseteq Speakers /\ UNCHANGED <<encoder, onWay, said, decoded, heard, over>>
  BY DEF UserMute, IInv, TypeOK
<1> QED
  BY <1>1 DEF IInv, TypeOK, Sent, Read, Heard, Ended, AllCounted, SpurtOrdered

\* What the callback for a packet is given is what its sender meant.
LEMMA CalledBack ==
    ASSUME NEW m, m.kind \in {"opus", "ping", "other"}, Meant(m), NEW p, Understood(m, p), p # Refused,
           p.type # "Ping", NEW h,
           h.callback = (IF p.type = "Opus" THEN "audio" ELSE "unsupportedAudio"), h.target = p.target,
           h.session = ToInt(p.session), h.seq = ToInt(p.seq), h.last = p.last, h.payload = p.payload
    PROVE  AsSaid(m, h)
<1>1. CASE m.kind = "opus"
  <2>1. Spoken(m) /\ OpusRead(p, m.fields.target, m.speaker, m.fields.seq, PayloadIn(m))
    BY <1>1 DEF Meant, Understood
  <2> QED
    BY <1>1, <2>1 DEF AsSaid, OpusRead, Reads, Spoken
<1>2. CASE m.kind = "other"
  <2>1. PICK type \in Codecs : Reads(p, type, 0, Number(m.speaker), Number(m.fields.seq), <<>>)
    BY <1>2 DEF Understood
  <2>2. type # "Opus"
    BY PacketAssumption
  <2> QED
    BY <1>2, <2>1, <2>2 DEF AsSaid, Reads
<1>3. CASE m.kind = "ping"
  BY <1>3 DEF Understood, PingRead
<1> QED
  BY <1>1, <1>2, <1>3

\* A packet arrives: it is understood as it was meant, or refused.
LEMMA ReceiveStep ==
    ASSUME IInv, NEW i \in onWay, Receive(i)
    PROVE  IInv'
<1>1. i \in DOMAIN said /\ onWay \subseteq DOMAIN said
  BY DEF IInv, TypeOK
<1>2. PICK m : m = said[i]
  OBVIOUS
<1>3. m.kind \in {"opus", "ping", "other"} /\ Meant(m)
  BY <1>1, <1>2, SaidTyped DEF IInv, Sent
<1>4. PICK rest \in Stale :
          LET p == Decode(said[i].bytes \o rest, Len(said[i].bytes))
          IN  /\ ~over
              /\ onWay' = onWay \ {i}
              /\ decoded' = [index |-> i, packet |-> p]
              /\ over' = (p = Refused)
              /\ IF p = Refused THEN UNCHANGED heard ELSE ProcessAudioPacket(i, p)
              /\ UNCHANGED <<encoder, muted, said, pauses, bursts>>
  BY Zenon DEF Receive
<1>5. PICK p : p = Decode(m.bytes \o rest, Len(m.bytes))
  OBVIOUS
<1>6. Understood(m, p)
  BY <1>3, <1>5, Decoded
<1>7. /\ onWay' = onWay \ {i} /\ decoded' = [index |-> i, packet |-> p] /\ over' = (p = Refused)
      /\ IF p = Refused THEN UNCHANGED heard ELSE ProcessAudioPacket(i, p)
      /\ UNCHANGED <<encoder, muted, said>>
  BY <1>2, <1>4, <1>5, Zenon
<1>8. decoded'.index = i /\ decoded'.packet = p
  BY <1>7
<1>9. TypeOK'
  <2>1. p # Refused => p.session \in Int64 /\ p.seq \in Int64 /\ p.timestamp \in Int64
    BY <1>3, <1>6, UnderstoodTyped
  <2>2. onWay' \subseteq DOMAIN said'
    BY <1>1, <1>7
  <2>3. over' \in BOOLEAN
    BY <1>7, Zenon
  <2>4. encoder' \in [Speakers -> Encoder] /\ muted' \subseteq Speakers /\ said' \in Seq(Said)
    BY <1>7 DEF IInv, TypeOK
  <2>5. heard' # None => Int32(heard'.session) /\ Int32(heard'.seq)
    <3>1. CASE UNCHANGED heard
      BY <3>1 DEF IInv, TypeOK
    <3>2. CASE heard' # heard
      <4>1. p # Refused /\ ProcessAudioPacket(i, p)
        BY <3>2, <1>7
      <4>2. heard'.session = ToInt(p.session) /\ heard'.seq = ToInt(p.seq)
        BY <3>2, <4>1 DEF ProcessAudioPacket
      <4> QED
        BY <4>1, <4>2, <2>1, NarrowedTyped
    <3> QED
      BY <3>1, <3>2
  <2> QED
    BY <2>1, <2>2, <2>3, <2>4, <2>5, <1>8, Zenon DEF TypeOK
<1>10. Sent' /\ AllCounted' /\ SpurtOrdered'
  BY <1>7 DEF IInv, Sent, AllCounted, SpurtOrdered
<1>11. Read'
  BY <1>1, <1>2, <1>6, <1>7, <1>8 DEF Read
<1>12. Heard'
  <2>1. CASE UNCHANGED heard
    BY <2>1, <1>7 DEF IInv, Heard
  <2>2. CASE heard' # heard
    <3>1. p # Refused /\ ProcessAudioPacket(i, p)
      BY <2>2, <1>7
    <3>2. /\ p.type # "Ping"
          /\ heard' = [index |-> i, callback |-> IF p.type = "Opus" THEN "audio" ELSE "unsupportedAudio",
                       target |-> p.target, session |-> ToInt(p.session), seq |-> ToInt(p.seq),
                       last |-> p.last, payload |-> p.payload]
      BY <2>2, <3>1 DEF ProcessAudioPacket
    <3>3. PICK h : h = heard'
      OBVIOUS
    <3>4. AsSaid(m, h) /\ h.index = i
      BY <3>1, <3>2, <3>3, <1>3, <1>6, CalledBack
    <3> QED
      BY <3>3, <3>4, <1>1, <1>2, <1>7 DEF Heard
  <2> QED
    BY <2>1, <2>2
<1>13. Ended'
  BY <1>1, <1>2, <1>6, <1>7, <1>8 DEF Ended
<1> QED
  BY <1>9, <1>10, <1>11, <1>12, <1>13 DEF IInv

-----------------------------------------------------------------------------
(* The theorems. *)

LEMMA InitInv == Init => IInv
<1> SUFFICES ASSUME Init
             PROVE  IInv
  OBVIOUS
<1>1. said = <<>> /\ DOMAIN said = {} /\ said \in Seq(Said)
  <2>1. said = <<>>
    BY DEF Init
  <2> QED
    BY <2>1
<1>2. TypeOK
  BY <1>1 DEF Init, TypeOK, Encoder
<1> QED
  BY <1>1, <1>2 DEF Init, IInv, Sent, Read, Heard, Ended, AllCounted, SpurtOrdered

LEMMA NextInv == IInv /\ [Next]_vars => IInv'
<1> SUFFICES ASSUME IInv, [Next]_vars
             PROVE  IInv'
  OBVIOUS
<1>1. CASE UNCHANGED vars
  BY <1>1 DEF vars, IInv, TypeOK, Sent, Read, Heard, Ended, AllCounted, SpurtOrdered
<1>2. ASSUME NEW s \in Speakers, AudioSendTarget(s)
      PROVE  IInv'
  BY <1>2, SendStep
<1>3. ASSUME NEW s \in Speakers, EncodeFails(s)
      PROVE  IInv'
  BY <1>3, FailStep
<1>4. ASSUME NEW s \in Speakers, Unheard(s)
      PROVE  IInv'
  BY <1>4, UnheardStep
<1>5. ASSUME NEW s \in Speakers, Pause(s)
      PROVE  IInv'
  BY <1>5, PauseStep
<1>6. ASSUME NEW s \in Speakers, OtherSpeech(s)
      PROVE  IInv'
  BY <1>6, OtherStep
<1>7. ASSUME NEW s \in Speakers, UserMute(s)
      PROVE  IInv'
  BY <1>7, MuteStep
<1>8. CASE Ping
  BY <1>8, PingStep
<1>9. ASSUME NEW i \in onWay, Receive(i)
      PROVE  IInv'
  BY <1>9, ReceiveStep
<1> QED
  BY <1>1, <1>2, <1>3, <1>4, <1>5, <1>6, <1>7, <1>8, <1>9 DEF Next

\* Everything said was meant, and is counted; everything decoded, refused or heard is
\* what was meant.
LEMMA Invariance == Spec => []IInv
<1>1. Init => IInv
  BY InitInv
<1>2. IInv /\ [Next]_vars => IInv'
  BY NextInv
<1> QED
  BY <1>1, <1>2, PTL DEF Spec

\* Type invariant: whatever is sent and however it arrives, the numbers of a decoded
\* packet have 64 bits and those of the callback 32.
THEOREM TypeCorrect == Spec => []TypeOK
<1>1. IInv => TypeOK
  BY DEF IInv
<1> QED
  BY <1>1, Invariance, PTL

\* The callback is given what the speaker said (encode, relay, decode and
\* processAudioPacket), for any payload sizes, session and sequence numbers below
\* 2^31, and whatever lies behind the packet in the buffer.
THEOREM HearsWhatIsSaid == Spec => []HeardAsSaid
<1>1. IInv => HeardAsSaid
  <2> SUFFICES ASSUME IInv, heard # None
               PROVE  HeardAsSaid
    BY DEF HeardAsSaid
  <2>1. PICK m : m = said[heard.index]
    OBVIOUS
  <2>2. AsSaid(m, heard) /\ m.kind \in {"opus", "ping", "other"}
    BY <2>1, SaidTyped DEF IInv, Heard
  <2>3. m.kind # "ping" => m.speaker \in Nat /\ m.fields.seq \in Nat
    <3>1. Meant(m)
      BY <2>1 DEF IInv, Heard, Sent
    <3>2. m.kind # "ping" => m.speaker \in Speakers /\ UInt32(m.fields.seq)
      BY <2>2, <3>1 DEF Meant, Spoken, Foreign
    <3> QED
      BY <3>2, SpeakerAssumption DEF UInt32
  <2>4. /\ m.kind # "ping" /\ Int32(m.speaker) => ToInt(Number(m.speaker)) = m.speaker
        /\ m.kind # "ping" /\ Int32(m.fields.seq) => ToInt(Number(m.fields.seq)) = m.fields.seq
    BY <2>3, NarrowedSame
  <2>5. CASE m.kind = "opus"
    BY <2>1, <2>2, <2>4, <2>5, Zenon DEF HeardAsSaid, AsSaid, PayloadIn
  <2>6. CASE m.kind = "other"
    BY <2>1, <2>2, <2>4, <2>6, Zenon DEF HeardAsSaid, AsSaid, PayloadIn
  <2> QED
    BY <2>2, <2>5, <2>6 DEF AsSaid
<1> QED
  BY <1>1, Invariance, PTL

\* run() ends for a packet only when that has a position behind it: the check of the
\* length refuses no other.
THEOREM RefusesOnlyPositional == Spec => []RefusedOnlyPositional
<1>1. IInv => RefusedOnlyPositional
  <2> SUFFICES ASSUME IInv, over
               PROVE  said[decoded.index].speaker \in Positional
    BY DEF RefusedOnlyPositional
  <2>1. decoded.index \in DOMAIN said /\ Understood(said[decoded.index], Refused)
    BY DEF IInv, Ended
  <2>2. said[decoded.index].kind \in {"opus", "ping", "other"}
    BY <2>1, SaidTyped DEF IInv
  <2>3. PICK m : m = said[decoded.index]
    OBVIOUS
  <2> QED
    BY <2>1, <2>2, <2>3, RefusedPositional
<1> QED
  BY <1>1, Invariance, PTL

\* A ping is read as a ping, with the time it was sent at.
THEOREM PingsReturn == Spec => []PingEchoed
<1>1. IInv => PingEchoed
  <2> SUFFICES ASSUME IInv, decoded # None, said[decoded.index].kind = "ping"
               PROVE  /\ decoded.packet # Refused /\ decoded.packet.type = "Ping"
                      /\ decoded.packet.timestamp = Number(said[decoded.index].fields.seq)
    BY DEF PingEchoed
  <2>1. PingRead(decoded.packet, said[decoded.index].fields.seq)
    BY DEF IInv, Read, Understood
  <2>2. Refused.type # "Ping"
    BY DEF Refused
  <2> QED
    BY <2>1, <2>2 DEF PingRead
<1> QED
  BY <1>1, Invariance, PTL

\* Within a spurt the sequence numbers are in the order of speech, across lost, failed
\* and short frames, and pauses.
THEOREM SpurtsInOrder == Spec => []SpurtOrdered
<1>1. IInv => SpurtOrdered
  BY DEF IInv
<1> QED
  BY <1>1, Invariance, PTL
=============================================================================
