-------------------------- MODULE SslStreamProofs ---------------------------
(***************************************************************************)
(* The framing of the control connection keeps the boundaries of the       *)
(* messages and implements the queue of them, for every byte width, every  *)
(* size of the buffer, any messages, and any pieces the stream yields.     *)
(***************************************************************************)
EXTENDS SslStream, SequenceTheorems, NaturalsInduction, WellFoundedInduction, TLAPS

-----------------------------------------------------------------------------
(***************************************************************************)
(* One sequence of many                                                    *)
(***************************************************************************)

LEMMA Least ==
    ASSUME NEW T, T \subseteq Nat, T # {}
    PROVE  \E x \in T : \A y \in T : x <= y
<1> DEFINE R == OpToRel(<, Nat)
<1>1. \A x, y \in Nat : <<y, x>> \in R <=> y < x
  <2>1. R = {ss \in Nat \X Nat : ss[1] < ss[2]}
    BY Zenon DEF OpToRel
  <2> HIDE DEF R
  <2>2. \A x, y \in Nat : <<y, x>> \in Nat \X Nat /\ <<y, x>>[1] = y /\ <<y, x>>[2] = x
    OBVIOUS
  <2> QED BY <2>1, <2>2
<1>2. IsWellFoundedOn(R, Nat)
  BY NatLessThanWellFounded, Zenon
<1> HIDE DEF R
<1>3. \E x \in T : \A y \in T : <<y, x>> \notin R
  BY <1>2, WFMin
<1>4. PICK x \in T : \A y \in T : <<y, x>> \notin R
  BY <1>3
<1>5. ASSUME NEW y \in T PROVE x <= y
  <2>1. x \in Nat /\ y \in Nat
    OBVIOUS
  <2>2. ~(y < x)
    BY <1>1, <1>4, <2>1
  <2> QED BY <2>1, <2>2
<1> QED BY <1>5

\* f is what FlattenSeq has made of the first elements of s, of n at most.
Joins(f, s, n) ==
    f = [i \in 1 .. n |-> IF i = 1 THEN s[i] ELSE f[i - 1] \o s[i]]

LEMMA JoinsOne ==
    ASSUME NEW s, NEW n \in Nat, NEW f, Joins(f, s, n), NEW i \in 1 .. n
    PROVE  f[i] = IF i = 1 THEN s[i] ELSE f[i - 1] \o s[i]
BY Zenon DEF Joins

LEMMA JoinsMore ==
    ASSUME NEW s, NEW n \in Nat, NEW f, Joins(f, s, n)
    PROVE  \E g : Joins(g, s, n + 1)
<1> DEFINE last == IF n = 0 THEN s[1] ELSE f[n] \o s[n + 1]
           g == [i \in 1 .. n + 1 |-> IF i = n + 1 THEN last ELSE f[i]]
<1>1. \A i \in 1 .. n : f[i] = IF i = 1 THEN s[i] ELSE f[i - 1] \o s[i]
  BY JoinsOne
<1>2. \A i \in 1 .. n + 1 : g[i] = IF i = n + 1 THEN last ELSE f[i]
  OBVIOUS
<1>3. ASSUME NEW i \in 1 .. n + 1
      PROVE  (IF i = n + 1 THEN last ELSE f[i]) = (IF i = 1 THEN s[i] ELSE g[i - 1] \o s[i])
  <2>1. CASE i = n + 1
    <3>1. CASE n = 0
      BY <2>1, <3>1
    <3>2. CASE n # 0
      <4>1. i # 1 /\ i - 1 \in 1 .. n + 1 /\ i - 1 = n /\ i - 1 # n + 1
        BY <2>1, <3>2
      <4>2. g[i - 1] = f[n]
        BY <4>1, <1>2
      <4> HIDE DEF g
      <4> QED BY <2>1, <3>2, <4>1, <4>2
    <3> QED BY <3>1, <3>2
  <2>2. CASE i # n + 1 /\ i = 1
    BY <1>1, <2>2
  <2>3. CASE i # n + 1 /\ i # 1
    <3>1. i \in 1 .. n /\ i - 1 \in 1 .. n + 1 /\ i - 1 # n + 1
      BY <2>3
    <3>2. g[i - 1] = f[i - 1]
      BY <3>1, <1>2
    <3> HIDE DEF g
    <3> QED BY <2>3, <3>1, <3>2, <1>1
  <2> QED BY <2>1, <2>2, <2>3
<1>4. g = [i \in 1 .. n + 1 |-> IF i = 1 THEN s[i] ELSE g[i - 1] \o s[i]]
  BY <1>3, Zenon
<1> HIDE DEF g
<1> QED BY <1>4 DEF Joins

LEMMA JoinsExists ==
    ASSUME NEW s, NEW n \in Nat
    PROVE  \E f : Joins(f, s, n)
<1> DEFINE T == {k \in Nat : ~\E f : Joins(f, s, k)}
<1> SUFFICES ASSUME T # {} PROVE FALSE
  OBVIOUS
<1>1. PICK k \in T : \A j \in T : k <= j
  BY Least
<1>2. CASE k = 0
  <2>1. Joins(<< >>, s, 0)
    BY DEF Joins
  <2> QED BY <1>2, <2>1
<1>3. CASE k # 0
  <2>1. k - 1 \in Nat /\ ~(k <= k - 1) /\ (k - 1) + 1 = k
    BY <1>3
  <2>2. k - 1 \notin T
    BY <1>1, <2>1
  <2>3. \E f : Joins(f, s, k - 1)
    BY <2>1, <2>2
  <2>4. \E f : Joins(f, s, (k - 1) + 1)
    BY <2>1, <2>3, JoinsMore
  <2> QED BY <2>1, <2>4
<1> QED BY <1>2, <1>3

LEMMA FlattenIs ==
    ASSUME NEW s, Len(s) \in Nat \ {0}
    PROVE  \E f : Joins(f, s, Len(s)) /\ FlattenSeq(s) = f[Len(s)]
<1> DEFINE flatten == CHOOSE f : f = [i \in 1 .. Len(s) |-> IF i = 1 THEN s[i] ELSE f[i - 1] \o s[i]]
<1>1. \E f : f = [i \in 1 .. Len(s) |-> IF i = 1 THEN s[i] ELSE f[i - 1] \o s[i]]
  BY JoinsExists DEF Joins
<1>2. flatten = [i \in 1 .. Len(s) |-> IF i = 1 THEN s[i] ELSE flatten[i - 1] \o s[i]]
  BY <1>1, Zenon
<1>3. FlattenSeq(s) = flatten[Len(s)]
  BY Zenon DEF FlattenSeq
<1> HIDE DEF flatten
<1> QED BY <1>2, <1>3 DEF Joins

\* Concatenation, under a name that the provers do not look into.
Cat(s, t) == s \o t

LEMMA Associates ==
    ASSUME NEW S, NEW s \in Seq(S), NEW t \in Seq(S), NEW u \in Seq(S)
    PROVE  Cat(Cat(s, t), u) = Cat(s, Cat(t, u))
BY DEF Cat

LEMMA LastAppended ==
    ASSUME NEW S, NEW s \in Seq(S), NEW x \in S
    PROVE  Append(s, x) # << >> /\ Last(Append(s, x)) = x
BY AppendProperties DEF Last

\* A sequence more at the end is more at the end.
LEMMA FlattenAppend ==
    ASSUME NEW S, NEW s \in Seq(Seq(S)), NEW x \in Seq(S), FlattenSeq(s) \in Seq(S)
    PROVE  FlattenSeq(Append(s, x)) = FlattenSeq(s) \o x
<1> DEFINE t == Append(s, x)
           n == Len(s)
<1>1. /\ n \in Nat /\ Len(t) = n + 1
      /\ \A i \in 1 .. n : t[i] = s[i]
      /\ t[n + 1] = x
  OBVIOUS
<1> HIDE DEF t
<1>2. PICK g : Joins(g, t, n + 1) /\ FlattenSeq(t) = g[n + 1]
  BY <1>1, FlattenIs
<1>3. \A i \in 1 .. n + 1 : g[i] = IF i = 1 THEN t[i] ELSE g[i - 1] \o t[i]
  BY <1>1, <1>2, JoinsOne
<1>4. CASE n = 0
  <2>1. FlattenSeq(t) = x
    BY <1>1, <1>2, <1>3, <1>4
  <2>2. FlattenSeq(s) = << >>
    <3>1. s = << >>
      BY <1>4
    <3> QED BY <1>4, <3>1 DEF FlattenSeq
  <2>3. << >> \o x = x
    BY ConcatEmptySeq
  <2> QED BY <2>1, <2>2, <2>3 DEF t
<1>5. CASE n # 0
  <2>1. PICK f : Joins(f, s, n) /\ FlattenSeq(s) = f[n]
    BY <1>1, <1>5, FlattenIs
  <2>2. \A i \in 1 .. n : f[i] = IF i = 1 THEN s[i] ELSE f[i - 1] \o s[i]
    BY <1>1, <2>1, JoinsOne
  <2>3. \A i \in 1 .. n : g[i] = f[i]
    <3> DEFINE T == {i \in 1 .. n : g[i] # f[i]}
    <3> SUFFICES ASSUME T # {} PROVE FALSE
      OBVIOUS
    <3>1. PICK i \in T : \A j \in T : i <= j
      <4>1. T \subseteq Nat
        OBVIOUS
      <4> HIDE DEF T
      <4> QED BY <4>1, Least
    <3>2. CASE i = 1
      BY <1>1, <1>3, <2>2, <3>1, <3>2
    <3>3. CASE i # 1
      <4>1. i - 1 \in 1 .. n /\ ~(i <= i - 1) /\ i \in 1 .. n /\ i \in 1 .. n + 1
        BY <3>3, <1>1
      <4>2. g[i - 1] = f[i - 1]
        BY <3>1, <4>1
      <4>3. g[i] = g[i - 1] \o t[i] /\ f[i] = f[i - 1] \o s[i] /\ t[i] = s[i]
        BY <1>1, <1>3, <2>2, <3>3, <4>1
      <4> QED BY <4>2, <4>3, <3>1
    <3> QED BY <3>2, <3>3
  <2>4. n \in 1 .. n /\ n + 1 \in 1 .. n + 1 /\ n + 1 # 1 /\ (n + 1) - 1 = n
    BY <1>1, <1>5
  <2>5. g[n + 1] = g[n] \o t[n + 1] /\ g[n] = f[n]
    BY <1>3, <2>3, <2>4
  <2> QED BY <1>1, <1>2, <2>1, <2>5 DEF t
<1> QED BY <1>1, <1>4, <1>5

LEMMA FlattenType ==
    ASSUME NEW S, NEW s \in Seq(Seq(S))
    PROVE  FlattenSeq(s) \in Seq(S)
<1>1. CASE s = << >>
  BY <1>1 DEF FlattenSeq
<1>2. CASE s # << >>
  <2> DEFINE n == Len(s)
  <2>1. n \in Nat \ {0} /\ \A i \in 1 .. n : s[i] \in Seq(S)
    BY <1>2
  <2>2. PICK f : Joins(f, s, n) /\ FlattenSeq(s) = f[n]
    BY <2>1, FlattenIs
  <2> HIDE DEF n
  <2>3. \A i \in 1 .. n : f[i] = IF i = 1 THEN s[i] ELSE f[i - 1] \o s[i]
    BY <2>1, <2>2, JoinsOne
  <2> DEFINE T == {i \in 1 .. n : f[i] \notin Seq(S)}
  <2>4. ASSUME T # {} PROVE FALSE
    <3>1. PICK i \in T : \A j \in T : i <= j
      <4>1. T \subseteq Nat
        BY <2>1
      <4> HIDE DEF T
      <4> QED BY <2>4, <4>1, Least
    <3>2. CASE i = 1
      BY <2>1, <2>3, <3>1, <3>2
    <3>3. CASE i # 1
      <4>1. i - 1 \in 1 .. n /\ ~(i <= i - 1) /\ i \in 1 .. n
        BY <3>3, <2>1
      <4>2. f[i - 1] \in Seq(S)
        BY <3>1, <4>1
      <4>3. f[i] = f[i - 1] \o s[i] /\ s[i] \in Seq(S)
        BY <2>1, <2>3, <3>3, <4>1
      <4>4. f[i] \in Seq(S)
        BY <4>2, <4>3, ConcatProperties
      <4> QED BY <3>1, <4>4
    <3> QED BY <3>2, <3>3
  <2>5. \A i \in 1 .. n : f[i] \in Seq(S)
    BY <2>4
  <2>6. n \in 1 .. n
    BY <2>1
  <2> HIDE DEF T
  <2> QED BY <2>2, <2>5, <2>6
<1> QED BY <1>1, <1>2

\* The first sequence is at the start.
LEMMA FlattenHead ==
    ASSUME NEW S, NEW s \in Seq(Seq(S)), s # << >>
    PROVE  FlattenSeq(s) = Head(s) \o FlattenSeq(Tail(s))
<1> DEFINE t == Tail(s)
           n == Len(t)
           h == Head(s)
<1>1. /\ n \in Nat /\ Len(s) = n + 1 /\ t \in Seq(Seq(S)) /\ h \in Seq(S) /\ s[1] = h
      /\ \A i \in 1 .. n : t[i] = s[i + 1] /\ t[i] \in Seq(S)
  OBVIOUS
<1>2. n = 0 => t = << >>
  <2>1. t \in Seq(Seq(S))
    OBVIOUS
  <2> HIDE DEF t
  <2> QED BY <2>1, EmptySeq
<1> HIDE DEF t, n, h
<1>3. PICK f : Joins(f, s, n + 1) /\ FlattenSeq(s) = f[n + 1]
  <2>1. Len(s) \in Nat \ {0} /\ Len(s) = n + 1
    BY <1>1
  <2> QED BY <2>1, FlattenIs
<1>4. \A i \in 1 .. n + 1 : f[i] = IF i = 1 THEN s[i] ELSE f[i - 1] \o s[i]
  <2>1. n + 1 \in Nat
    BY <1>1
  <2> QED BY <1>3, <2>1, JoinsOne
<1>5. CASE n = 0
  <2>1. FlattenSeq(s) = h
    BY <1>1, <1>3, <1>4, <1>5
  <2>2. FlattenSeq(t) = << >>
    BY <1>2, <1>5 DEF FlattenSeq
  <2> QED BY <1>1, <2>1, <2>2 DEF t, h
<1>6. CASE n # 0
  <2>1. PICK g : Joins(g, t, n) /\ FlattenSeq(t) = g[n]
    BY <1>1, <1>6, FlattenIs DEF n
  <2>2. \A i \in 1 .. n : g[i] = IF i = 1 THEN t[i] ELSE g[i - 1] \o t[i]
    <3>1. n \in Nat
      BY <1>1
    <3> QED BY <2>1, <3>1, JoinsOne
  <2> DEFINE Agrees(i) == g[i] \in Seq(S) /\ f[i + 1] = h \o g[i]
             T == {i \in 1 .. n : ~Agrees(i)}
  <2>3. ASSUME T # {} PROVE FALSE
    <3>1. PICK i \in T : \A j \in T : i <= j
      <4>1. T \subseteq Nat
        BY <1>1
      <4> HIDE DEF T
      <4> QED BY <2>3, <4>1, Least
    <3>2. i \in 1 .. n /\ i + 1 \in 1 .. n + 1 /\ i + 1 # 1 /\ (i + 1) - 1 = i
      BY <1>1
    <3>3. f[i + 1] = f[i] \o t[i] /\ t[i] \in Seq(S)
      BY <1>1, <1>4, <3>2
    <3>4. CASE i = 1
      <4>1. g[i] = t[i] /\ f[i] = h
        BY <1>1, <1>4, <2>2, <3>2, <3>4
      <4> QED BY <3>1, <3>3, <4>1
    <3>5. CASE i # 1
      <4>1. i - 1 \in 1 .. n /\ ~(i <= i - 1) /\ (i - 1) + 1 = i
        BY <1>1, <3>2, <3>5
      <4>2. Agrees(i - 1)
        BY <3>1, <4>1
      <4>3. g[i - 1] \in Seq(S) /\ f[i] = h \o g[i - 1]
        BY <4>1, <4>2
      <4>4. g[i] = g[i - 1] \o t[i]
        BY <2>2, <3>2, <3>5
      <4>5. g[i] \in Seq(S)
        BY <3>3, <4>3, <4>4, ConcatProperties
      <4>6. f[i + 1] = h \o g[i]
        <5> HIDE DEF Agrees, T
        <5>1. h \in Seq(S) /\ g[i - 1] \in Seq(S) /\ t[i] \in Seq(S)
          BY <1>1, <3>3, <4>3
        <5>2. Cat(Cat(h, g[i - 1]), t[i]) = Cat(h, Cat(g[i - 1], t[i]))
          BY <5>1, Associates
        <5> QED BY <3>3, <4>3, <4>4, <5>2 DEF Cat
      <4> QED BY <3>1, <4>5, <4>6
    <3> QED BY <3>4, <3>5
  <2>4. n \in 1 .. n
    BY <1>1, <1>6
  <2>5. Agrees(n)
    BY <2>3, <2>4
  <2> QED BY <1>3, <2>1, <2>5 DEF t, h
<1> QED BY <1>1, <1>5, <1>6

-----------------------------------------------------------------------------
(***************************************************************************)
(* Frames                                                                  *)
(***************************************************************************)

LEMMA Parameters ==
    /\ Base \in Nat /\ Base >= 2
    /\ Short \in Nat /\ Short = Base * Base /\ Short >= 4
    /\ Word \in Nat /\ Word = Short * Short /\ Word >= 16
    /\ Word * Word \in Nat /\ Word * Word >= 16 * Word
    /\ MaxLength \in Nat /\ MaxLength >= 6
<1>1. Base \in Nat /\ Base >= 2
  BY BaseAssumption
<1>2. Short \in Nat /\ Short = Base * Base /\ Short >= 4
  BY <1>1 DEF Short
<1>3. Word \in Nat /\ Word = Short * Short /\ Word >= 16
  BY <1>2 DEF Word
<1>4. Word * Word \in Nat /\ Word * Word >= 16 * Word
  BY <1>3
<1> QED BY <1>1, <1>2, <1>3, <1>4, LengthAssumption

\* A number in two digits.
LEMMA Digits ==
    ASSUME NEW B \in Nat, B > 0, NEW n \in Nat, n < B * B
    PROVE  \E q, r \in 0 .. B - 1 : n \div B = q /\ n % B = r /\ q * B + r = n
<1>1. n \div B \in 0 .. B - 1 /\ n % B \in 0 .. B - 1
  OBVIOUS
<1>2. PICK q, r \in 0 .. B - 1 : n \div B = q /\ n % B = r
  BY <1>1
<1>3. n = B * (n \div B) + (n % B)
  OBVIOUS
<1>4. q * B + r = n
  BY <1>2, <1>3
<1> QED BY <1>2, <1>4

LEMMA MessageParts ==
    ASSUME NEW m \in Message
    PROVE  /\ m.type \in Nat /\ m.type < Short
           /\ m.payload \in Seq(Byte)
           /\ Len(m.payload) \in Nat /\ 2 * Len(m.payload) < Word
           /\ m = [type |-> m.type, payload |-> m.payload]
<1>1. m \in [type : 0 .. Short - 1, payload : Seq(Byte)] /\ 2 * Len(m.payload) < Word
  BY MessageAssumption
<1> QED BY <1>1, Parameters

\* What the completion condition and the handler take from a frame is what went
\* into it.
LEMMA FrameFacts ==
    ASSUME NEW m \in Message
    PROVE  /\ Frame(m) \in Seq(Byte)
           /\ Len(Frame(m)) = HeaderSize + Len(m.payload)
           /\ \A i \in 1 .. Len(m.payload) : Frame(m)[HeaderSize + i] = m.payload[i]
           /\ MessageType(Frame(m)) = m.type
           /\ PayloadSize(Frame(m)) = Len(m.payload)
<1> DEFINE n == Len(m.payload)
           high == n \div Short
           low == n % Short
           h == << m.type \div Base, m.type % Base,
                   high \div Base, high % Base, low \div Base, low % Base >>
<1>1. m.type \in Nat /\ m.type < Short /\ m.payload \in Seq(Byte) /\ n \in Nat /\ n < Word
  <2>1. /\ m.type \in Nat /\ m.type < Short /\ m.payload \in Seq(Byte)
        /\ n \in Nat /\ 2 * n < Word
    BY MessageParts
  <2>2. Word \in Nat
    BY Parameters
  <2> HIDE DEF n
  <2> QED BY <2>1, <2>2
<1>2. Frame(m) = h \o m.payload
  BY DEF Frame
<1>3. PICK u, v \in 0 .. Short - 1 : high = u /\ low = v /\ u * Short + v = n
  <2> HIDE DEF n
  <2>1. Short > 0 /\ n < Short * Short
    BY <1>1, Parameters
  <2> QED BY <1>1, <2>1, Digits, Parameters
<1>4. ASSUME NEW k \in 0 .. Short - 1
      PROVE  \E q, r \in Byte : k \div Base = q /\ k % Base = r /\ q * Base + r = k
  BY Digits, Parameters DEF Byte
<1>5. PICK t1, t2 \in Byte :
         m.type \div Base = t1 /\ m.type % Base = t2 /\ t1 * Base + t2 = m.type
  <2>1. m.type \in 0 .. Short - 1
    BY <1>1, Parameters
  <2> QED BY <1>4, <2>1
<1>6. PICK n1, n2 \in Byte : u \div Base = n1 /\ u % Base = n2 /\ n1 * Base + n2 = u
  BY <1>4
<1>7. PICK n3, n4 \in Byte : v \div Base = n3 /\ v % Base = n4 /\ n3 * Base + n4 = v
  BY <1>4
<1>8. h = << t1, t2, n1, n2, n3, n4 >>
  <2> HIDE DEF high, low
  <2> QED BY <1>3, <1>5, <1>6, <1>7
<1> HIDE DEF n, h
<1>9. PICK p \in Seq(Byte) : p = m.payload /\ Len(p) = n
  BY <1>1 DEF n
<1>10. PICK g \in Seq(Byte) : g = << t1, t2, n1, n2, n3, n4 >> /\ Len(g) = 6
  <2>1. << t1, t2, n1, n2, n3, n4 >> \in Seq(Byte)
    OBVIOUS
  <2>2. Len(<< t1, t2, n1, n2, n3, n4 >>) = 6
    OBVIOUS
  <2>3. PICK g : g = << t1, t2, n1, n2, n3, n4 >>
    OBVIOUS
  <2> QED BY <2>1, <2>2, <2>3, Zenon
<1>11. PICK f \in Seq(Byte) :
          /\ f = Frame(m) /\ Len(f) = 6 + n
          /\ \A i \in 1 .. 6 : f[i] = g[i]
          /\ \A i \in 1 .. n : f[6 + i] = p[i]
  <2>1. Frame(m) = g \o p
    BY <1>2, <1>8, <1>9, <1>10
  <2>2. /\ g \o p \in Seq(Byte) /\ Len(g \o p) = 6 + n
        /\ \A i \in 1 .. 6 + n : (g \o p)[i] = IF i <= 6 THEN g[i] ELSE p[i - 6]
    BY <1>9, <1>10, ConcatProperties
  <2>3. PICK f \in Seq(Byte) : f = g \o p
    BY <2>2
  <2>4. Len(f) = 6 + n /\ \A i \in 1 .. 6 + n : f[i] = IF i <= 6 THEN g[i] ELSE p[i - 6]
    BY <2>2, <2>3
  <2>5. \A i \in 1 .. 6 : f[i] = g[i]
    BY <1>1, <2>4
  <2>6. ASSUME NEW i \in 1 .. n PROVE f[6 + i] = p[i]
    <3>1. 6 + i \in 1 .. 6 + n /\ ~(6 + i <= 6) /\ (6 + i) - 6 = i
      BY <1>1
    <3> QED BY <2>4, <3>1
  <2> QED BY <2>1, <2>3, <2>4, <2>5, <2>6
<1>12. f[1] = t1 /\ f[2] = t2 /\ f[3] = n1 /\ f[4] = n2 /\ f[5] = n3 /\ f[6] = n4
  <2>1. g[1] = t1 /\ g[2] = t2 /\ g[3] = n1 /\ g[4] = n2 /\ g[5] = n3 /\ g[6] = n4
    BY <1>10
  <2> QED BY <1>11, <2>1
<1>13. MessageType(f) = m.type
  BY <1>5, <1>12 DEF MessageType
<1>14. PayloadSize(f) = n
  <2>1. PayloadSize(f) = (n1 * Base + n2) * Short + n3 * Base + n4
    BY <1>12 DEF PayloadSize
  <2>2. n1 * Base + n2 = u /\ n3 * Base + n4 = v /\ u * Short + v = n
    BY <1>3, <1>6, <1>7
  <2>3. PICK x, y \in Int : x = u * Short /\ y = n3 * Base
    BY Parameters DEF Byte
  <2>4. PayloadSize(f) = x + y + n4
    BY <2>1, <2>2, <2>3
  <2>5. y + n4 = v /\ x + v = n
    BY <2>2, <2>3
  <2>6. PICK z \in Int : z = n4
    BY DEF Byte
  <2>7. PICK w \in Int : w = v /\ w = y + z
    BY <2>5, <2>6
  <2>8. (x + y) + z = x + (y + z)
    OBVIOUS
  <2> QED BY <2>4, <2>5, <2>6, <2>7, <2>8, Zenon
<1> QED BY <1>9, <1>11, <1>13, <1>14 DEF HeaderSize, n

\* The header alone says how long the message is and of what type.
LEMMA HeaderSays ==
    ASSUME NEW b, NEW c, \A i \in 1 .. 6 : b[i] = c[i]
    PROVE  MessageType(b) = MessageType(c) /\ PayloadSize(b) = PayloadSize(c)
BY DEF MessageType, PayloadSize

\* The bytes of several messages.
Frames(s) == FlattenSeq([i \in DOMAIN s |-> Frame(s[i])])

LEMMA FramesFacts ==
    ASSUME NEW s \in Seq(Message)
    PROVE  /\ Frames(s) \in Seq(Byte)
           /\ s = << >> => Frames(s) = << >>
           /\ s # << >> => Frames(s) = Frame(Head(s)) \o Frames(Tail(s))
           /\ \A m \in Message : Frames(Append(s, m)) = Frames(s) \o Frame(m)
<1> DEFINE F(t) == [i \in DOMAIN t |-> Frame(t[i])]
<1>1. ASSUME NEW t \in Seq(Message)
      PROVE  /\ F(t) \in Seq(Seq(Byte)) /\ Len(F(t)) = Len(t)
             /\ \A i \in 1 .. Len(t) : F(t)[i] = Frame(t[i])
  <2>1. DOMAIN t = 1 .. Len(t) /\ Len(t) \in Nat /\ \A i \in 1 .. Len(t) : t[i] \in Message
    OBVIOUS
  <2>2. \A i \in 1 .. Len(t) : Frame(t[i]) \in Seq(Byte)
    BY <2>1, FrameFacts
  <2> QED BY <2>1, <2>2
<1>2. F(s) \in Seq(Seq(Byte)) /\ Frames(s) = FlattenSeq(F(s))
  BY <1>1 DEF Frames
<1>3. Frames(s) \in Seq(Byte)
  <2> HIDE DEF F
  <2> QED BY <1>2, FlattenType
<1>4. ASSUME s = << >> PROVE Frames(s) = << >>
  <2>1. F(s) = << >>
    BY <1>4
  <2> HIDE DEF F
  <2> QED BY <1>2, <2>1 DEF FlattenSeq
<1>5. ASSUME s # << >> PROVE Frames(s) = Frame(Head(s)) \o Frames(Tail(s))
  <2>1. Tail(s) \in Seq(Message) /\ Len(Tail(s)) = Len(s) - 1 /\ Len(s) \in Nat \ {0}
    BY <1>5
  <2>2. \A i \in 1 .. Len(s) - 1 : Tail(s)[i] = s[i + 1]
    BY <1>5
  <2>3. /\ F(s) # << >> /\ Head(F(s)) = Frame(Head(s))
        /\ Tail(F(s)) \in Seq(Seq(Byte)) /\ Len(Tail(F(s))) = Len(s) - 1
        /\ \A i \in 1 .. Len(s) - 1 : Tail(F(s))[i] = F(s)[i + 1]
    BY <1>1, <1>5, <2>1
  <2>4. Tail(F(s)) = F(Tail(s))
    <3>1. /\ F(Tail(s)) \in Seq(Seq(Byte)) /\ Len(F(Tail(s))) = Len(s) - 1
          /\ \A i \in 1 .. Len(s) - 1 : F(Tail(s))[i] = Frame(Tail(s)[i])
      BY <1>1, <2>1
    <3>2. \A i \in 1 .. Len(s) - 1 : Tail(F(s))[i] = F(Tail(s))[i]
      BY <1>1, <2>1, <2>2, <2>3, <3>1
    <3> HIDE DEF F
    <3> QED BY <2>3, <3>1, <3>2, SeqEqual
  <2> HIDE DEF F
  <2>5. FlattenSeq(F(s)) = Head(F(s)) \o FlattenSeq(Tail(F(s)))
    BY <1>2, <2>3, FlattenHead
  <2>6. Frames(Tail(s)) = FlattenSeq(F(Tail(s)))
    BY DEF Frames, F
  <2> QED BY <1>2, <2>3, <2>4, <2>5, <2>6
<1>6. ASSUME NEW m \in Message PROVE Frames(Append(s, m)) = Frames(s) \o Frame(m)
  <2>1. /\ Append(s, m) \in Seq(Message) /\ Len(Append(s, m)) = Len(s) + 1 /\ Len(s) \in Nat
        /\ \A i \in 1 .. Len(s) : Append(s, m)[i] = s[i]
        /\ Append(s, m)[Len(s) + 1] = m
    OBVIOUS
  <2>2. Frame(m) \in Seq(Byte)
    BY FrameFacts
  <2>3. F(Append(s, m)) = Append(F(s), Frame(m))
    <3> DEFINE L == F(Append(s, m))
               R == Append(F(s), Frame(m))
    <3>1. /\ L \in Seq(Seq(Byte)) /\ Len(L) = Len(s) + 1
          /\ \A i \in 1 .. Len(s) + 1 : L[i] = Frame(Append(s, m)[i])
      BY <1>1, <2>1
    <3>2. /\ R \in Seq(Seq(Byte)) /\ Len(R) = Len(s) + 1
          /\ \A i \in 1 .. Len(s) : R[i] = Frame(s[i])
          /\ R[Len(s) + 1] = Frame(m)
      <4>1. /\ F(s) \in Seq(Seq(Byte)) /\ Len(F(s)) = Len(s)
            /\ \A i \in 1 .. Len(s) : F(s)[i] = Frame(s[i])
        BY <1>1
      <4> HIDE DEF F
      <4>2. /\ Append(F(s), Frame(m)) \in Seq(Seq(Byte))
            /\ Len(Append(F(s), Frame(m))) = Len(F(s)) + 1
            /\ \A i \in 1 .. Len(F(s)) : Append(F(s), Frame(m))[i] = F(s)[i]
            /\ Append(F(s), Frame(m))[Len(F(s)) + 1] = Frame(m)
        BY <2>2, <4>1, AppendProperties
      <4> QED BY <4>1, <4>2
    <3> HIDE DEF L, R
    <3>3. \A i \in 1 .. Len(s) + 1 : L[i] = R[i]
      BY <2>1, <3>1, <3>2
    <3>4. L = R
      BY <3>1, <3>2, <3>3, SeqEqual
    <3> QED BY <3>4 DEF L, R
  <2> HIDE DEF F
  <2>4. FlattenSeq(Append(F(s), Frame(m))) = FlattenSeq(F(s)) \o Frame(m)
    BY <1>2, <1>3, <2>2, FlattenAppend
  <2>5. Frames(Append(s, m)) = FlattenSeq(F(Append(s, m)))
    BY DEF Frames, F
  <2> QED BY <1>2, <2>3, <2>4, <2>5
<1> QED BY <1>3, <1>4, <1>5, <1>6

-----------------------------------------------------------------------------
(***************************************************************************)
(* The inductive invariant: what the read under way has asked for ends     *)
(* where its message ends.                                                 *)
(***************************************************************************)

\* t starts with s.
Begins(s, t) == Len(s) <= Len(t) /\ \A i \in 1 .. Len(s) : s[i] = t[i]

Delivers ==
    /\ Begins(buffer \o stream, Frames(Inbox))
    /\ ~closed => buffer \o stream = Frames(Inbox)

\* The header first, and then the message it announces.
AsksForOne ==
    Len(buffer) + wanted =
        IF Len(buffer) < HeaderSize THEN HeaderSize ELSE WholeMessageLength(buffer)

\* A read under way has asked for something, by its completion condition.
AsksForMore == wanted = Remaining(buffer) /\ wanted # 0

IInv ==
    /\ TypeOK
    /\ Len(received) <= Len(sent)
    /\ reading => Delivers /\ AsksForOne /\ AsksForMore
    /\ EndsForAReason

LEMMA SuffixAppend ==
    ASSUME NEW s \in Seq(Message), NEW n \in Nat, n <= Len(s), NEW m \in Message
    PROVE  SubSeq(Append(s, m), n + 1, Len(Append(s, m))) = Append(SubSeq(s, n + 1, Len(s)), m)
<1>1. /\ Append(s, m) \in Seq(Message) /\ Len(Append(s, m)) = Len(s) + 1 /\ Len(s) \in Nat
      /\ \A i \in 1 .. Len(s) : Append(s, m)[i] = s[i]
      /\ Append(s, m)[Len(s) + 1] = m
  OBVIOUS
<1>2. PICK a \in Seq(Message) : a = Append(s, m)
  BY <1>1
<1>3. PICK l \in Nat : l = Len(s) - n
  BY <1>1
<1>4. /\ SubSeq(a, n + 1, Len(a)) \in Seq(Message) /\ Len(SubSeq(a, n + 1, Len(a))) = l + 1
      /\ \A i \in 1 .. l + 1 : SubSeq(a, n + 1, Len(a))[i] = a[n + i]
  BY <1>1, <1>2, <1>3
<1>5. /\ SubSeq(s, n + 1, Len(s)) \in Seq(Message) /\ Len(SubSeq(s, n + 1, Len(s))) = l
      /\ \A i \in 1 .. l : SubSeq(s, n + 1, Len(s))[i] = s[n + i]
  BY <1>1, <1>3
<1>6. PICK b \in Seq(Message) : b = SubSeq(s, n + 1, Len(s))
  BY <1>5
<1>7. /\ Append(b, m) \in Seq(Message) /\ Len(Append(b, m)) = l + 1
      /\ \A i \in 1 .. l : Append(b, m)[i] = s[n + i]
      /\ Append(b, m)[l + 1] = m
  BY <1>5, <1>6
<1>8. ASSUME NEW i \in 1 .. l + 1
      PROVE  SubSeq(a, n + 1, Len(a))[i] = Append(b, m)[i]
  <2>1. CASE i = l + 1
    <3>1. n + i = Len(s) + 1
      BY <1>1, <1>3, <2>1
    <3> QED BY <1>1, <1>2, <1>4, <1>7, <2>1, <3>1
  <2>2. CASE i # l + 1
    <3>1. i \in 1 .. l /\ n + i \in 1 .. Len(s)
      BY <1>1, <1>3, <2>2
    <3> QED BY <1>1, <1>2, <1>4, <1>7, <3>1
  <2> QED BY <2>1, <2>2
<1>9. SubSeq(a, n + 1, Len(a)) = Append(b, m)
  BY <1>4, <1>7, <1>8, SeqEqual
<1> QED BY <1>2, <1>6, <1>9

LEMMA InboxFacts ==
    ASSUME sent \in Seq(Message), received \in Seq(Message), Len(received) <= Len(sent)
    PROVE  /\ Inbox \in Seq(Message)
           /\ Len(Inbox) = Len(sent) - Len(received)
           /\ Inbox # << >> => /\ Head(Inbox) \in Message
                               /\ Tail(Inbox) \in Seq(Message)
                               /\ Len(received) < Len(sent)
                               /\ Tail(Inbox) = SubSeq(sent, Len(received) + 2, Len(sent))
<1>1. Len(sent) \in Nat /\ Len(received) \in Nat
  OBVIOUS
<1>2. Inbox \in Seq(Message) /\ Len(Inbox) = Len(sent) - Len(received)
  BY <1>1 DEF Inbox
<1>3. ASSUME Inbox # << >>
      PROVE  /\ Head(Inbox) \in Message /\ Tail(Inbox) \in Seq(Message)
             /\ Len(received) < Len(sent)
             /\ Tail(Inbox) = SubSeq(sent, Len(received) + 2, Len(sent))
  <2>1. Len(Inbox) \in Nat \ {0}
    BY <1>2, <1>3, EmptySeq
  <2>2. Len(received) < Len(sent)
    BY <1>1, <1>2, <2>1
  <2>3. Head(Inbox) \in Message /\ Tail(Inbox) \in Seq(Message)
    BY <1>2, <1>3
  <2>4. Tail(Inbox) = SubSeq(sent, Len(received) + 2, Len(sent))
    <3>1. /\ Len(received) + 1 \in 1 .. Len(sent) /\ Len(sent) \in Len(received) + 1 .. Len(sent)
          /\ (Len(received) + 1) + 1 = Len(received) + 2
      BY <1>1, <2>2
    <3>2. Tail(SubSeq(sent, Len(received) + 1, Len(sent)))
             = SubSeq(sent, (Len(received) + 1) + 1, Len(sent))
      BY <3>1, HeadTailOfSubSeq
    <3> QED BY <3>1, <3>2 DEF Inbox
  <2> QED BY <2>2, <2>3, <2>4
<1> QED BY <1>2, <1>3

\* The property of the runs in these words.
LEMMA StreamIs ==
    ASSUME TypeOK, Len(received) <= Len(sent)
    PROVE  StreamIsInbox <=> (reading => Delivers)
<1>1. Inbox \in Seq(Message)
  BY InboxFacts DEF TypeOK
<1>2. PICK f \in Seq(Byte) : f = Frames(Inbox)
  BY <1>1, FramesFacts
<1>3. PICK x \in Seq(Byte) : x = buffer \o stream
  <2>1. buffer \in Seq(Byte) /\ stream \in Seq(Byte)
    BY DEF TypeOK
  <2>2. buffer \o stream \in Seq(Byte)
    BY <2>1
  <2> QED BY <2>2
<1>4. IsPrefix(x, f) <=> Begins(x, f)
  <2>1. Len(x) \in Nat /\ Len(f) \in Nat
    OBVIOUS
  <2>2. ASSUME Len(x) <= Len(f)
        PROVE  SubSeq(x, 1, Len(x)) = SubSeq(f, 1, Len(x)) <=> \A i \in 1 .. Len(x) : x[i] = f[i]
    <3>1. /\ SubSeq(x, 1, Len(x)) \in Seq(Byte) /\ Len(SubSeq(x, 1, Len(x))) = Len(x)
          /\ \A i \in 1 .. Len(x) : SubSeq(x, 1, Len(x))[i] = x[i]
      BY <2>1
    <3>2. /\ SubSeq(f, 1, Len(x)) \in Seq(Byte) /\ Len(SubSeq(f, 1, Len(x))) = Len(x)
          /\ \A i \in 1 .. Len(x) : SubSeq(f, 1, Len(x))[i] = f[i]
      BY <2>1, <2>2
    <3>3. PICK s \in Seq(Byte), t \in Seq(Byte) :
              s = SubSeq(x, 1, Len(x)) /\ t = SubSeq(f, 1, Len(x))
      BY <3>1, <3>2
    <3>4. s = t <=> \A i \in 1 .. Len(x) : s[i] = t[i]
      BY <3>1, <3>2, <3>3, SeqEqual
    <3> QED BY <3>1, <3>2, <3>3, <3>4
  <2> QED BY <2>1, <2>2 DEF IsPrefix, Begins
<1>5. x = f => Begins(x, f)
  BY DEF Begins
<1>6. StreamIsInbox <=> (reading => IF closed THEN IsPrefix(x, f) ELSE x = f)
  BY <1>2, <1>3 DEF StreamIsInbox, Frames
<1>7. Delivers <=> (Begins(x, f) /\ (~closed => x = f))
  BY <1>2, <1>3 DEF Delivers
<1> QED BY <1>4, <1>5, <1>6, <1>7

-----------------------------------------------------------------------------
(***************************************************************************)
(* A read                                                                  *)
(***************************************************************************)

\* What there is of the message after n bytes more, and what is left of the stream.
Taken(n) == buffer \o SubSeq(stream, 1, n)
Rest(n) == SubSeq(stream, n + 1, Len(stream))

LEMMA TakenFacts ==
    ASSUME buffer \in Seq(Byte), stream \in Seq(Byte), NEW n \in 1 .. Len(stream)
    PROVE  /\ Taken(n) \in Seq(Byte) /\ Len(Taken(n)) = Len(buffer) + n
           /\ Rest(n) \in Seq(Byte) /\ Len(Rest(n)) = Len(stream) - n
           /\ buffer \o stream \in Seq(Byte)
           /\ Len(buffer \o stream) = Len(Taken(n)) + Len(Rest(n))
           /\ \A i \in 1 .. Len(Taken(n)) : Taken(n)[i] = (buffer \o stream)[i]
           /\ \A i \in 1 .. Len(Rest(n)) : Rest(n)[i] = (buffer \o stream)[Len(Taken(n)) + i]
           /\ Taken(n) \o Rest(n) = buffer \o stream
<1>1. Len(stream) \in Nat /\ Len(buffer) \in Nat
  OBVIOUS
<1>2. PICK h \in Seq(Byte) :
         /\ h = SubSeq(stream, 1, n) /\ Len(h) = n /\ \A i \in 1 .. n : h[i] = stream[i]
  <2>1. /\ SubSeq(stream, 1, n) \in Seq(Byte) /\ Len(SubSeq(stream, 1, n)) = n
        /\ \A i \in 1 .. n : SubSeq(stream, 1, n)[i] = stream[i]
    BY <1>1
  <2> QED BY <2>1
<1>3. PICK r \in Seq(Byte) :
         /\ r = Rest(n) /\ Len(r) = Len(stream) - n
         /\ \A i \in 1 .. Len(stream) - n : r[i] = stream[n + i]
  <2>1. /\ Rest(n) \in Seq(Byte) /\ Len(Rest(n)) = Len(stream) - n
        /\ \A i \in 1 .. Len(stream) - n : Rest(n)[i] = stream[n + i]
    BY <1>1 DEF Rest
  <2> QED BY <2>1
<1>4. PICK t \in Seq(Byte) :
         /\ t = Taken(n) /\ Len(t) = Len(buffer) + n
         /\ \A i \in 1 .. Len(buffer) + n : t[i] = IF i <= Len(buffer) THEN buffer[i] ELSE h[i - Len(buffer)]
  <2>1. /\ buffer \o h \in Seq(Byte) /\ Len(buffer \o h) = Len(buffer) + n
        /\ \A i \in 1 .. Len(buffer) + n :
              (buffer \o h)[i] = IF i <= Len(buffer) THEN buffer[i] ELSE h[i - Len(buffer)]
    BY <1>2, ConcatProperties
  <2>2. Taken(n) = buffer \o h
    BY <1>2 DEF Taken
  <2> QED BY <2>1, <2>2
<1>5. PICK x \in Seq(Byte) :
         /\ x = buffer \o stream /\ Len(x) = Len(buffer) + Len(stream)
         /\ \A i \in 1 .. Len(buffer) + Len(stream) :
               x[i] = IF i <= Len(buffer) THEN buffer[i] ELSE stream[i - Len(buffer)]
  <2>1. /\ buffer \o stream \in Seq(Byte) /\ Len(buffer \o stream) = Len(buffer) + Len(stream)
        /\ \A i \in 1 .. Len(buffer) + Len(stream) :
              (buffer \o stream)[i] = IF i <= Len(buffer) THEN buffer[i] ELSE stream[i - Len(buffer)]
    BY ConcatProperties
  <2> QED BY <2>1
<1>6. ASSUME NEW i \in 1 .. Len(t) PROVE t[i] = x[i]
  <2>1. i \in 1 .. Len(buffer) + n /\ i \in 1 .. Len(buffer) + Len(stream)
    BY <1>1, <1>4
  <2>2. CASE i <= Len(buffer)
    BY <1>4, <1>5, <2>1, <2>2
  <2>3. CASE ~(i <= Len(buffer))
    <3>1. i - Len(buffer) \in 1 .. n
      BY <1>1, <2>1, <2>3
    <3> QED BY <1>2, <1>4, <1>5, <2>1, <2>3, <3>1
  <2> QED BY <2>2, <2>3
<1>7. ASSUME NEW i \in 1 .. Len(r) PROVE r[i] = x[Len(t) + i]
  <2>1. /\ i \in 1 .. Len(stream) - n
        /\ Len(t) + i \in 1 .. Len(buffer) + Len(stream)
        /\ ~(Len(t) + i <= Len(buffer))
        /\ (Len(t) + i) - Len(buffer) = n + i
    BY <1>1, <1>3, <1>4
  <2> QED BY <1>3, <1>5, <2>1
<1>8. Len(x) = Len(t) + Len(r)
  BY <1>1, <1>3, <1>4, <1>5
<1>9. t \o r = x
  <2>1. PICK y \in Seq(Byte) :
           /\ y = t \o r /\ Len(y) = Len(t) + Len(r)
           /\ \A i \in 1 .. Len(t) + Len(r) : y[i] = IF i <= Len(t) THEN t[i] ELSE r[i - Len(t)]
    <3>1. /\ t \o r \in Seq(Byte) /\ Len(t \o r) = Len(t) + Len(r)
          /\ \A i \in 1 .. Len(t) + Len(r) : (t \o r)[i] = IF i <= Len(t) THEN t[i] ELSE r[i - Len(t)]
      BY ConcatProperties
    <3> QED BY <3>1
  <2>2. ASSUME NEW i \in 1 .. Len(y) PROVE y[i] = x[i]
    <3>0. Len(t) \in Nat /\ Len(r) \in Nat
      OBVIOUS
    <3>1. CASE i <= Len(t)
      <4>1. i \in 1 .. Len(t) /\ i \in 1 .. Len(t) + Len(r)
        BY <2>1, <3>0, <3>1
      <4> QED BY <1>6, <2>1, <3>1, <4>1
    <3>2. CASE ~(i <= Len(t))
      <4>1. i - Len(t) \in 1 .. Len(r) /\ Len(t) + (i - Len(t)) = i /\ i \in 1 .. Len(t) + Len(r)
        BY <2>1, <3>0, <3>2
      <4> QED BY <1>7, <2>1, <3>2, <4>1
    <3> QED BY <3>1, <3>2
  <2>3. y = x
    BY <1>8, <2>1, <2>2, SeqEqual
  <2> QED BY <2>1, <2>3
<1> QED BY <1>3, <1>4, <1>5, <1>6, <1>7, <1>8, <1>9

\* A read never takes more than its message.
LEMMA OneMessage ==
    ASSUME IInv, reading, NEW n \in 1 .. Len(stream), n <= wanted
    PROVE  /\ Inbox # << >>
           /\ Len(Taken(n)) <= Len(Frame(Head(Inbox)))
           /\ \A i \in 1 .. Len(Taken(n)) : Taken(n)[i] = Frame(Head(Inbox))[i]
           /\ Len(Taken(n)) >= HeaderSize =>
                 /\ WholeMessageLength(Taken(n)) = Len(Frame(Head(Inbox)))
                 /\ MessageType(Taken(n)) = Head(Inbox).type
<1>1. /\ buffer \in Seq(Byte) /\ stream \in Seq(Byte) /\ wanted \in Nat
      /\ sent \in Seq(Message) /\ received \in Seq(Message) /\ Len(received) <= Len(sent)
  BY DEF IInv, TypeOK
<1>2. PICK q \in Seq(Message) : q = Inbox
  BY <1>1, InboxFacts
<1>3. PICK x \in Seq(Byte), f \in Seq(Byte) :
         x = buffer \o stream /\ f = Frames(q)
  <2>1. buffer \o stream \in Seq(Byte)
    BY <1>1
  <2>2. Frames(q) \in Seq(Byte)
    BY FramesFacts
  <2> QED BY <2>1, <2>2
<1>4. Len(x) <= Len(f) /\ \A i \in 1 .. Len(x) : x[i] = f[i]
  BY <1>2, <1>3 DEF IInv, Delivers, Begins
<1>5. PICK t \in Seq(Byte) :
         /\ t = Taken(n) /\ Len(t) = Len(buffer) + n /\ Len(t) <= Len(x)
         /\ \A i \in 1 .. Len(t) : t[i] = x[i]
  BY <1>1, <1>3, TakenFacts
<1>6. Len(buffer) \in Nat /\ Len(x) \in Nat /\ Len(f) \in Nat /\ Len(stream) \in Nat
  BY <1>1
<1>7. q # << >>
  BY <1>4, <1>5, <1>6, FramesFacts, <1>3, EmptySeq
<1>8. Head(q) \in Message /\ Tail(q) \in Seq(Message)
  BY <1>7
<1>9. PICK m \in Message, g \in Seq(Byte), z \in Seq(Byte) :
         /\ m = Head(q) /\ g = Frame(m) /\ z = Frames(Tail(q)) /\ f = g \o z
  BY <1>3, <1>7, <1>8, FrameFacts, FramesFacts
<1>10. /\ Len(g) = HeaderSize + Len(m.payload) /\ Len(m.payload) \in Nat
       /\ MessageType(g) = m.type /\ PayloadSize(g) = Len(m.payload)
  BY <1>9, FrameFacts, MessageParts
<1>11. \A i \in 1 .. Len(g) : f[i] = g[i]
  BY <1>9, ConcatProperties
<1>12. Len(t) <= Len(g)
  <2>1. CASE Len(buffer) < HeaderSize
    BY <1>1, <1>5, <1>6, <1>10, <2>1, SMTT(30) DEF IInv, AsksForOne, HeaderSize
  <2>2. CASE ~(Len(buffer) < HeaderSize)
    <3>1. ASSUME NEW i \in 1 .. 6 PROVE buffer[i] = g[i]
      <4>1. i \in 1 .. Len(buffer) /\ i \in 1 .. Len(x) /\ i \in 1 .. Len(g)
        BY <1>5, <1>6, <1>10, <2>2, SMTT(30) DEF HeaderSize
      <4>2. x[i] = buffer[i]
        BY <1>1, <1>3, <4>1, ConcatProperties
      <4> QED BY <1>4, <1>11, <4>1, <4>2
    <3>2. WholeMessageLength(buffer) = Len(g)
      <4>1. PICK b : b = buffer
        OBVIOUS
      <4>2. PayloadSize(b) = PayloadSize(g)
        BY <3>1, <4>1, HeaderSays
      <4> QED BY <1>10, <4>1, <4>2 DEF WholeMessageLength, HeaderSize
    <3> QED BY <1>1, <1>5, <1>6, <1>10, <2>2, <3>2 DEF IInv, AsksForOne, HeaderSize
  <2> QED BY <2>1, <2>2
<1>13. ASSUME NEW i \in 1 .. Len(t) PROVE t[i] = g[i]
  <2>1. i \in 1 .. Len(x) /\ i \in 1 .. Len(g)
    BY <1>5, <1>6, <1>10, <1>12, SMTT(30) DEF HeaderSize
  <2> QED BY <1>4, <1>5, <1>11, <2>1
<1>14. ASSUME Len(t) >= HeaderSize
       PROVE  WholeMessageLength(t) = Len(g) /\ MessageType(t) = m.type
  <2>1. \A i \in 1 .. 6 : t[i] = g[i]
    BY <1>5, <1>6, <1>13, <1>14 DEF HeaderSize
  <2>2. MessageType(t) = MessageType(g) /\ PayloadSize(t) = PayloadSize(g)
    BY <2>1, HeaderSays
  <2> QED BY <1>10, <2>2 DEF WholeMessageLength, HeaderSize
<1> QED BY <1>2, <1>5, <1>7, <1>9, <1>12, <1>13, <1>14

\* When all of it has been taken, what is processed is the message, and what is left
\* of the stream starts with the next one.
LEMMA WholeMessage ==
    ASSUME IInv, reading, NEW n \in 1 .. Len(stream), n <= wanted,
           Len(Taken(n)) = Len(Frame(Head(Inbox)))
    PROVE  /\ [type |-> MessageType(Taken(n)),
               payload |-> SubSeq(Taken(n), HeaderSize + 1, Len(Taken(n)))] = Head(Inbox)
           /\ Begins(Rest(n), Frames(Tail(Inbox)))
           /\ ~closed => Rest(n) = Frames(Tail(Inbox))
<1>1. /\ buffer \in Seq(Byte) /\ stream \in Seq(Byte)
      /\ sent \in Seq(Message) /\ received \in Seq(Message) /\ Len(received) <= Len(sent)
  BY DEF IInv, TypeOK
<1>2. PICK q \in Seq(Message) : q = Inbox
  BY <1>1, InboxFacts
<1>3. q # << >>
  BY <1>2, OneMessage
<1>4. PICK m \in Message, g \in Seq(Byte), z \in Seq(Byte) :
         m = Head(q) /\ g = Frame(m) /\ z = Frames(Tail(q)) /\ Frames(q) = g \o z
  <2>1. Head(q) \in Message /\ Tail(q) \in Seq(Message)
    BY <1>3
  <2> QED BY <1>3, <2>1, FrameFacts, FramesFacts
<1>5. PICK t \in Seq(Byte), r \in Seq(Byte), x \in Seq(Byte) :
         /\ t = Taken(n) /\ r = Rest(n) /\ x = buffer \o stream
         /\ Len(x) = Len(t) + Len(r)
         /\ \A i \in 1 .. Len(r) : r[i] = x[Len(t) + i]
         /\ t \o r = x
  BY <1>1, TakenFacts
<1>6. /\ Len(t) = Len(g) /\ \A i \in 1 .. Len(g) : t[i] = g[i]
      /\ MessageType(t) = m.type
      /\ Len(g) = HeaderSize + Len(m.payload) /\ Len(m.payload) \in Nat
      /\ m.payload \in Seq(Byte) /\ m = [type |-> m.type, payload |-> m.payload]
      /\ \A i \in 1 .. Len(m.payload) : g[HeaderSize + i] = m.payload[i]
  <2>1. /\ Len(g) = HeaderSize + Len(m.payload) /\ Len(m.payload) \in Nat
        /\ m.payload \in Seq(Byte) /\ m = [type |-> m.type, payload |-> m.payload]
        /\ \A i \in 1 .. Len(m.payload) : g[HeaderSize + i] = m.payload[i]
    BY <1>4, FrameFacts, MessageParts
  <2>2. /\ Len(t) = Len(g) /\ \A i \in 1 .. Len(t) : t[i] = g[i]
        /\ Len(t) >= HeaderSize => MessageType(t) = m.type
    BY <1>2, <1>4, <1>5, OneMessage
  <2>3. Len(t) >= HeaderSize
    BY <2>1, <2>2 DEF HeaderSize
  <2> QED BY <2>1, <2>2, <2>3
<1>7. t = g
  BY <1>6, SeqEqual
<1>8. SubSeq(t, HeaderSize + 1, Len(t)) = m.payload
  <2>1. PICK p \in Seq(Byte) : p = m.payload
    BY <1>6
  <2>2. PICK s \in Seq(Byte) :
           /\ s = SubSeq(t, HeaderSize + 1, Len(t)) /\ Len(s) = Len(p)
           /\ \A i \in 1 .. Len(p) : s[i] = t[HeaderSize + i]
    <3>1. HeaderSize + 1 \in Nat /\ Len(t) = HeaderSize + Len(p) /\ Len(p) \in Nat
      BY <1>6, <2>1 DEF HeaderSize
    <3>2. /\ SubSeq(t, HeaderSize + 1, Len(t)) \in Seq(Byte)
          /\ Len(SubSeq(t, HeaderSize + 1, Len(t))) = Len(p)
          /\ \A i \in 1 .. Len(p) : SubSeq(t, HeaderSize + 1, Len(t))[i] = t[HeaderSize + i]
      BY <3>1 DEF HeaderSize
    <3> QED BY <3>2
  <2>3. \A i \in 1 .. Len(p) : s[i] = p[i]
    BY <1>6, <1>7, <2>1, <2>2
  <2> QED BY <2>1, <2>2, <2>3, SeqEqual, ZenonT(30)
<1>9. Begins(r, z)
  <2>1. Len(x) <= Len(g \o z) /\ \A i \in 1 .. Len(x) : x[i] = (g \o z)[i]
    BY <1>2, <1>4, <1>5 DEF IInv, Delivers, Begins
  <2>2. Len(g) \in Nat /\ Len(z) \in Nat /\ Len(r) \in Nat
    OBVIOUS
  <2>3. /\ Len(g \o z) = Len(g) + Len(z)
        /\ \A i \in 1 .. Len(g) + Len(z) : (g \o z)[i] = IF i <= Len(g) THEN g[i] ELSE z[i - Len(g)]
    BY ConcatProperties
  <2>4. Len(r) <= Len(z)
    BY <1>5, <1>6, <2>1, <2>2, <2>3
  <2>5. ASSUME NEW i \in 1 .. Len(r) PROVE r[i] = z[i]
    <3>1. /\ Len(g) + i \in 1 .. Len(x) /\ Len(g) + i \in 1 .. Len(g) + Len(z)
          /\ ~(Len(g) + i <= Len(g)) /\ (Len(g) + i) - Len(g) = i
      BY <1>5, <1>6, <2>2, <2>4, SMTT(30)
    <3>2. r[i] = x[Len(g) + i] /\ x[Len(g) + i] = (g \o z)[Len(g) + i]
      BY <1>5, <1>6, <2>1, <3>1
    <3> QED BY <2>3, <3>1, <3>2
  <2> QED BY <2>4, <2>5 DEF Begins
<1>10. ASSUME ~closed PROVE r = z
  <2>1. g \o r = g \o z
    BY <1>2, <1>4, <1>5, <1>7, <1>10 DEF IInv, Delivers
  <2>2. \A s, u, v \in Seq(Byte) : s \o u = s \o v => u = v
    BY ConcatSimplifications
  <2> QED BY <2>1, <2>2
<1> QED BY <1>2, <1>4, <1>5, <1>6, <1>8, <1>9, <1>10

-----------------------------------------------------------------------------
(***************************************************************************)
(* The steps, each of which is also a step of the queue or changes nothing *)
(* there.                                                                  *)
(***************************************************************************)

\* The messages not yet processed, and the queue they are.
Abstract == <<Inbox, received, reading>>

LEMMA InitStep == Init => IInv /\ Queue!Init
<1> SUFFICES ASSUME Init PROVE IInv /\ Queue!Init
  OBVIOUS
<1>1. Inbox = << >>
  BY DEF Init, Inbox
<1>2. TypeOK
  <2>1. Len(buffer) = 0 /\ wanted = 6
    BY DEF Init, HeaderSize
  <2>2. Len(buffer) + wanted <= MaxLength
    BY <2>1, Parameters
  <2>3. << >> \in Seq(Byte) /\ << >> \in Seq(Message)
    OBVIOUS
  <2>4. /\ stream = << >> /\ buffer = << >> /\ sent = << >> /\ received = << >>
        /\ closed = FALSE /\ reading = TRUE
    BY DEF Init
  <2>5. {closed, reading} \subseteq BOOLEAN
    BY <2>4
  <2>6. wanted \in Nat
    BY <2>1
  <2> QED BY <2>2, <2>3, <2>4, <2>5, <2>6, Zenon DEF TypeOK
<1>3. Delivers
  <2>1. << >> \in Seq(Message)
    OBVIOUS
  <2>2. Frames(<< >>) = << >>
    BY <2>1, FramesFacts
  <2>3. buffer \o stream = << >>
    BY DEF Init
  <2> QED BY <1>1, <2>2, <2>3 DEF Delivers, Begins
<1>4. AsksForOne /\ AsksForMore
  BY DEF Init, AsksForOne, AsksForMore, Remaining, HeaderSize
<1>5. EndsForAReason
  BY DEF Init, EndsForAReason
<1>6. Len(received) <= Len(sent)
  BY DEF Init
<1>7. Queue!Init
  BY <1>1 DEF Init, Queue!Init
<1> QED BY <1>2, <1>3, <1>4, <1>5, <1>6, <1>7 DEF IInv

\* A message is added at the end of the stream and at the end of the queue.
LEMMA SendStep ==
    ASSUME IInv, NEW m \in Message, Send(m)
    PROVE  IInv' /\ Queue!Send(m)
<1>1. /\ stream \in Seq(Byte) /\ buffer \in Seq(Byte)
      /\ sent \in Seq(Message) /\ received \in Seq(Message) /\ Len(received) <= Len(sent)
  BY DEF IInv, TypeOK
<1>2. /\ ~closed /\ stream' = stream \o Frame(m) /\ sent' = Append(sent, m)
      /\ closed' = closed /\ buffer' = buffer /\ wanted' = wanted
      /\ reading' = reading /\ received' = received
  BY DEF Send
<1>3. PICK g \in Seq(Byte) : g = Frame(m)
  BY FrameFacts
<1>4. PICK q \in Seq(Message) : q = Inbox
  BY <1>1, InboxFacts
<1>5. Inbox' = Append(q, m)
  <2>1. PICK s \in Seq(Message), n \in Nat : s = sent /\ n = Len(received) /\ n <= Len(s)
    BY <1>1
  <2>2. SubSeq(Append(s, m), n + 1, Len(Append(s, m))) = Append(SubSeq(s, n + 1, Len(s)), m)
    BY <2>1, SuffixAppend
  <2>3. Inbox' = SubSeq(Append(s, m), n + 1, Len(Append(s, m)))
    BY <1>2, <2>1 DEF Inbox
  <2>4. q = SubSeq(s, n + 1, Len(s))
    BY <1>4, <2>1 DEF Inbox
  <2> QED BY <2>2, <2>3, <2>4
<1>6. TypeOK'
  <2>1. stream' \in Seq(Byte)
    BY <1>1, <1>2, <1>3
  <2>2. sent' \in Seq(Message)
    BY <1>1, <1>2
  <2> QED BY <1>2, <2>1, <2>2 DEF IInv, TypeOK
<1>7. Len(received') <= Len(sent')
  BY <1>1, <1>2
<1>8. ASSUME reading' PROVE Delivers'
  <2>1. PICK b \in Seq(Byte), s \in Seq(Byte) : b = buffer /\ s = stream
    BY <1>1
  <2>2. b \o s = Frames(q)
    BY <1>2, <1>4, <1>8, <2>1 DEF IInv, Delivers
  <2>3. (b \o s) \o g = b \o (s \o g)
    OBVIOUS
  <2>4. Frames(Append(q, m)) = Frames(q) \o g
    BY <1>3, FramesFacts
  <2>5. b \o (s \o g) = Frames(Append(q, m))
    BY <2>2, <2>3, <2>4
  <2>6. Frames(Append(q, m)) \in Seq(Byte)
    <3>1. Append(q, m) \in Seq(Message)
      OBVIOUS
    <3> QED BY <3>1, FramesFacts
  <2>7. Frames(Inbox)' = Frames(Append(q, m)) /\ (buffer \o stream)' = b \o (s \o g)
    BY <1>2, <1>3, <1>5, <2>1
  <2>8. PICK f \in Seq(Byte) : f = Frames(Inbox)' /\ f = (buffer \o stream)'
    BY <2>5, <2>6, <2>7
  <2>9. Begins(f, f)
    BY DEF Begins
  <2> QED BY <2>8, <2>9 DEF Delivers
<1>9. (reading => AsksForOne /\ AsksForMore) => (reading => AsksForOne /\ AsksForMore)'
  BY <1>2 DEF AsksForOne, AsksForMore
<1>10. EndsForAReason'
  <2>1. q # << >> => Append(q, m) # << >> /\ Head(Append(q, m)) = Head(q)
    OBVIOUS
  <2> QED BY <1>2, <1>4, <1>5, <2>1 DEF IInv, EndsForAReason
<1>11. Queue!Send(m)
  BY <1>2, <1>4, <1>5 DEF Queue!Send
<1> QED BY <1>6, <1>7, <1>8, <1>9, <1>10, <1>11 DEF IInv

\* What a closing connection leaves is still the start of the messages.
LEMMA CloseStep == ASSUME IInv, Close PROVE IInv' /\ UNCHANGED Abstract
<1>1. /\ stream \in Seq(Byte) /\ buffer \in Seq(Byte)
      /\ sent \in Seq(Message) /\ received \in Seq(Message) /\ Len(received) <= Len(sent)
  BY DEF IInv, TypeOK
<1>2. PICK n \in 0 .. Len(stream) : stream' = SubSeq(stream, 1, n)
  BY DEF Close
<1>3. /\ closed' /\ closed' = TRUE /\ buffer' = buffer /\ wanted' = wanted /\ reading' = reading
      /\ sent' = sent /\ received' = received /\ Inbox' = Inbox
  BY DEF Close, Inbox
<1>4. PICK s \in Seq(Byte) :
         /\ s = stream' /\ Len(s) <= Len(stream) /\ \A i \in 1 .. Len(s) : s[i] = stream[i]
  <2>1. PICK t \in Seq(Byte) : t = stream /\ n \in 0 .. Len(t)
    BY <1>1
  <2>2. /\ SubSeq(t, 1, n) \in Seq(Byte) /\ Len(SubSeq(t, 1, n)) = n
        /\ \A i \in 1 .. n : SubSeq(t, 1, n)[i] = t[i]
    BY <2>1
  <2> QED BY <1>2, <2>1, <2>2
<1>5. TypeOK'
  <2>1. closed' \in BOOLEAN /\ stream' \in Seq(Byte)
    BY <1>3, <1>4
  <2> QED BY <1>3, <2>1 DEF IInv, TypeOK
<1>6. ASSUME reading PROVE Delivers'
  <2>0. PICK f : f = Frames(Inbox)
    OBVIOUS
  <2>1. PICK b \in Seq(Byte), t \in Seq(Byte) : b = buffer /\ t = stream /\ f = Frames(Inbox)
    BY <1>1, <2>0
  <2>2. Begins(b \o t, f)
    BY <1>6, <2>1 DEF IInv, Delivers
  <2>3. /\ Len(b \o t) = Len(b) + Len(t) /\ Len(b \o s) = Len(b) + Len(s)
        /\ \A i \in 1 .. Len(b) + Len(t) : (b \o t)[i] = IF i <= Len(b) THEN b[i] ELSE t[i - Len(b)]
        /\ \A i \in 1 .. Len(b) + Len(s) : (b \o s)[i] = IF i <= Len(b) THEN b[i] ELSE s[i - Len(b)]
    BY ConcatProperties
  <2>4. Len(b) \in Nat /\ Len(t) \in Nat /\ Len(s) \in Nat /\ Len(s) <= Len(t)
    BY <1>4, <2>1
  <2>5. ASSUME NEW i \in 1 .. Len(b) + Len(s) PROVE (b \o s)[i] = f[i]
    <3>1. i \in 1 .. Len(b) + Len(t) /\ (b \o t)[i] = f[i]
      BY <2>2, <2>3, <2>4 DEF Begins
    <3>2. CASE i <= Len(b)
      BY <2>3, <3>1, <3>2
    <3>3. CASE ~(i <= Len(b))
      <4>1. i - Len(b) \in 1 .. Len(s)
        BY <2>4, <3>3
      <4> QED BY <1>4, <2>1, <2>3, <3>1, <3>3, <4>1
    <3> QED BY <3>2, <3>3
  <2>6. Frames(Inbox)' = f /\ (buffer \o stream)' = b \o s
    BY <1>3, <1>4, <2>1
  <2>7. Len(b) + Len(s) <= Len(f)
    <3>1. Len(b) + Len(t) <= Len(f)
      BY <2>2, <2>3 DEF Begins
    <3>2. Frames(Inbox) \in Seq(Byte)
      <4>1. PICK q \in Seq(Message) : q = Inbox
        BY <1>1, InboxFacts
      <4> QED BY <4>1, FramesFacts
    <3>3. Len(f) \in Nat
      BY <2>1, <3>2
    <3> QED BY <2>4, <3>1, <3>3
  <2>8. Begins(b \o s, f)
    BY <2>3, <2>5, <2>7 DEF Begins
  <2> QED BY <1>3, <2>6, <2>8 DEF Delivers
<1>7. ASSUME reading PROVE AsksForOne' /\ AsksForMore'
  BY <1>3, <1>7 DEF IInv, AsksForOne, AsksForMore
<1>8. EndsForAReason'
  BY <1>3 DEF IInv, EndsForAReason
<1> QED BY <1>3, <1>5, <1>6, <1>7, <1>8 DEF IInv, Abstract

LEMMA ReadSomeStep == ASSUME IInv, ReadSome PROVE IInv' /\ [Queue!Next]_Abstract
<1>1. /\ stream \in Seq(Byte) /\ buffer \in Seq(Byte) /\ closed' = closed /\ reading
      /\ sent \in Seq(Message) /\ received \in Seq(Message) /\ Len(received) <= Len(sent)
      /\ sent' = sent
  BY DEF IInv, TypeOK, ReadSome
<1> DEFINE message(b) ==
              [type |-> MessageType(b), payload |-> SubSeq(b, HeaderSize + 1, Len(b))]
<1>2. PICK n \in 1 .. Len(stream) :
         /\ n <= wanted
         /\ Len(Taken(n)) <= MaxLength
         /\ stream' = Rest(n)
         /\ \/ TooLong(Taken(n)) /\ Ends /\ UNCHANGED received
            \/ /\ ~TooLong(Taken(n)) /\ Complete(Taken(n))
               /\ received' = Append(received, message(Taken(n)))
               /\ IF message(Taken(n)).type \in Fatal THEN Ends ELSE DoReceiveSsl
            \/ /\ ~TooLong(Taken(n)) /\ ~Complete(Taken(n))
               /\ buffer' = Taken(n)
               /\ wanted' = Remaining(Taken(n))
               /\ UNCHANGED <<reading, received>>
  BY Zenon DEF ReadSome, Taken, Rest
<1> HIDE DEF message
<1>3. PICK q \in Seq(Message), m \in Message, g \in Seq(Byte) :
         q = Inbox /\ q # << >> /\ m = Head(q) /\ g = Frame(m)
  <2>1. PICK q \in Seq(Message) : q = Inbox /\ q # << >>
    BY <1>1, <1>2, InboxFacts, OneMessage
  <2>2. Head(q) \in Message
    BY <2>1
  <2> QED BY <2>1, <2>2, FrameFacts
<1>4. PICK t \in Seq(Byte) :
         /\ t = Taken(n) /\ Len(t) = Len(buffer) + n /\ Len(t) <= Len(g)
         /\ Len(t) >= HeaderSize =>
               WholeMessageLength(t) = Len(g) /\ MessageType(t) = m.type
  BY <1>1, <1>2, <1>3, TakenFacts, OneMessage
<1>5. stream' \in Seq(Byte)
  BY <1>1, <1>2, TakenFacts
<1>5a. Len(g) = 6 + Len(m.payload) /\ Len(m.payload) \in Nat /\ 2 * Len(m.payload) < Word
  BY <1>3, FrameFacts, MessageParts DEF HeaderSize
<1>6. Len(t) \in Nat /\ Len(g) \in Nat /\ HeaderSize = 6 /\ Len(g) >= HeaderSize
  BY <1>5a DEF HeaderSize
<1>6a. Len(t) <= Len(g)
  BY <1>4
<1>w. Len(t) < HeaderSize => Remaining(t) = HeaderSize - Len(t)
  BY DEF Remaining
<1>r. ASSUME Len(t) >= HeaderSize PROVE Remaining(t) = Len(g) - Len(t)
  <2>1. PICK v \in Nat, w \in Nat : v = Word /\ w = Word * Word /\ w >= 16 * v /\ v >= 16
    BY Parameters
  <2>2. PICK d \in Nat : d = Len(g) - Len(t)
    <3>1. Len(g) - Len(t) \in Nat
      BY <1>6, <1>6a
    <3> QED BY <3>1
  <2>3. Len(g) < v + 6
    BY <1>5a, <2>1
  <2>4. d <= Len(g)
    BY <1>6, <2>2
  <2>5. d < w
    <3>1. Len(g) \in Nat
      BY <1>6
    <3> QED BY <2>1, <2>3, <2>4, <3>1
  <2>6. d % w = d
    BY <2>5, SMTT(30)
  <2>7. Remaining(t) = d % w
    <3>1. ~(Len(t) < HeaderSize)
      BY <1>6, <1>r
    <3>2. Remaining(t) = (WholeMessageLength(t) - Len(t)) % (Word * Word)
      BY <3>1 DEF Remaining
    <3> QED BY <1>4, <1>r, <2>1, <2>2, <3>2
  <2> QED BY <2>2, <2>6, <2>7
<1>7. CASE TooLong(t) /\ Ends /\ UNCHANGED received
  <2>1. reading' = FALSE /\ buffer' = buffer /\ wanted' = wanted /\ received' = received
    BY <1>7 DEF Ends
  <2>2. Inbox' = Inbox
    BY <1>1, <2>1 DEF Inbox
  <2>3. TypeOK'
    BY <1>1, <1>5, <2>1 DEF IInv, TypeOK
  <2>4. Len(Frame(Head(Inbox))) > MaxLength
    BY <1>3, <1>4, <1>7 DEF TooLong
  <2>5. EndsForAReason'
    BY <1>3, <2>2, <2>4 DEF EndsForAReason
  <2>6. Queue!Refuse
    BY <1>1, <1>3, <2>1, <2>2 DEF Queue!Refuse
  <2> QED BY <1>1, <2>1, <2>3, <2>5, <2>6 DEF IInv, Queue!Next
<1>8. CASE /\ ~TooLong(t) /\ Complete(t)
           /\ received' = Append(received, message(t))
           /\ IF message(t).type \in Fatal THEN Ends ELSE DoReceiveSsl
  <2>1. Len(t) = Len(g)
    <3>1. Len(t) >= HeaderSize
      <4>1. CASE Len(t) = MaxLength
        BY <1>6, <4>1, Parameters
      <4>2. CASE Remaining(t) = 0
        <5>1. PICK k \in Nat : k = Len(t)
          BY <1>6
        <5>2. ~(k < 6)
          <6>1. k < 6 => 6 - k = 0
            BY <1>w, <4>2, <5>1 DEF HeaderSize
          <6> QED BY <6>1
        <5> QED BY <5>1, <5>2 DEF HeaderSize
      <4> QED BY <1>8, <4>1, <4>2 DEF Complete
    <3>2. WholeMessageLength(t) = Len(g) /\ Len(g) <= MaxLength
      BY <1>4, <1>6, <1>8, <3>1, Parameters DEF TooLong
    <3>3. CASE Len(t) = MaxLength
      BY <1>4, <1>6, <3>2, <3>3, Parameters
    <3>4. CASE Remaining(t) = 0
      BY <1>6, <1>r, <3>1, <3>4
    <3> QED BY <1>8, <3>3, <3>4 DEF Complete
  <2>2. PICK z \in Seq(Message) : z = Tail(q)
    <3>1. q # << >>
      BY <1>3
    <3>2. Tail(q) \in Seq(Message)
      BY <3>1
    <3> QED BY <3>2
  <2>3. /\ message(t) = m
        /\ Begins(stream', Frames(z))
        /\ ~closed => stream' = Frames(z)
    BY <1>1, <1>2, <1>3, <1>4, <2>1, <2>2, WholeMessage DEF message
  <2>4. received' = Append(received, m) /\ received' \in Seq(Message)
        /\ Len(received') = Len(received) + 1
    BY <1>1, <1>8, <2>3
  <2>5. Len(received) < Len(sent) /\ Inbox' = z
    <3>1. /\ Len(received) < Len(sent)
          /\ z = SubSeq(sent, Len(received) + 2, Len(sent))
      BY <1>1, <1>3, <2>2, InboxFacts
    <3>2. (Len(received) + 1) + 1 = Len(received) + 2
      BY <1>1
    <3> QED BY <1>1, <2>4, <3>1, <3>2 DEF Inbox
  <2>6. Len(received') <= Len(sent')
    BY <1>1, <2>4, <2>5
  <2>7. Queue!Receive \/ ~(reading' \in BOOLEAN)
    BY <1>1, <1>3, <2>2, <2>4, <2>5 DEF Queue!Receive
  <2>8. CASE m.type \in Fatal
    <3>1. reading' = FALSE /\ buffer' = buffer /\ wanted' = wanted
      BY <1>8, <2>3, <2>8 DEF Ends
    <3>2. TypeOK'
      BY <1>1, <1>5, <2>4, <3>1 DEF IInv, TypeOK
    <3>3. received' # << >> /\ Last(received') = m
      <4>1. PICK a \in Seq(Message) : a = received
        BY <1>1
      <4>2. Append(a, m) # << >> /\ Last(Append(a, m)) = m
        BY LastAppended
      <4> QED BY <2>4, <4>1, <4>2
    <3>4. EndsForAReason'
      BY <2>8, <3>3 DEF EndsForAReason
    <3> QED BY <2>6, <2>7, <3>1, <3>2, <3>4 DEF IInv, Queue!Next
  <2>9. CASE m.type \notin Fatal
    <3>1. reading' = TRUE /\ buffer' = << >> /\ wanted' = 6
      BY <1>8, <2>3, <2>9 DEF DoReceiveSsl, HeaderSize
    <3>2. TypeOK'
      <4>1. << >> \in Seq(Byte) /\ Len(<< >>) + 6 <= MaxLength
        BY Parameters
      <4> QED BY <1>1, <1>5, <2>4, <3>1, <4>1 DEF IInv, TypeOK
    <3>3. Delivers'
      <4>1. PICK s \in Seq(Byte) : s = stream'
        BY <1>5
      <4>2. << >> \o s = s
        OBVIOUS
      <4>3. (buffer \o stream)' = stream'
        BY <3>1, <4>1, <4>2
      <4>4. Frames(Inbox)' = Frames(z)
        BY <2>5
      <4> QED BY <1>1, <2>3, <4>3, <4>4 DEF Delivers
    <3>4. AsksForOne' /\ AsksForMore'
      BY <3>1 DEF AsksForOne, AsksForMore, Remaining, HeaderSize
    <3>5. EndsForAReason'
      BY <3>1 DEF EndsForAReason
    <3> QED BY <2>6, <2>7, <3>1, <3>2, <3>3, <3>4, <3>5 DEF IInv, Queue!Next
  <2> QED BY <2>8, <2>9
<1>9. CASE /\ ~TooLong(t) /\ ~Complete(t)
           /\ buffer' = t
           /\ wanted' = Remaining(t)
           /\ UNCHANGED <<reading, received>>
  <2>1. reading' = reading /\ received' = received /\ Inbox' = Inbox
    BY <1>1, <1>9 DEF Inbox
  <2>2. /\ wanted' \in Nat
        /\ Len(t) + wanted' = IF Len(t) < HeaderSize THEN HeaderSize ELSE WholeMessageLength(t)
    <3>1. CASE Len(t) < HeaderSize
      BY <1>6, <1>9, <3>1 DEF Remaining
    <3>2. CASE ~(Len(t) < HeaderSize)
      <4>1. WholeMessageLength(t) = Len(g) /\ wanted' = Len(g) - Len(t)
        BY <1>4, <1>6, <1>9, <1>r, <3>2
      <4> QED BY <1>4, <1>6, <3>2, <4>1
    <3> QED BY <3>1, <3>2
  <2>3. Len(t) + wanted' <= MaxLength
    <3>1. CASE Len(t) < HeaderSize
      BY <1>6, <2>2, <3>1, Parameters
    <3>2. CASE ~(Len(t) < HeaderSize)
      BY <1>4, <1>6, <1>9, <2>2, <3>2, Parameters DEF TooLong
    <3> QED BY <3>1, <3>2
  <2>4. TypeOK'
    BY <1>1, <1>5, <1>9, <2>1, <2>2, <2>3 DEF IInv, TypeOK
  <2>5. Delivers'
    <3>1. (buffer \o stream)' = Taken(n) \o Rest(n)
      BY <1>2, <1>4, <1>9
    <3>2. (buffer \o stream)' = buffer \o stream
      BY <1>1, <3>1, TakenFacts
    <3> QED BY <1>1, <2>1, <3>2 DEF IInv, Delivers
  <2>6. AsksForOne' /\ AsksForMore'
    BY <1>9, <2>2 DEF AsksForOne, AsksForMore, Complete
  <2>7. EndsForAReason'
    BY <1>1, <2>1 DEF EndsForAReason
  <2> QED BY <1>1, <2>1, <2>4, <2>5, <2>6, <2>7 DEF IInv, Abstract
<1> QED BY <1>2, <1>4, <1>7, <1>8, <1>9

\* The error only makes the read ask again for what it wanted.
LEMMA ReadFailsStep == ASSUME IInv, ReadFails PROVE IInv' /\ UNCHANGED Abstract
<1>1. /\ reading /\ wanted' = Remaining(buffer) /\ reading' = (wanted' # 0) /\ buffer' = buffer
      /\ stream' = stream /\ closed' = closed /\ sent' = sent /\ received' = received
  BY DEF ReadFails
<1>2. wanted' = wanted /\ reading' = reading
  BY <1>1 DEF IInv, TypeOK, AsksForMore
<1>3. UNCHANGED vars
  BY <1>1, <1>2 DEF vars
<1> QED BY <1>3 DEF vars, Abstract, IInv, TypeOK, Delivers, AsksForOne, AsksForMore, EndsForAReason, Inbox

LEMMA NextStep == IInv /\ [Next]_vars => IInv' /\ [Queue!Next]_(Queue!vars)
<1> SUFFICES ASSUME IInv, [Next]_vars PROVE IInv' /\ [Queue!Next]_Abstract
  BY DEF Abstract, Queue!vars
<1>1. ASSUME NEW m \in Message, Send(m) PROVE IInv' /\ [Queue!Next]_Abstract
  BY <1>1, SendStep DEF Queue!Next
<1>2. CASE Close
  BY <1>2, CloseStep
<1>3. CASE ReadSome
  BY <1>3, ReadSomeStep
<1>4. CASE ReadFails
  BY <1>4, ReadFailsStep
<1>5. CASE UNCHANGED vars
  <2>1. UNCHANGED Abstract
    BY <1>5 DEF vars, Abstract, Inbox
  <2>2. IInv'
    BY <1>5 DEF vars, IInv, TypeOK, Delivers, AsksForOne, AsksForMore, EndsForAReason, Inbox
  <2> QED BY <2>1, <2>2
<1> QED BY <1>1, <1>2, <1>3, <1>4, <1>5 DEF Next

LEMMA Invariance == Spec => []IInv
BY InitStep, NextStep, PTL DEF Spec

\* Every variable keeps its type, and a read never wants more than its buffer has
\* room for.
THEOREM TypeCorrect == Spec => []TypeOK
<1>1. IInv => TypeOK
  BY DEF IInv
<1> QED BY <1>1, Invariance, PTL

\* No byte of a message is swallowed with the one before it and none is left behind.
THEOREM BoundariesKept == Spec => []StreamIsInbox
<1>1. IInv => StreamIsInbox
  BY StreamIs DEF IInv
<1> QED BY <1>1, Invariance, PTL

\* Nothing but a fatal message or one too long ends the reading, the end of the
\* connection included.
THEOREM ReadsOn == Spec => []EndsForAReason
<1>1. IInv => EndsForAReason
  BY DEF IInv
<1> QED BY <1>1, Invariance, PTL

\* The stream, cut up by the completion condition, is a queue of messages.
THEOREM Refines == Spec => ImplementsQueue
<1>1. Init => Queue!Init
  BY InitStep
<1>2. IInv /\ [Next]_vars => [Queue!Next]_(Queue!vars)
  BY NextStep
<1> QED BY <1>1, <1>2, Invariance, PTL DEF Spec, ImplementsQueue, Queue!Spec

=============================================================================
