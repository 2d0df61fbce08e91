------------------------------- MODULE VarInt -------------------------------
(***************************************************************************)
(* mumlib2::VarInt, the numbers of a voice packet: a lead byte that says   *)
(* how many bytes there are, and the number in big-endian order.           *)
(*                                                                         *)
(* An int64_t is the tuple of its eight bytes, the highest first, in two's *)
(* complement, so that every width the code uses is exact.  No constants   *)
(* and no state: the operators are the two functions of the class.         *)
(***************************************************************************)
EXTENDS Integers, Sequences

Byte == 0 .. 255

Int64 == [1 .. 8 -> Byte]

\* The int64_t of a number: its eight bytes.
Number(n) ==
    LET high == (n \div 65536) \div 65536
    IN  <<(high \div 16777216) % 256, (high \div 65536) % 256, (high \div 256) % 256, high % 256,
          (n \div 16777216) % 256, (n \div 65536) % 256, (n \div 256) % 256, n % 256>>

\* The numbers that a uint32_t holds, and those that an int32_t does.
UInt32(n) == n \in Nat /\ n \div 65536 < 65536
Int32(n) == n \in Int /\ n \div 16777216 \in -128 .. 127

Negative(v) == v[1] >= 128

-----------------------------------------------------------------------------
(* The four short forms: form n has n bytes and the lead byte Mark[n] plus *)
(* the highest of them, which must be below Room[n].                       *)

Mark == <<0, 128, 192, 224>>
Room == <<128, 64, 32, 16>>

\* Mutant: the room beside the mark is not tested.
FitsAlways(v, n) == \A i \in 1 .. 8 - n : v[i] = 0

\* Form n holds the number v.
Fits(v, n) == v[9 - n] < Room[n] /\ \A i \in 1 .. 8 - n : v[i] = 0

\* VarInt::Encode of a number that is not negative (for one that is, it throws).
Encode(v) ==
    IF \E n \in 1 .. 4 : Fits(v, n)
      THEN LET n == CHOOSE n \in 1 .. 4 : Fits(v, n) /\ \A m \in 1 .. n - 1 : ~Fits(v, m)
           IN  [i \in 1 .. n |-> IF i = 1 THEN Mark[n] + v[9 - n] ELSE v[8 - n + i]]
      ELSE [i \in 1 .. 9 |-> IF i = 1 THEN 244 ELSE v[i - 1]]

-----------------------------------------------------------------------------
\* Byte b leads form n.
Leads(b, n) == Mark[n] <= b /\ b < Mark[n] + Room[n]

\* Mutant: the second byte replaces the bits of the lead byte.
ShortLow(buf, n) ==
    [i \in 1 .. 8 |-> IF i < 9 - n \/ (i = 9 - n /\ n > 1) THEN 0 ELSE buf[i + n - 8]]

\* The short form n at the head of buf.
Short(buf, n) ==
    [i \in 1 .. 8 |-> IF i < 9 - n THEN 0
                      ELSE IF i = 9 - n THEN buf[1] - Mark[n] ELSE buf[i + n - 8]]

\* The five-byte form is read as an int32_t, widened with its sign, and then
\* swapped as eight bytes: the four bytes end up at the top, the sign below.
Swapped32(buf) == [i \in 1 .. 8 |-> IF i <= 4 THEN buf[i + 1]
                                    ELSE IF buf[5] >= 128 THEN 255 ELSE 0]

\* Mutant: the nine-byte form is read without turning its bytes round.
Swapped64Raw(buf) == [i \in 1 .. 8 |-> buf[10 - i]]

Swapped64(buf) == [i \in 1 .. 8 |-> buf[i + 1]]

\* VarInt::parse: the number at the head of buf and the bytes it takes; none when
\* the form is one of the two that throw.
Parse(buf) ==
    CASE \E n \in 1 .. 4 : Leads(buf[1], n) ->
             LET n == CHOOSE n \in 1 .. 4 : Leads(buf[1], n)
             IN  [val |-> Short(buf, n), size |-> n]
      [] buf[1] \in 240 .. 243 -> [val |-> Swapped32(buf), size |-> 5]
      [] buf[1] \in 244 .. 247 -> [val |-> Swapped64(buf), size |-> 9]
      [] buf[1] >= 248         -> [val |-> Number(0), size |-> 0]
=============================================================================
