------------------------------ MODULE BufferPack ------------------------------
(***************************************************************************)
(* privileged/sockets/bufferpack.js, which packs and unpacks the header of *)
(* a message, and Python's struct for the same format.  A format is a      *)
(* sequence of element types, big-endian or not; repeat counts, names,     *)
(* strings and floating point are left out: no caller uses them.           *)
(***************************************************************************)
EXTENDS Integers, Sequences

CONSTANT
  Base   \* values of a byte: 256

ASSUME BaseAssumption == Base \in Nat /\ Base > 1 /\ Base % 2 = 0

Bytes == 0..(Base - 1)

\* _lenLut and _elLut: the integer types and the character.
IntTypes  == {"b", "B", "h", "H", "i", "I", "l", "L"}
LenOf(t)  == IF t \in {"b", "B", "c"} THEN 1 ELSE IF t \in {"h", "H"} THEN 2 ELSE 4
Signed(t) == t \in {"b", "h", "i", "l"}

\* How many values n bytes have: 2 ^ (8 * n).
Values(n) ==
  CASE n = 1 -> Base [] n = 2 -> Base * Base [] n = 4 -> Base * (Base * (Base * Base))

MinOf(t) == IF Signed(t) THEN -(Values(LenOf(t)) \div 2) ELSE 0
MaxOf(t) == IF Signed(t) THEN (Values(LenOf(t)) \div 2) - 1 ELSE Values(LenOf(t)) - 1

Clamp(t, v) == IF v < MinOf(t) THEN MinOf(t) ELSE IF v > MaxOf(t) THEN MaxOf(t) ELSE v

\* `&` and `>>` make a signed number of 32 bits of their operand.
ToInt32(v) == IF v >= Values(4) \div 2 THEN v - Values(4) ELSE v

\* v after i rounds of v >>= 8, which keeps the sign.
Shifted(v) ==
  LET q0 == ToInt32(v)
      q1 == q0 \div Base
      q2 == q1 \div Base
  IN <<q0, q1, q2, q2 \div Base>>

\* The rank of the byte at place p, the least significant byte first.
Rank(t, big, p) == IF big THEN LenOf(t) - p + 1 ELSE p

\* _EnInt.
EnInt(t, big, v) == [p \in 1..LenOf(t) |-> Shifted(Clamp(t, v))[Rank(t, big, p)] % Base]

\* The place of the byte of rank i.
Place(t, big, i) == IF big THEN LenOf(t) - i + 1 ELSE i

\* _DeInt.
Unsigned(t, big, a) ==
  LET byte(i) == a[Place(t, big, i)]
  IN CASE LenOf(t) = 1 -> byte(1)
       [] LenOf(t) = 2 -> byte(1) + Base * byte(2)
       [] LenOf(t) = 4 -> byte(1) + Base * (byte(2) + Base * (byte(3) + Base * byte(4)))

DeInt(t, big, a) ==
  LET rv == Unsigned(t, big, a)
  IN IF Signed(t) /\ rv >= Values(LenOf(t)) \div 2 THEN rv - Values(LenOf(t)) ELSE rv

-----------------------------------------------------------------------------

\* calcLength of the first n elements.
LengthOf(fmt, n) ==
  LET sum[i \in 0..n] == IF i = 0 THEN 0 ELSE sum[i - 1] + LenOf(fmt[i])
  IN sum[n]

\* packTo: the octets of the values, or FALSE when there are too few values.
Pack(big, fmt, values) ==
  IF Len(values) < Len(fmt) THEN FALSE
  ELSE LET octets(i) == IF fmt[i] = "c" THEN <<values[i]>> ELSE EnInt(fmt[i], big, values[i])
           packed[i \in 0..Len(fmt)] == IF i = 0 THEN <<>> ELSE packed[i - 1] \o octets(i)
       IN packed[Len(fmt)]

\* unpack: the values, or "undefined" when there are too few octets.
Unpack(big, fmt, a) ==
  IF LengthOf(fmt, Len(fmt)) > Len(a) THEN "undefined"
  ELSE [i \in 1..Len(fmt) |->
         LET first == LengthOf(fmt, i - 1)
             octets == SubSeq(a, first + 1, first + LenOf(fmt[i]))
         IN IF fmt[i] = "c" THEN octets[1] ELSE DeInt(fmt[i], big, octets)]

\* What is packed is unpacked, up to the range of its type, with either
\* endianness: the shifts of a number over 2 ^ 31 - 1 are those of a negative
\* one, and its bytes are nevertheless right.
RoundTrips(t, big, v) == DeInt(t, big, EnInt(t, big, v)) = Clamp(t, v)
=============================================================================
