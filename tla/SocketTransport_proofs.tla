------------------------ MODULE SocketTransport_proofs ------------------------
(***************************************************************************)
(* That a connection delivers what was sent.  First induction over the     *)
(* natural numbers, told as a fact about sets, and what it gives for a     *)
(* function that is defined by a recursion; then bufferpack.js, which      *)
(* unpacks what it has packed for bytes of any even number of values (TLC  *)
(* checks it for bytes of four); then the frames in the stream, and the    *)
(* reader that never loses its place among them.                           *)
(***************************************************************************)
EXTENDS SocketTransport, SequenceTheorems, WellFoundedInduction, TLAPS

\* Every set of natural numbers has a smallest element.
LEMMA Smallest ==
  ASSUME NEW S \in SUBSET Nat, S # {}
  PROVE  \E n \in S : \A m \in S : n <= m
<1> DEFINE R == OpToRel(<, Nat)
<1>1. IsWellFoundedOn(R, Nat)
  BY NatLessThanWellFounded
<1>2. PICK n \in S : \A m \in S : ~(<<m, n>> \in R)
  <2> HIDE DEF R
  <2> QED
    BY <1>1, WFMin
<1>3. \A m \in S : m < n => <<m, n>> \in R
  BY DEF OpToRel
<1>4. \A m \in S : ~(m < n)
  BY <1>2, <1>3
<1> QED
  BY <1>4

\* A set that has 0, and with n its successor, has every number up to N.
LEMMA Induct ==
  ASSUME NEW N \in Nat, NEW S, 0 \in S, \A n \in 0..(N - 1) : n \in S => n + 1 \in S
  PROVE  0..N \subseteq S
<1> SUFFICES ASSUME ~(0..N \subseteq S) PROVE FALSE
  OBVIOUS
<1> DEFINE T == {n \in 0..N : n \notin S}
<1>1. T \in SUBSET Nat /\ T # {}
  OBVIOUS
<1> HIDE DEF T
<1>2. PICK n \in T : \A m \in T : n <= m
  BY <1>1, Smallest
<1>3. n \in 0..N /\ n \notin S /\ n # 0
  BY <1>2 DEF T
<1>4. n - 1 \in S
  BY <1>2, <1>3 DEF T
<1> QED
  BY <1>3, <1>4

\* f is what it is at 0, and a step of what it is before, up to N.
Stepwise(f, N, base, step) == f[0] = base /\ \A n \in 1..N : f[n] = step[n][f[n - 1]]

\* The steps stay in T.
StepsIn(T, N, step) == \A n \in 1..N : \A x \in T : step[n][x] \in T

\* A function that is defined by what it is at 0 and by a step exists.
LEMMA Recursion ==
  ASSUME NEW N \in Nat, NEW T, NEW base \in T, NEW step, StepsIn(T, N, step)
  PROVE  \E f : f \in [0..N -> T] /\ Stepwise(f, N, base, step)
<1> DEFINE S == {n \in 0..N : \E f : f \in [0..n -> T] /\ Stepwise(f, n, base, step)}
<1>1. 0 \in S
  <2> DEFINE g == [i \in 0..0 |-> base]
  <2>1. g \in [0..0 -> T] /\ g[0] = base
    OBVIOUS
  <2> HIDE DEF g
  <2>2. Stepwise(g, 0, base, step)
    BY <2>1 DEF Stepwise
  <2> QED
    BY <2>1, <2>2
<1>2. ASSUME NEW n \in 0..(N - 1), n \in S
      PROVE  n + 1 \in S
  <2>1. PICK f : f \in [0..n -> T] /\ Stepwise(f, n, base, step)
    BY <1>2
  <2> DEFINE g == [i \in 0..(n + 1) |-> IF i <= n THEN f[i] ELSE step[n + 1][f[n]]]
  <2>2. step[n + 1][f[n]] \in T
    BY <2>1 DEF StepsIn
  <2>3. g \in [0..(n + 1) -> T]
    BY <2>1, <2>2
  <2>4. g[n + 1] = step[n + 1][f[n]] /\ \A i \in 0..n : g[i] = f[i]
    BY <2>1
  <2> HIDE DEF g
  <2>5. g[0] = base
    BY <2>1, <2>4 DEF Stepwise
  <2>6. ASSUME NEW i \in 1..(n + 1)
        PROVE  g[i] = step[i][g[i - 1]]
    <3>1. CASE i = n + 1
      BY <2>4, <3>1
    <3>2. CASE i \in 1..n
      BY <2>1, <2>4, <3>2 DEF Stepwise
    <3> QED
      BY <3>1, <3>2
  <2>7. Stepwise(g, n + 1, base, step)
    BY <2>5, <2>6 DEF Stepwise
  <2> QED
    BY <2>3, <2>7
<1> HIDE DEF S
<1>3. 0..N \subseteq S
  BY <1>1, <1>2, Induct
<1>4. N \in S
  BY <1>3
<1> QED
  BY <1>4 DEF S

\* It is the only one.
LEMMA OneSolution ==
  ASSUME NEW N \in Nat, NEW base, NEW step, NEW f, NEW g,
         Stepwise(f, N, base, step), Stepwise(g, N, base, step)
  PROVE  \A n \in 0..N : f[n] = g[n]
<1> DEFINE S == {n \in 0..N : f[n] = g[n]}
<1>1. ASSUME NEW n \in 0..(N - 1), n \in S
      PROVE  n + 1 \in S
  BY <1>1 DEF Stepwise
<1>2. 0 \in S
  BY DEF Stepwise
<1> HIDE DEF S
<1>3. 0..N \subseteq S
  BY <1>1, <1>2, Induct
<1> QED
  BY <1>3 DEF S
-----------------------------------------------------------------------------

\* A product keeps the order of its factors.
LEMMA Monotone ==
  ASSUME NEW a \in Int, NEW b \in Int, NEW c \in Nat, a <= b
  PROVE  c * a <= c * b
OBVIOUS

\* One round of the loop of _EnInt takes the last digit off.
LEMMA Digit ==
  ASSUME NEW a \in Int
  PROVE  /\ a \div Base \in Int /\ a % Base \in Bytes
         /\ a = Base * (a \div Base) + (a % Base)
BY BaseAssumption DEF Bytes

\* A number of n + 1 digits has n without the last; a negative one stays so.
LEMMA Shorter ==
  ASSUME NEW a \in Int, NEW c \in Nat
  PROVE  /\ 0 <= a /\ a < Base * c => 0 <= a \div Base /\ a \div Base < c
         /\ -(Base * c) <= a /\ a < 0 => -c <= a \div Base /\ a \div Base < 0
<1> DEFINE q == a \div Base
           r == a % Base
<1>1. q \in Int /\ r \in 0..(Base - 1) /\ a = Base * q + r
  BY Digit DEF Bytes
<1> HIDE DEF q, r
<1>2. ASSUME q >= c PROVE Base * q >= Base * c
  BY <1>1, <1>2, Monotone, BaseAssumption
<1>3. ASSUME q <= -1 PROVE Base * q <= -Base
  BY <1>1, <1>3, Monotone, BaseAssumption
<1>4. ASSUME q >= 0 PROVE Base * q >= 0
  BY <1>1, <1>4, Monotone, BaseAssumption
<1>5. ASSUME q <= -c - 1 PROVE Base * q <= -(Base * c) - Base
  <2>1. Base * q <= Base * (-c - 1)
    BY <1>1, <1>5, Monotone, BaseAssumption
  <2>2. Base * (-c - 1) = -(Base * c) - Base
    BY BaseAssumption
  <2> QED
    BY <2>1, <2>2
<1>6. Base * q \in Int /\ Base * c \in Nat
  BY <1>1, BaseAssumption
<1>7. 0 <= a /\ a < Base * c => 0 <= q /\ q < c
  BY <1>1, <1>2, <1>3, <1>6, BaseAssumption
<1>8. -(Base * c) <= a /\ a < 0 => -c <= q /\ q < 0
  BY <1>1, <1>4, <1>5, <1>6, BaseAssumption
<1> QED
  BY <1>7, <1>8 DEF q

\* The numbers of values of 1, 2, 3 and 4 bytes.
LEMMA Powers ==
  /\ Base \in Nat /\ Base >= 2
  /\ Base * Base \in Nat /\ Base * (Base * Base) \in Nat /\ Base * (Base * (Base * Base)) \in Nat
  /\ 2 * Base <= Base * Base
  /\ 2 * (Base * Base) <= Base * (Base * Base)
  /\ 2 * (Base * (Base * Base)) <= Base * (Base * (Base * Base))
<1>1. Base \in Nat /\ Base >= 2
  BY BaseAssumption
<1>2. Base * Base \in Nat /\ Base * (Base * Base) \in Nat /\ Base * (Base * (Base * Base)) \in Nat
  BY <1>1
<1>3. \A x \in Nat : 2 * x <= Base * x
  BY <1>1, Monotone
<1> QED
  BY <1>1, <1>2, <1>3

\* The last n digits of x tell x, up to its sign.
Wrapped(x, n) == IF x < 0 THEN x + Values(n) ELSE x

LEMMA OneDigit ==
  ASSUME NEW x \in Int, -Values(1) <= x, x < Values(1)
  PROVE  x % Base = Wrapped(x, 1)
<1>1. Base * 1 = Base /\ Values(1) = Base
  BY Powers DEF Values
<1>2. (0 <= x => x \div Base = 0) /\ (x < 0 => x \div Base = -1)
  BY <1>1, Shorter, Digit
<1>3. Base * 0 = 0 /\ Base * (-1) = -Base
  BY Powers
<1> QED
  BY <1>1, <1>2, <1>3, Digit, Powers DEF Wrapped, Bytes

LEMMA TwoDigits ==
  ASSUME NEW x \in Int, -Values(2) <= x, x < Values(2)
  PROVE  (x % Base) + Base * ((x \div Base) % Base) = Wrapped(x, 2)
<1> DEFINE y == x \div Base
<1>1. Values(2) = Base * Base /\ Values(1) = Base /\ Values(2) \in Nat
  BY Powers DEF Values
<1>2. y \in Int /\ (0 <= x => 0 <= y /\ y < Base) /\ (x < 0 => -Base <= y /\ y < 0)
  BY <1>1, Shorter, Digit, Powers
<1> HIDE DEF y
<1>3. y % Base = Wrapped(y, 1)
  BY <1>1, <1>2, OneDigit, Powers
<1>4. x = Base * y + (x % Base) /\ x % Base \in Int
  BY Digit DEF y, Bytes
<1>5. Base * (y + Base) = Base * y + Base * Base
  BY <1>2, Powers
<1>6. Base * y \in Int
  BY <1>2, Powers
<1>7. (x % Base) + Base * (y % Base) = Wrapped(x, 2)
  BY <1>1, <1>2, <1>3, <1>4, <1>5, <1>6 DEF Wrapped
<1> QED
  BY <1>7 DEF y

LEMMA ThreeDigits ==
  ASSUME NEW x \in Int, -(Base * Values(2)) <= x, x < Base * Values(2)
  PROVE  (x % Base) + Base * (((x \div Base) % Base) + Base * (((x \div Base) \div Base) % Base))
           = IF x < 0 THEN x + Base * Values(2) ELSE x
<1> DEFINE y == x \div Base
           w == (y % Base) + Base * ((y \div Base) % Base)
<1>1. Values(2) \in Nat
  BY Powers DEF Values
<1>2. y \in Int /\ (0 <= x => 0 <= y /\ y < Values(2)) /\ (x < 0 => -Values(2) <= y /\ y < 0)
  BY <1>1, Shorter, Digit, Powers
<1>3. w = Wrapped(y, 2)
  BY <1>1, <1>2, TwoDigits
<1>4. x = Base * y + (x % Base) /\ x % Base \in Int
  BY Digit DEF Bytes
<1> HIDE DEF y, w
<1>5. Base * (y + Values(2)) = Base * y + Base * Values(2)
  BY <1>1, <1>2, Powers
<1>6. Base * y \in Int /\ Base * Values(2) \in Int
  BY <1>1, <1>2, Powers
<1>7. (x % Base) + Base * w = IF x < 0 THEN x + Base * Values(2) ELSE x
  BY <1>1, <1>2, <1>3, <1>4, <1>5, <1>6 DEF Wrapped
<1> QED
  BY <1>7 DEF y, w

LEMMA FourDigits ==
  ASSUME NEW x \in Int, -Values(4) <= x, x < Values(4)
  PROVE  LET y == x \div Base
             z == y \div Base
         IN (x % Base) + Base * ((y % Base) + Base * ((z % Base) + Base * ((z \div Base) % Base)))
              = Wrapped(x, 4)
<1> DEFINE y == x \div Base
           w == (y % Base) + Base * (((y \div Base) % Base) + Base * (((y \div Base) \div Base) % Base))
           c == Base * Values(2)
<1>1. c \in Nat /\ Values(4) = Base * c
  BY Powers DEF Values
<1>2. y \in Int /\ (0 <= x => 0 <= y /\ y < c) /\ (x < 0 => -c <= y /\ y < 0)
  BY <1>1, Shorter, Digit, Powers
<1>3. w = IF y < 0 THEN y + c ELSE y
  BY <1>1, <1>2, ThreeDigits
<1>4. x = Base * y + (x % Base) /\ x % Base \in Int
  BY Digit DEF Bytes
<1> HIDE DEF y, w, c
<1>5. Base * (y + c) = Base * y + Base * c
  BY <1>1, <1>2, Powers
<1>6. Base * y \in Int /\ Base * c \in Int
  BY <1>1, <1>2, Powers
<1>7. (x % Base) + Base * w = Wrapped(x, 4)
  BY <1>1, <1>2, <1>3, <1>4, <1>5, <1>6 DEF Wrapped
<1> QED
  BY <1>7 DEF y, w

\* The numbers of values are even.
LEMMA Halves ==
  /\ \A n \in {1, 2, 4} : /\ Values(n) \in Nat /\ Values(n) \div 2 \in Nat
                           /\ Values(n) = 2 * (Values(n) \div 2) /\ Values(n) \div 2 >= 1
  /\ Values(1) <= Values(4) \div 2 /\ Values(2) <= Values(4) \div 2
<1> DEFINE k == Base \div 2
<1>1. k \in Nat /\ Base = 2 * k
  BY BaseAssumption
<1>2. \A x \in Nat : Base * x = 2 * (k * x) /\ k * x \in Nat
  BY <1>1
<1>3. \A x \in Nat : (Base * x) \div 2 = k * x
  BY <1>2
<1>4. \A x \in Nat : Base * x = 2 * ((Base * x) \div 2) /\ (Base * x) \div 2 \in Nat
  BY <1>2, <1>3
<1>5. Values(1) = Base * 1 /\ Values(2) = Base * Base /\ Values(4) = Base * (Base * (Base * Base))
  BY Powers DEF Values
<1>6. \A n \in {1, 2, 4} : Values(n) \in Nat /\ Values(n) >= 2
  BY <1>5, Powers
<1>7. \A n \in {1, 2, 4} : Values(n) = 2 * (Values(n) \div 2) /\ Values(n) \div 2 \in Nat
  BY <1>4, <1>5, Powers
<1>8. 2 * Values(1) <= Values(4) /\ 2 * Values(2) <= Values(4)
  BY <1>5, Powers
<1> QED
  BY <1>6, <1>7, <1>8

\* The types, and what a clamped value is.
LEMMA Lengths == ASSUME NEW t \in IntTypes PROVE LenOf(t) \in {1, 2, 4}
BY DEF IntTypes, LenOf

LEMMA Clamped ==
  ASSUME NEW t \in IntTypes, NEW v \in Int
  PROVE  /\ Clamp(t, v) \in Int
         /\ Signed(t) => -(Values(LenOf(t)) \div 2) <= Clamp(t, v)
                          /\ Clamp(t, v) < Values(LenOf(t)) \div 2
         /\ ~Signed(t) => 0 <= Clamp(t, v) /\ Clamp(t, v) < Values(LenOf(t))
BY Lengths, Halves DEF Clamp, MinOf, MaxOf

\* The bytes that EnInt writes, at the places where DeInt looks for them.
LEMMA Placed ==
  ASSUME NEW t \in IntTypes, NEW big \in BOOLEAN, NEW v \in Int, NEW i \in 1..LenOf(t)
  PROVE  EnInt(t, big, v)[Place(t, big, i)] = Shifted(Clamp(t, v))[i] % Base
<1>1. Place(t, big, i) \in 1..LenOf(t) /\ Rank(t, big, Place(t, big, i)) = i
  BY Lengths DEF Place, Rank
<1> QED
  BY <1>1 DEF EnInt

\* What DeInt adds up is the number that was shifted, up to its sign.
LEMMA Summed ==
  ASSUME NEW t \in IntTypes, NEW big \in BOOLEAN, NEW v \in Int
  PROVE  Unsigned(t, big, EnInt(t, big, v)) = Wrapped(ToInt32(Clamp(t, v)), LenOf(t))
<1> DEFINE x == ToInt32(Clamp(t, v))
           n == LenOf(t)
           a == EnInt(t, big, v)
<1>1. x \in Int /\ -Values(n) <= x /\ x < Values(n)
  BY Lengths, Halves, Clamped DEF ToInt32
<1>2. \A i \in 1..n : a[Place(t, big, i)] = Shifted(Clamp(t, v))[i] % Base
  BY Placed
<1>3. Shifted(Clamp(t, v)) =
        <<x, x \div Base, (x \div Base) \div Base, ((x \div Base) \div Base) \div Base>>
  BY DEF Shifted
<1> DEFINE d(i) == a[Place(t, big, i)]
<1>4. /\ n = 1 => Unsigned(t, big, a) = d(1)
      /\ n = 2 => Unsigned(t, big, a) = d(1) + Base * d(2)
      /\ n = 4 => Unsigned(t, big, a) = d(1) + Base * (d(2) + Base * (d(3) + Base * d(4)))
  <2> HIDE DEF a
  <2>1. n = 1 => Unsigned(t, big, a) = d(1)
    BY DEF Unsigned
  <2>2. n = 2 => Unsigned(t, big, a) = d(1) + Base * d(2)
    BY DEF Unsigned
  <2>3. n = 4 => Unsigned(t, big, a) = d(1) + Base * (d(2) + Base * (d(3) + Base * d(4)))
    BY DEF Unsigned
  <2> QED
    BY <2>1, <2>2, <2>3
<1> HIDE DEF x, a
<1>5. n = 1 => Unsigned(t, big, a) = Wrapped(x, n)
  <2>1. n = 1 => d(1) = x % Base
    BY <1>2, <1>3
  <2> QED
    BY <2>1, <1>1, <1>4, OneDigit
<1>6. n = 2 => Unsigned(t, big, a) = Wrapped(x, n)
  <2>1. n = 2 => d(1) = x % Base /\ d(2) = (x \div Base) % Base
    BY <1>2, <1>3
  <2> QED
    BY <2>1, <1>1, <1>4, TwoDigits
<1>7. n = 4 => Unsigned(t, big, a) = Wrapped(x, n)
  <2>1. n = 4 => /\ d(1) = x % Base /\ d(2) = (x \div Base) % Base
                 /\ d(3) = ((x \div Base) \div Base) % Base
                 /\ d(4) = (((x \div Base) \div Base) \div Base) % Base
    BY <1>2, <1>3
  <2> QED
    BY <2>1, <1>1, <1>4, FourDigits
<1> QED
  BY <1>5, <1>6, <1>7, Lengths DEF x, a

\* Every number comes back as it was packed, clamped to the range of its type,
\* from bytes in either order (RoundTrips).
THEOREM Codec ==
  \A t \in IntTypes, big \in BOOLEAN, v \in Int : RoundTrips(t, big, v)
<1> SUFFICES ASSUME NEW t \in IntTypes, NEW big \in BOOLEAN, NEW v \in Int
             PROVE  DeInt(t, big, EnInt(t, big, v)) = Clamp(t, v)
  BY DEF RoundTrips
<1> DEFINE c == Clamp(t, v)
           n == LenOf(t)
           rv == Unsigned(t, big, EnInt(t, big, v))
<1>1. rv = Wrapped(ToInt32(c), n)
  BY Summed
<1>2. n \in {1, 2, 4} /\ c \in Int
  BY Lengths, Clamped
<1>3. /\ Signed(t) => -(Values(n) \div 2) <= c /\ c < Values(n) \div 2
      /\ ~Signed(t) => 0 <= c /\ c < Values(n)
  BY Clamped
<1>4. DeInt(t, big, EnInt(t, big, v)) =
        IF Signed(t) /\ rv >= Values(n) \div 2 THEN rv - Values(n) ELSE rv
  BY DEF DeInt
<1> HIDE DEF c, n, rv
<1>5. CASE Signed(t)
  BY <1>1, <1>2, <1>3, <1>4, <1>5, Halves DEF Wrapped, ToInt32, c
<1>6. CASE ~Signed(t)
  BY <1>1, <1>2, <1>3, <1>4, <1>6, Halves DEF Wrapped, ToInt32, c
<1> QED
  BY <1>5, <1>6

-----------------------------------------------------------------------------

\* LengthOf adds up the lengths of the elements.
LEMMA LengthSum ==
  ASSUME NEW fmt, NEW n \in Nat
  PROVE  \E sum :
           /\ LengthOf(fmt, n) = sum[n] /\ sum[0] = 0
           /\ \A i \in 1..n : sum[i] = sum[i - 1] + LenOf(fmt[i])
<1> DEFINE step == [i \in 1..n |-> [x \in Nat |-> x + LenOf(fmt[i])]]
           body(f) == [i \in 0..n |-> IF i = 0 THEN 0 ELSE f[i - 1] + LenOf(fmt[i])]
           sum == CHOOSE f : f = body(f)
<1>1. StepsIn(Nat, n, step)
  BY DEF LenOf, StepsIn
<1>2. \A i \in 1..n, x \in Nat : step[i][x] = x + LenOf(fmt[i])
  OBVIOUS
<1> HIDE DEF step, body, sum
<1>3. PICK f : f \in [0..n -> Nat] /\ Stepwise(f, n, 0, step)
  BY <1>1, Recursion
<1>4. f[0] = 0 /\ \A i \in 1..n : f[i] = f[i - 1] + LenOf(fmt[i])
  BY <1>2, <1>3 DEF Stepwise
<1>5. f = body(f)
  BY <1>3, <1>4 DEF body
<1>6. sum = body(sum)
  BY <1>5 DEF sum
<1>7. LengthOf(fmt, n) = sum[n]
  BY DEF LengthOf, sum, body
<1>8. sum[0] = 0 /\ \A i \in 1..n : sum[i] = sum[i - 1] + LenOf(fmt[i])
  BY <1>6 DEF body
<1> QED
  BY <1>7, <1>8

\* The bytes of a packed length.
LEMMA LengthBytes ==
  ASSUME NEW n \in Int
  PROVE  EnInt("L", TRUE, n) \in [1..4 -> Bytes] /\ EnInt("L", TRUE, n) \in Seq(Bytes)
<1> DEFINE d == Shifted(Clamp("L", n))
           r(p) == Rank("L", TRUE, p)
<1>1. LenOf("L") = 4 /\ "L" \in IntTypes
  BY DEF LenOf, IntTypes
<1>2. \A p \in 1..4 : r(p) \in 1..4
  BY <1>1 DEF Rank
<1>3. ToInt32(Clamp("L", n)) \in Int
  BY <1>1, Lengths, Halves, Clamped DEF ToInt32
<1>4. \A i \in 1..4 : d[i] \in Int
  BY <1>3, Digit DEF Shifted
<1> HIDE DEF d
<1>5. \A i \in 1..4 : d[i] % Base \in Bytes
  BY <1>4, Digit
<1>6. ASSUME NEW p \in 1..4
      PROVE  d[r(p)] % Base \in Bytes
  <2> DEFINE q == r(p)
  <2>1. q \in 1..4
    BY <1>2
  <2> HIDE DEF q
  <2>2. d[q] % Base \in Bytes
    BY <2>1, <1>5
  <2> QED
    BY <2>2 DEF q
<1>7. EnInt("L", TRUE, n) = [p \in 1..4 |-> d[r(p)] % Base]
  BY <1>1 DEF EnInt, d
<1> HIDE DEF r
<1>8. EnInt("L", TRUE, n) \in [1..4 -> Bytes]
  BY <1>6, <1>7
<1>9. \A a : a \in [1..4 -> Bytes] => a \in Seq(Bytes)
  BY SeqDef
<1> QED
  BY <1>8, <1>9

\* Pack of a header: four bytes for the length, and the symbol.
LEMMA PackedHeader ==
  ASSUME NEW n \in Int, NEW c \in Bytes
  PROVE  Pack(TRUE, HeaderFormat, <<n, c>>) = EnInt("L", TRUE, n) \o <<c>>
<1> DEFINE a == EnInt("L", TRUE, n)
           octets(i) == IF HeaderFormat[i] = "c" THEN <<<<n, c>>[i]>>
                        ELSE EnInt(HeaderFormat[i], TRUE, <<n, c>>[i])
           body(f) == [i \in 0..Len(HeaderFormat) |-> IF i = 0 THEN <<>> ELSE f[i - 1] \o octets(i)]
           packed == CHOOSE f : f = body(f)
           g == [i \in 0..2 |-> IF i = 0 THEN <<>> ELSE IF i = 1 THEN a ELSE a \o <<c>>]
<1>1. Len(HeaderFormat) = 2 /\ octets(1) = a /\ octets(2) = <<c>>
  BY DEF HeaderFormat
<1>2. <<>> \o a = a
  <2> HIDE DEF a
  <2>1. a \in Seq(Bytes)
    BY LengthBytes DEF a
  <2> QED
    BY <2>1
<1>3. /\ Pack(TRUE, HeaderFormat, <<n, c>>) = packed[2]
      /\ \A f : body(f) = [i \in 0..2 |-> IF i = 0 THEN <<>> ELSE f[i - 1] \o octets(i)]
  BY <1>1 DEF Pack
<1> HIDE DEF a, octets, body, packed
<1>4. g = body(g)
  <2>1. g[0] = <<>> /\ g[1] = a /\ g[2] = a \o <<c>>
    OBVIOUS
  <2>2. g = [i \in 0..2 |-> g[i]]
    OBVIOUS
  <2> HIDE DEF g
  <2>3. g[1] = g[0] \o octets(1)
    BY <1>1, <1>2, <2>1
  <2>4. g[2] = g[1] \o octets(2)
    BY <1>1, <2>1
  <2>5. \A i \in 0..2 : g[i] = IF i = 0 THEN <<>> ELSE g[i - 1] \o octets(i)
    <3> SUFFICES ASSUME NEW i \in 0..2
                 PROVE  g[i] = IF i = 0 THEN <<>> ELSE g[i - 1] \o octets(i)
      OBVIOUS
    <3>1. CASE i = 0
      BY <2>1, <3>1
    <3>2. CASE i = 1
      BY <2>3, <3>2
    <3>3. CASE i = 2
      BY <2>4, <3>3
    <3> QED
      BY <3>1, <3>2, <3>3
  <2> QED
    BY <1>3, <2>2, <2>5
<1>5. packed = body(packed)
  <2> HIDE DEF g
  <2> QED
    BY <1>4 DEF packed
<1>6. packed = [i \in 0..2 |-> IF i = 0 THEN <<>> ELSE packed[i - 1] \o octets(i)]
  BY <1>3, <1>5
<1>7. packed[0] = <<>> /\ packed[1] = packed[0] \o octets(1) /\ packed[2] = packed[1] \o octets(2)
  BY <1>6
<1>8. packed[2] = a \o <<c>>
  BY <1>1, <1>2, <1>7
<1> QED
  BY <1>3, <1>8 DEF a

\* A header is four bytes of a length and one of a symbol.
LEMMA HeaderIsFive == LengthOf(HeaderFormat, 0) = 0 /\ LengthOf(HeaderFormat, 1) = 4 /\ HeaderLength = 5
<1>1. LenOf(HeaderFormat[1]) = 4 /\ LenOf(HeaderFormat[2]) = 1
  BY DEF HeaderFormat, LenOf
<1>2. LengthOf(HeaderFormat, 0) = 0
  BY LengthSum
<1>3. LengthOf(HeaderFormat, 1) = 4
  <2>1. PICK sum : /\ LengthOf(HeaderFormat, 1) = sum[1] /\ sum[0] = 0
                   /\ \A i \in 1..1 : sum[i] = sum[i - 1] + LenOf(HeaderFormat[i])
    BY LengthSum
  <2>2. sum[1] = sum[0] + LenOf(HeaderFormat[1])
    BY <2>1
  <2> QED
    BY <1>1, <2>1, <2>2
<1>4. LengthOf(HeaderFormat, 2) = 5
  <2>1. PICK sum : /\ LengthOf(HeaderFormat, 2) = sum[2] /\ sum[0] = 0
                   /\ \A i \in 1..2 : sum[i] = sum[i - 1] + LenOf(HeaderFormat[i])
    BY LengthSum
  <2>2. sum[1] = sum[0] + LenOf(HeaderFormat[1]) /\ sum[2] = sum[1] + LenOf(HeaderFormat[2])
    BY <2>1
  <2> QED
    BY <1>1, <2>1, <2>2
<1> QED
  BY <1>2, <1>3, <1>4 DEF HeaderLength

\* Two sequences that are joined.
LEMMA Joined ==
  ASSUME NEW s \in Seq(Bytes), NEW t \in Seq(Bytes)
  PROVE  /\ s \o t \in Seq(Bytes) /\ Len(s \o t) = Len(s) + Len(t)
         /\ \A i \in 1..Len(s) : (s \o t)[i] = s[i]
         /\ \A i \in 1..Len(t) : (s \o t)[Len(s) + i] = t[i]
<1>1. /\ s \o t \in Seq(Bytes) /\ Len(s \o t) = Len(s) + Len(t)
      /\ \A i \in 1..(Len(s) + Len(t)) : (s \o t)[i] = IF i <= Len(s) THEN s[i] ELSE t[i - Len(s)]
  BY ConcatProperties
<1>2. Len(s) \in Nat /\ Len(t) \in Nat
  BY LenProperties
<1> DEFINE u == s \o t
<1> HIDE DEF u
<1>3. \A i \in 1..Len(s) : u[i] = s[i]
  BY <1>1, <1>2 DEF u
<1>4. ASSUME NEW i \in 1..Len(t)
      PROVE  u[Len(s) + i] = t[i]
  <2>1. Len(s) + i \in 1..(Len(s) + Len(t)) /\ ~(Len(s) + i <= Len(s)) /\ (Len(s) + i) - Len(s) = i
    BY <1>2
  <2>2. u[Len(s) + i] = t[(Len(s) + i) - Len(s)]
    BY <1>1, <2>1 DEF u
  <2> QED
    BY <2>1, <2>2
<1> QED
  BY <1>1, <1>3, <1>4 DEF u

\* A piece of s that begins after the first p.
LEMMA Piece ==
  ASSUME NEW s \in Seq(Bytes), NEW p \in Nat, NEW n \in Nat, p + n <= Len(s)
  PROVE  /\ SubSeq(s, p + 1, p + n) \in Seq(Bytes) /\ Len(SubSeq(s, p + 1, p + n)) = n
         /\ \A i \in 1..n : SubSeq(s, p + 1, p + n)[i] = s[p + i]
<1>1. \A i \in (p + 1)..(p + n) : s[i] \in Bytes
  <2>1. Len(s) \in Nat
    BY LenProperties
  <2>2. \A i \in (p + 1)..(p + n) : i \in 1..Len(s)
    BY <2>1
  <2> QED
    BY <2>2, ElementOfSeq
<1> DEFINE a == p + 1
           b == p + n
<1>2. a \in Int /\ b \in Int /\ b - a + 1 = n /\ (IF a <= b THEN b - a + 1 ELSE 0) = n
      /\ \A i \in 1..n : a + i - 1 = p + i
  OBVIOUS
<1> HIDE DEF a, b
<1>3. /\ SubSeq(s, a, b) \in Seq(Bytes)
      /\ Len(SubSeq(s, a, b)) = IF a <= b THEN b - a + 1 ELSE 0
      /\ \A i \in 1..(b - a + 1) : SubSeq(s, a, b)[i] = s[a + i - 1]
  BY <1>1, <1>2, SubSeqProperties DEF a, b
<1>4. /\ SubSeq(s, a, b) \in Seq(Bytes) /\ Len(SubSeq(s, a, b)) = n
      /\ \A i \in 1..n : SubSeq(s, a, b)[i] = s[p + i]
  BY <1>2, <1>3
<1> QED
  BY <1>4 DEF a, b

\* Sequences of the same bytes are the same.
LEMMA Same ==
  ASSUME NEW s \in Seq(Bytes), NEW t \in Seq(Bytes), Len(s) = Len(t),
         \A i \in 1..Len(t) : s[i] = t[i]
  PROVE  s = t
BY SeqEqual

\* The bytes of a header.
HeaderOf(n, c) == EnInt("L", TRUE, n) \o <<c>>

\* They are five: those of the length, and c.
LEMMA HeaderBytes ==
  ASSUME NEW n \in Int, NEW c \in Bytes
  PROVE  /\ HeaderOf(n, c) \in Seq(Bytes) /\ Len(HeaderOf(n, c)) = 5
         /\ \A i \in 1..4 : HeaderOf(n, c)[i] = EnInt("L", TRUE, n)[i]
         /\ HeaderOf(n, c)[5] = c
         /\ EnInt("L", TRUE, n) \in Seq(Bytes) /\ Len(EnInt("L", TRUE, n)) = 4
<1> DEFINE a == EnInt("L", TRUE, n)
           t == <<c>>
<1>1. a \in Seq(Bytes) /\ Len(a) = 4
  <2>1. a \in [1..4 -> Bytes] /\ a \in Seq(Bytes)
    BY LengthBytes
  <2> HIDE DEF a
  <2> QED
    BY <2>1, LenProperties
<1>2. t \in Seq(Bytes) /\ Len(t) = 1 /\ t[1] = c
  OBVIOUS
<1>3. HeaderOf(n, c) = a \o t
  BY DEF HeaderOf
<1> HIDE DEF a, t
<1> DEFINE u == a \o t
<1>4. /\ u \in Seq(Bytes) /\ Len(u) = Len(a) + Len(t)
      /\ \A i \in 1..Len(a) : u[i] = a[i]
      /\ \A i \in 1..Len(t) : u[Len(a) + i] = t[i]
  BY <1>1, <1>2, Joined
<1> HIDE DEF u
<1>5. Len(u) = 5 /\ (\A i \in 1..4 : u[i] = a[i]) /\ u[4 + 1] = t[1]
  BY <1>1, <1>2, <1>4
<1>6. u[5] = c
  BY <1>2, <1>5
<1>7. HeaderOf(n, c) = u
  BY <1>3 DEF u
<1> QED
  BY <1>1, <1>4, <1>5, <1>6, <1>7 DEF a

\* What Unpack makes of a packed header.
LEMMA UnpackedHeader ==
  ASSUME NEW n \in 0..MaxOf("L"), NEW c \in Bytes
  PROVE  Unpack(TRUE, HeaderFormat, HeaderOf(n, c)) = <<n, c>>
<1> DEFINE a == EnInt("L", TRUE, n)
           w == HeaderOf(n, c)
<1>1. "L" \in IntTypes /\ LenOf("L") = 4 /\ LenOf("c") = 1 /\ ~Signed("L")
  BY DEF IntTypes, LenOf, Signed
<1>2. n \in Int /\ Clamp("L", n) = n
  <2>1. MaxOf("L") \in Int
    BY <1>1, Halves DEF MaxOf
  <2> QED
    BY <1>1, <2>1 DEF Clamp, MinOf
<1>3. DeInt("L", TRUE, a) = n
  <2>1. RoundTrips("L", TRUE, n)
    BY <1>1, <1>2, Codec
  <2> QED
    BY <1>2, <2>1 DEF RoundTrips
<1>4. /\ w \in Seq(Bytes) /\ Len(w) = 5 /\ (\A i \in 1..4 : w[i] = a[i]) /\ w[5] = c
      /\ a \in Seq(Bytes) /\ Len(a) = 4
  BY <1>2, HeaderBytes
<1> HIDE DEF a, w
<1>5. SubSeq(w, 1, 4) = a
  <2> DEFINE z == 0
             y == 4
  <2>1. z \in Nat /\ y \in Nat /\ z + y <= Len(w)
    BY <1>4
  <2> HIDE DEF z, y
  <2>2. /\ SubSeq(w, z + 1, z + y) \in Seq(Bytes) /\ Len(SubSeq(w, z + 1, z + y)) = y
        /\ \A i \in 1..y : SubSeq(w, z + 1, z + y)[i] = w[z + i]
    BY <1>4, <2>1, Piece
  <2>3. z + 1 = 1 /\ y = 4 /\ z + y = 4 /\ \A i \in 1..4 : z + i = i
    BY DEF z, y
  <2>4. /\ SubSeq(w, 1, 4) \in Seq(Bytes) /\ Len(SubSeq(w, 1, 4)) = 4
        /\ \A i \in 1..4 : SubSeq(w, 1, 4)[i] = w[i]
    BY <2>2, <2>3
  <2> QED
    BY <1>4, <2>4, Same
<1>6. SubSeq(w, 5, 5)[1] = c
  <2>1. \A i \in 1..1 : SubSeq(w, 4 + 1, 4 + 1)[i] = w[4 + i]
    BY <1>4, Piece
  <2>2. SubSeq(w, 5, 5)[1] = w[4 + 1]
    BY <2>1
  <2> QED
    BY <1>4, <2>2
<1>7. Len(HeaderFormat) = 2 /\ HeaderFormat[1] = "L" /\ HeaderFormat[2] = "c"
  BY DEF HeaderFormat
<1>8. LengthOf(HeaderFormat, 0) = 0 /\ LengthOf(HeaderFormat, 1) = 4 /\ LengthOf(HeaderFormat, 2) = 5
  BY HeaderIsFive DEF HeaderLength
<1> DEFINE part(i) == LET first == LengthOf(HeaderFormat, i - 1)
                          octets == SubSeq(w, first + 1, first + LenOf(HeaderFormat[i]))
                      IN IF HeaderFormat[i] = "c" THEN octets[1] ELSE DeInt(HeaderFormat[i], TRUE, octets)
<1>9. Unpack(TRUE, HeaderFormat, w) = [i \in 1..2 |-> part(i)]
  <2>1. ~(LengthOf(HeaderFormat, Len(HeaderFormat)) > Len(w))
    BY <1>4, <1>7, <1>8
  <2> QED
    BY <1>7, <2>1 DEF Unpack
<1>10. part(1) = n
  <2>1. LengthOf(HeaderFormat, 1 - 1) = 0
    BY <1>8
  <2>2. part(1) = DeInt("L", TRUE, SubSeq(w, 0 + 1, 0 + 4))
    BY <1>1, <1>7, <2>1
  <2>3. SubSeq(w, 0 + 1, 0 + 4) = a
    BY <1>5
  <2> HIDE DEF part
  <2> QED
    BY <1>3, <2>2, <2>3, Zenon
<1>11. part(2) = c
  <2>1. LengthOf(HeaderFormat, 2 - 1) = 4
    BY <1>8
  <2>2. part(2) = SubSeq(w, 4 + 1, 4 + 1)[1]
    BY <1>1, <1>7, <2>1
  <2>3. SubSeq(w, 4 + 1, 4 + 1)[1] = c
    BY <1>6
  <2> HIDE DEF part
  <2> QED
    BY <2>2, <2>3, Zenon
<1> HIDE DEF part
<1>12. [i \in 1..2 |-> part(i)] = <<n, c>>
  BY <1>10, <1>11
<1> QED
  BY <1>9, <1>12 DEF w

-----------------------------------------------------------------------------

\* What is written of a message.
Frame(m) == Pack(TRUE, HeaderFormat, <<Len(m[2]), m[1]>>) \o m[2]

\* How much is written of a message.
FrameLength(m) == HeaderLength + Len(m[2])

\* From the place p on, w holds m.
HoldsAt(w, p, m) ==
  p + FrameLength(m) <= Len(w) /\ \A j \in 1..FrameLength(m) : w[p + j] = Frame(m)[j]

\* The messages that can be sent.
LEMMA Messages ==
  ASSUME NEW m \in Symbols \X Payloads
  PROVE  /\ m = <<m[1], m[2]>> /\ m[1] \in Symbols /\ m[1] \in Bytes /\ m[2] \in Payloads
         /\ m[2] \in Seq(Bytes) /\ Len(m[2]) \in 0..MaxOf("L")
<1>1. Len(m[2]) \in Nat /\ Len(m[2]) <= MaxOf("L")
  BY SocketAssumption, LengthAssumption
<1>2. MaxOf("L") \in Int
  BY Halves DEF MaxOf, Signed, LenOf
<1> QED
  BY <1>1, <1>2, SocketAssumption

\* The bytes of a frame: the header, then the payload.
LEMMA Framed ==
  ASSUME NEW m \in Symbols \X Payloads
  PROVE  /\ Frame(m) \in Seq(Bytes) /\ Len(Frame(m)) = 5 + Len(m[2]) /\ FrameLength(m) = 5 + Len(m[2])
         /\ \A j \in 1..5 : Frame(m)[j] = HeaderOf(Len(m[2]), m[1])[j]
         /\ \A j \in 1..Len(m[2]) : Frame(m)[5 + j] = m[2][j]
<1> DEFINE h == HeaderOf(Len(m[2]), m[1])
           n == Len(m[2])
           c == m[1]
           b == m[2]
<1>1. c \in Bytes /\ b \in Seq(Bytes) /\ n \in Int
  <2>1. n \in 0..MaxOf("L")
    BY Messages
  <2> QED
    BY <2>1, Messages
<1>2. Frame(m) = h \o b
  <2>1. Frame(m) = Pack(TRUE, HeaderFormat, <<n, c>>) \o b
    BY DEF Frame
  <2>2. h = EnInt("L", TRUE, n) \o <<c>>
    BY DEF HeaderOf
  <2> HIDE DEF n, c, b, h
  <2>3. Pack(TRUE, HeaderFormat, <<n, c>>) = h
    BY <1>1, <2>2, PackedHeader
  <2> QED
    BY <2>1, <2>3
<1>3. h \in Seq(Bytes) /\ Len(h) = 5
  <2> HIDE DEF n, c
  <2> QED
    BY <1>1, HeaderBytes DEF n, c
<1>4. FrameLength(m) = 5 + n /\ Len(b) = n
  BY HeaderIsFive DEF FrameLength
<1> HIDE DEF n, c, b, h
<1> DEFINE u == h \o b
<1>5. /\ u \in Seq(Bytes) /\ Len(u) = Len(h) + Len(b)
      /\ \A j \in 1..Len(h) : u[j] = h[j]
      /\ \A j \in 1..Len(b) : u[Len(h) + j] = b[j]
  BY <1>1, <1>3, Joined
<1>6. Frame(m) = u
  BY <1>2
<1> HIDE DEF u
<1>7. /\ Len(u) = 5 + n /\ (\A j \in 1..5 : u[j] = h[j])
      /\ \A j \in 1..n : u[5 + j] = b[j]
  BY <1>3, <1>4, <1>5
<1> QED
  BY <1>4, <1>5, <1>6, <1>7 DEF n, c, b, h

\* Where a message begins, its header and its payload are found.
LEMMA Found ==
  ASSUME NEW m \in Symbols \X Payloads, NEW w \in Seq(Bytes), NEW p \in Nat, HoldsAt(w, p, m)
  PROVE  /\ Unpack(TRUE, HeaderFormat, SubSeq(w, p + 1, p + 5)) = <<Len(m[2]), m[1]>>
         /\ SubSeq(w, (p + 5) + 1, (p + 5) + Len(m[2])) = m[2]
<1> DEFINE h == HeaderOf(Len(m[2]), m[1])
           n == Len(m[2])
           c == m[1]
           b == m[2]
<1>1. c \in Bytes /\ b \in Seq(Bytes) /\ n \in 0..MaxOf("L") /\ n \in Nat /\ Len(b) = n
  <2>1. n \in 0..MaxOf("L")
    BY Messages
  <2>2. n \in Nat
    BY <2>1
  <2> QED
    BY <2>1, <2>2, Messages
<1>2. /\ p + (5 + n) <= Len(w) /\ \A j \in 1..(5 + n) : w[p + j] = Frame(m)[j]
  BY Framed DEF HoldsAt
<1>3. Len(w) \in Nat
  BY LenProperties
<1>4. h \in Seq(Bytes) /\ Len(h) = 5 /\ Unpack(TRUE, HeaderFormat, h) = <<n, c>>
  <2> HIDE DEF n, c
  <2>1. n \in Int
    BY <1>1
  <2> QED
    BY <1>1, <2>1, HeaderBytes, UnpackedHeader DEF n, c
<1>5. (\A j \in 1..5 : Frame(m)[j] = h[j]) /\ \A j \in 1..n : Frame(m)[5 + j] = b[j]
  BY Framed
<1> HIDE DEF h, n, c, b
<1>6. SubSeq(w, p + 1, p + 5) = h
  <2>1. /\ SubSeq(w, p + 1, p + 5) \in Seq(Bytes) /\ Len(SubSeq(w, p + 1, p + 5)) = 5
        /\ \A j \in 1..5 : SubSeq(w, p + 1, p + 5)[j] = w[p + j]
    BY <1>1, <1>2, <1>3, Piece
  <2> DEFINE s == SubSeq(w, p + 1, p + 5)
  <2> HIDE DEF s
  <2>2. \A j \in 1..5 : s[j] = h[j]
    <3> SUFFICES ASSUME NEW j \in 1..5 PROVE s[j] = h[j]
      OBVIOUS
    <3>1. w[p + j] = Frame(m)[j]
      BY <1>1, <1>2
    <3> QED
      BY <1>5, <2>1, <3>1 DEF s
  <2> QED
    BY <1>4, <2>1, <2>2, Same DEF s
<1>7. SubSeq(w, (p + 5) + 1, (p + 5) + n) = b
  <2> DEFINE q == p + 5
             s == SubSeq(w, q + 1, q + n)
  <2>1. q \in Nat /\ q + n <= Len(w)
    BY <1>1, <1>2, <1>3
  <2> HIDE DEF q
  <2>2. s \in Seq(Bytes) /\ Len(s) = n /\ \A j \in 1..n : s[j] = w[q + j]
    BY <1>1, <2>1, Piece
  <2> HIDE DEF s
  <2>3. \A j \in 1..n : s[j] = b[j]
    <3> SUFFICES ASSUME NEW j \in 1..n PROVE s[j] = b[j]
      OBVIOUS
    <3>1. q + j = p + (5 + j) /\ 5 + j \in 1..(5 + n)
      BY <1>1 DEF q
    <3>2. w[p + (5 + j)] = Frame(m)[5 + j]
      BY <1>2, <3>1
    <3> QED
      BY <1>5, <2>2, <3>1, <3>2
  <2>4. s = b
    BY <1>1, <2>2, <2>3, Same
  <2> QED
    BY <2>4 DEF s, q
<1> QED
  BY <1>4, <1>6, <1>7 DEF n, c, b

-----------------------------------------------------------------------------

\* What is done with the n-th of the messages, for any that were kept before.
Keeping(ms, T, taken) ==
  [n \in 1..Len(ms) |-> [q \in Seq(T) |-> IF ms[n] \in taken THEN Append(q, ms[n]) ELSE q]]

\* Kept is defined by its recursion.
LEMMA KeptStepwise ==
  ASSUME NEW T, NEW ms \in Seq(T), NEW taken
  PROVE  /\ Kept(ms, taken) \in [0..Len(ms) -> Seq(T)]
         /\ Stepwise(Kept(ms, taken), Len(ms), <<>>, Keeping(ms, T, taken))
<1> DEFINE N == Len(ms)
           step == Keeping(ms, T, taken)
           body(f) == [n \in 0..N |->
                        IF n = 0 THEN <<>>
                        ELSE IF ms[n] \in taken THEN Append(f[n - 1], ms[n]) ELSE f[n - 1]]
           kept == CHOOSE f : f = body(f)
<1>1. N \in Nat /\ <<>> \in Seq(T) /\ \A n \in 1..N : ms[n] \in T
  BY LenProperties, ElementOfSeq, EmptySeq
<1>2. \A n \in 1..N, q \in Seq(T) :
        step[n][q] = IF ms[n] \in taken THEN Append(q, ms[n]) ELSE q
  BY DEF Keeping
<1>3. \A n \in 1..N, q \in Seq(T) : step[n][q] \in Seq(T)
  <2> SUFFICES ASSUME NEW n \in 1..N, NEW q \in Seq(T) PROVE step[n][q] \in Seq(T)
    OBVIOUS
  <2>1. Append(q, ms[n]) \in Seq(T)
    BY <1>1
  <2> HIDE DEF step
  <2> QED
    BY <1>2, <2>1
<1>4. StepsIn(Seq(T), N, step)
  BY <1>3 DEF StepsIn
<1>5. Kept(ms, taken) = kept
  BY DEF Kept
<1> HIDE DEF N, step, body, kept
<1>6. PICK f : f \in [0..N -> Seq(T)] /\ Stepwise(f, N, <<>>, step)
  BY <1>1, <1>4, Recursion
<1>7. \A n \in 1..N : f[n] = IF ms[n] \in taken THEN Append(f[n - 1], ms[n]) ELSE f[n - 1]
  <2> SUFFICES ASSUME NEW n \in 1..N
               PROVE  f[n] = IF ms[n] \in taken THEN Append(f[n - 1], ms[n]) ELSE f[n - 1]
    OBVIOUS
  <2>1. f[n] = step[n][f[n - 1]] /\ f[n - 1] \in Seq(T)
    BY <1>1, <1>6 DEF Stepwise
  <2> QED
    BY <1>2, <2>1
<1>8. f[0] = <<>>
  BY <1>6 DEF Stepwise
<1>9. f = body(f)
  <2>1. \A n \in 0..N :
          f[n] = IF n = 0 THEN <<>>
                 ELSE IF ms[n] \in taken THEN Append(f[n - 1], ms[n]) ELSE f[n - 1]
    <3> SUFFICES ASSUME NEW n \in 0..N
                 PROVE  f[n] = IF n = 0 THEN <<>>
                               ELSE IF ms[n] \in taken THEN Append(f[n - 1], ms[n]) ELSE f[n - 1]
      OBVIOUS
    <3>1. CASE n = 0
      BY <1>8, <3>1
    <3>2. CASE n \in 1..N
      BY <1>7, <3>2
    <3> QED
      BY <1>1, <3>1, <3>2
  <2>2. f = [n \in 0..N |-> f[n]]
    BY <1>6
  <2> QED
    BY <2>1, <2>2 DEF body
<1>10. kept = body(kept)
  BY <1>9 DEF kept
<1>11. kept[0] = <<>> /\ kept = [n \in 0..N |-> kept[n]]
  BY <1>1, <1>10 DEF body
<1>12. \A n \in 1..N :
         kept[n] = IF ms[n] \in taken THEN Append(kept[n - 1], ms[n]) ELSE kept[n - 1]
  <2> SUFFICES ASSUME NEW n \in 1..N
               PROVE  kept[n] = IF ms[n] \in taken THEN Append(kept[n - 1], ms[n]) ELSE kept[n - 1]
    OBVIOUS
  <2>1. n \in 0..N /\ n # 0
    BY <1>1
  <2>2. kept[n] = body(kept)[n]
    BY <1>10
  <2>3. body(kept)[n] = IF n = 0 THEN <<>>
                        ELSE IF ms[n] \in taken THEN Append(kept[n - 1], ms[n]) ELSE kept[n - 1]
    BY <2>1 DEF body
  <2> QED
    BY <2>1, <2>2, <2>3
<1> DEFINE S == {n \in 0..N : kept[n] \in Seq(T)}
<1>13. 0 \in S
  BY <1>1, <1>11
<1>14. ASSUME NEW n \in 0..(N - 1), n \in S
       PROVE  n + 1 \in S
  <2>1. /\ n + 1 \in 1..N /\ (n + 1) - 1 = n /\ kept[n] \in Seq(T)
    BY <1>1, <1>14
  <2>2. kept[n + 1] = IF ms[n + 1] \in taken THEN Append(kept[n], ms[n + 1]) ELSE kept[n]
    BY <1>12, <2>1
  <2>3. kept[n + 1] \in Seq(T)
    BY <1>1, <2>1, <2>2
  <2> QED
    BY <1>1, <2>1, <2>3
<1> HIDE DEF S
<1>15. 0..N \subseteq S
  BY <1>1, <1>13, <1>14, Induct
<1>16. \A n \in 0..N : kept[n] \in Seq(T)
  BY <1>15 DEF S
<1>17. \A n \in 1..N : kept[n] = step[n][kept[n - 1]]
  <2> SUFFICES ASSUME NEW n \in 1..N PROVE kept[n] = step[n][kept[n - 1]]
    OBVIOUS
  <2>1. kept[n - 1] \in Seq(T)
    BY <1>1, <1>16
  <2> QED
    BY <1>2, <1>12, <2>1
<1> QED
  BY <1>5, <1>11, <1>16, <1>17 DEF Stepwise, N, step

\* Of no message nothing is kept, and each is kept if it is one of `taken`.
LEMMA KeptEquations ==
  ASSUME NEW T, NEW ms \in Seq(T), NEW taken
  PROVE  /\ Kept(ms, taken)[0] = <<>>
         /\ \A n \in 0..Len(ms) : Kept(ms, taken)[n] \in Seq(T)
         /\ \A n \in 1..Len(ms) :
              Kept(ms, taken)[n] = IF ms[n] \in taken THEN Append(Kept(ms, taken)[n - 1], ms[n])
                                  ELSE Kept(ms, taken)[n - 1]
<1> DEFINE k == Kept(ms, taken)
<1>1. k \in [0..Len(ms) -> Seq(T)] /\ Stepwise(k, Len(ms), <<>>, Keeping(ms, T, taken))
  BY KeptStepwise
<1>2. Len(ms) \in Nat
  BY LenProperties
<1> HIDE DEF k
<1>3. \A n \in 0..Len(ms) : k[n] \in Seq(T)
  BY <1>1
<1>4. k[0] = <<>>
  BY <1>1 DEF Stepwise
<1>5. ASSUME NEW n \in 1..Len(ms)
      PROVE  k[n] = IF ms[n] \in taken THEN Append(k[n - 1], ms[n]) ELSE k[n - 1]
  <2>1. k[n] = Keeping(ms, T, taken)[n][k[n - 1]] /\ k[n - 1] \in Seq(T)
    BY <1>1, <1>2, <1>3 DEF Stepwise
  <2> QED
    BY <2>1 DEF Keeping
<1> QED
  BY <1>3, <1>4, <1>5 DEF k

\* One message more changes nothing of what is kept of those before.
LEMMA KeptOfMore ==
  ASSUME NEW T, NEW ms \in Seq(T), NEW m \in T, NEW taken
  PROVE  \A n \in 0..Len(ms) : Kept(Append(ms, m), taken)[n] = Kept(ms, taken)[n]
<1> DEFINE more == Append(ms, m)
           k == Kept(ms, taken)
           l == Kept(more, taken)
           step == Keeping(ms, T, taken)
<1>1. /\ Len(ms) \in Nat /\ more \in Seq(T) /\ Len(more) = Len(ms) + 1
      /\ \A n \in 1..Len(ms) : more[n] = ms[n]
  OBVIOUS
<1> HIDE DEF more
<1>2. Stepwise(k, Len(ms), <<>>, step)
  BY KeptStepwise
<1>3. /\ l[0] = <<>> /\ \A n \in 0..Len(more) : l[n] \in Seq(T)
      /\ \A n \in 1..Len(more) : l[n] = IF more[n] \in taken THEN Append(l[n - 1], more[n]) ELSE l[n - 1]
  BY <1>1, KeptEquations
<1> HIDE DEF k, l
<1>4. ASSUME NEW n \in 1..Len(ms)
      PROVE  l[n] = step[n][l[n - 1]]
  <2>1. l[n] = IF ms[n] \in taken THEN Append(l[n - 1], ms[n]) ELSE l[n - 1]
    BY <1>1, <1>3
  <2>2. l[n - 1] \in Seq(T)
    BY <1>1, <1>3
  <2> QED
    BY <2>1, <2>2 DEF Keeping
<1> HIDE DEF step
<1>5. Stepwise(l, Len(ms), <<>>, step)
  BY <1>3, <1>4 DEF Stepwise
<1>6. \A n \in 0..Len(ms) : l[n] = k[n]
  BY <1>1, <1>2, <1>5, OneSolution
<1> QED
  BY <1>6 DEF k, l, more

\* A prefix is one of the longer sequence too.
LEMMA PrefixOfLonger ==
  ASSUME NEW T, NEW s \in Seq(T), NEW t \in Seq(T), NEW x \in T, IsPrefix(s, t)
  PROVE  IsPrefix(s, Append(t, x))
<1> DEFINE u == Append(t, x)
<1>1. /\ Len(s) \in Nat /\ Len(t) \in Nat /\ Len(s) <= Len(t)
      /\ SubSeq(s, 1, Len(s)) = SubSeq(t, 1, Len(s))
  BY DEF IsPrefix
<1>2. u \in Seq(T) /\ Len(u) = Len(t) + 1 /\ \A i \in 1..Len(t) : u[i] = t[i]
  OBVIOUS
<1> HIDE DEF u
<1>3. SubSeq(u, 1, Len(s)) = SubSeq(t, 1, Len(s))
  BY <1>1, <1>2
<1>4. Len(s) <= Len(u)
  BY <1>1, <1>2
<1> QED
  BY <1>1, <1>3, <1>4 DEF IsPrefix, u

\* What is kept of the first messages comes first in what is kept of all.
LEMMA KeptPrefix ==
  ASSUME NEW T, NEW ms \in Seq(T), NEW taken, NEW k \in 0..Len(ms)
  PROVE  IsPrefix(Kept(ms, taken)[k], Kept(ms, taken)[Len(ms)])
<1> DEFINE N == Len(ms)
           l == Kept(ms, taken)
           S == {n \in 0..N : n >= k => IsPrefix(l[k], l[n])}
<1>1. N \in Nat /\ \A n \in 1..N : ms[n] \in T
  BY LenProperties, ElementOfSeq
<1>2. /\ \A n \in 0..N : l[n] \in Seq(T)
      /\ \A n \in 1..N : l[n] = IF ms[n] \in taken THEN Append(l[n - 1], ms[n]) ELSE l[n - 1]
  BY KeptEquations
<1> HIDE DEF N, l
<1>3. k \in 0..N
  BY DEF N
<1>4. IsPrefix(l[k], l[k])
  <2>1. l[k] \in Seq(T)
    BY <1>2, <1>3
  <2>2. Len(l[k]) \in Nat
    BY <2>1
  <2> QED
    BY <2>2 DEF IsPrefix
<1>5. 0 \in S
  BY <1>1, <1>3, <1>4
<1>6. ASSUME NEW n \in 0..(N - 1), n \in S
      PROVE  n + 1 \in S
  <2>1. /\ n + 1 \in 1..N /\ n + 1 \in 0..N /\ (n + 1) - 1 = n
        /\ ms[n + 1] \in T /\ l[n] \in Seq(T) /\ l[k] \in Seq(T)
    BY <1>1, <1>2, <1>3
  <2>2. l[n + 1] = IF ms[n + 1] \in taken THEN Append(l[n], ms[n + 1]) ELSE l[n]
    BY <1>2, <2>1
  <2>3. CASE n >= k
    <3>1. IsPrefix(l[k], l[n])
      BY <1>6, <2>3
    <3>2. IsPrefix(l[k], Append(l[n], ms[n + 1]))
      BY <2>1, <3>1, PrefixOfLonger
    <3> QED
      BY <2>1, <2>2, <3>1, <3>2
  <2>4. CASE n + 1 = k
    BY <1>4, <2>1, <2>4
  <2>5. CASE n + 1 < k
    BY <1>3, <2>1, <2>5
  <2> QED
    BY <1>1, <1>3, <2>3, <2>4, <2>5
<1> HIDE DEF S
<1>7. 0..N \subseteq S
  BY <1>1, <1>5, <1>6, Induct
<1>8. IsPrefix(l[k], l[N])
  BY <1>1, <1>3, <1>7 DEF S
<1> QED
  BY <1>8 DEF l, N

-----------------------------------------------------------------------------

\* border tells where the messages end: the frame of the i-th lies between
\* border[i - 1] and border[i], and the last one ends where w does.
Framing(border, ms, w) ==
  /\ border \in [0..Len(ms) -> 0..Len(w)]
  /\ border[0] = 0 /\ border[Len(ms)] = Len(w)
  /\ \A i \in 1..Len(ms) :
       border[i] = border[i - 1] + FrameLength(ms[i]) /\ HoldsAt(w, border[i - 1], ms[i])

\* The reader is at the end of the k-th message, or after the header of the
\* next, which it then has right; and it has passed on what was to be kept.
ReaderAt(border, k) ==
  /\ queue = Kept(sent, Accepted)[k]
  /\ header = <<>> => read = border[k]
  /\ header # <<>> =>
       /\ reader = "python" /\ k < Len(sent) /\ read = border[k] + 5
       /\ header = <<Len(sent[k + 1][2]), sent[k + 1][1]>>

InPlace ==
  \E border \in [0..Len(sent) -> 0..Len(wire)], k \in 0..Len(sent) :
    Framing(border, sent, wire) /\ ReaderAt(border, k)

StreamInv == TypeOK /\ InPlace

\* Of no message the borders are one: 0.
LEMMA StreamInit == Init => StreamInv
<1> SUFFICES ASSUME Init PROVE StreamInv
  OBVIOUS
<1> DEFINE border == [i \in 0..0 |-> 0]
<1>1. TypeOK
  <2>1. sent = <<>> /\ wire = <<>> /\ queue = <<>> /\ arrived = 0 /\ read = 0
    BY DEF Init
  <2>2. /\ sent \in Seq(Symbols \X Payloads) /\ queue \in Seq(Symbols \X Payloads)
        /\ wire \in Seq(Bytes) /\ Len(wire) = 0
    BY <2>1
  <2>3. arrived \in 0..Len(wire) /\ read \in 0..arrived
    BY <2>1, <2>2
  <2> QED
    BY <2>2, <2>3 DEF Init, TypeOK
<1>2. Len(sent) = 0 /\ Len(wire) = 0 /\ sent \in Seq(Symbols \X Payloads)
  BY DEF Init
<1>3. border \in [0..Len(sent) -> 0..Len(wire)] /\ border[0] = 0
  BY <1>2
<1> HIDE DEF border
<1>4. Framing(border, sent, wire)
  BY <1>2, <1>3 DEF Framing
<1>5. queue = Kept(sent, Accepted)[0]
  <2> DEFINE T == Symbols \X Payloads
  <2>1. sent \in Seq(T)
    BY <1>2
  <2> HIDE DEF T
  <2>2. Kept(sent, Accepted)[0] = <<>>
    BY <2>1, KeptEquations
  <2> QED
    BY <2>2 DEF Init
<1>6. ReaderAt(border, 0)
  BY <1>3, <1>5 DEF ReaderAt, Init
<1>7. 0 \in 0..Len(sent)
  BY <1>2
<1> QED
  BY <1>1, <1>3, <1>4, <1>6, <1>7 DEF StreamInv, InPlace

\* A message is written behind those that were.
LEMMA SendStep ==
  ASSUME StreamInv, NEW s \in Symbols, NEW p \in Payloads, Send(s, p)
  PROVE  StreamInv'
<1> DEFINE m == <<s, p>>
           F == Frame(m)
           n == Len(sent)
           l == Len(wire)
<1>1. /\ m \in Symbols \X Payloads /\ m[1] = s /\ m[2] = p
      /\ s \in Bytes /\ p \in Seq(Bytes) /\ Len(p) \in Int
  <2>1. m \in Symbols \X Payloads /\ m[1] = s /\ m[2] = p
    OBVIOUS
  <2> HIDE DEF m
  <2>2. m[1] \in Bytes /\ m[2] \in Seq(Bytes) /\ Len(m[2]) \in Nat
    BY <2>1, Messages
  <2> QED
    BY <2>1, <2>2
<1>2. F \in Seq(Bytes) /\ Len(F) = FrameLength(m) /\ FrameLength(m) \in Nat
  <2> HIDE DEF m
  <2>1. F \in Seq(Bytes) /\ Len(F) = 5 + Len(m[2]) /\ FrameLength(m) = 5 + Len(m[2])
    BY <1>1, Framed
  <2>2. Len(m[2]) \in Nat
    BY <1>1
  <2> QED
    BY <2>1, <2>2
<1>3. wire' = wire \o F
  <2> DEFINE h == Pack(TRUE, HeaderFormat, <<Len(p), s>>)
  <2>1. wire' = wire \o h \o p
    BY DEF Send
  <2>2. F = h \o p
    BY <1>1 DEF Frame
  <2>3. h = HeaderOf(Len(p), s)
    BY <1>1, PackedHeader DEF HeaderOf
  <2>4. h \in Seq(Bytes)
    BY <1>1, <2>3, HeaderBytes
  <2> HIDE DEF h, F
  <2>5. wire \in Seq(Bytes)
    BY DEF StreamInv, TypeOK
  <2>6. (wire \o h) \o p = wire \o (h \o p)
    BY <1>1, <2>4, <2>5, ConcatAssociative
  <2> QED
    BY <2>1, <2>2, <2>6
<1>4. /\ sent \in Seq(Symbols \X Payloads) /\ wire \in Seq(Bytes) /\ n \in Nat /\ l \in Nat
      /\ sent' = Append(sent, m)
  BY DEF StreamInv, TypeOK, Send
<1> HIDE DEF m, F, n, l
<1>5. /\ Len(sent') = n + 1 /\ sent'[n + 1] = m /\ sent' \in Seq(Symbols \X Payloads)
      /\ \A i \in 1..n : sent'[i] = sent[i]
  BY <1>1, <1>4 DEF n
<1>6. /\ wire' \in Seq(Bytes) /\ Len(wire') = l + FrameLength(m)
      /\ \A i \in 1..l : wire'[i] = wire[i]
      /\ \A i \in 1..FrameLength(m) : wire'[l + i] = F[i]
  BY <1>2, <1>3, <1>4, Joined DEF l
<1>7. TypeOK'
  <2>1. arrived \in 0..Len(wire')
    BY <1>2, <1>4, <1>6 DEF StreamInv, TypeOK, l
  <2> QED
    BY <1>5, <1>6, <2>1 DEF StreamInv, TypeOK, Send
<1>8. PICK border \in [0..n -> 0..l], k \in 0..n : Framing(border, sent, wire) /\ ReaderAt(border, k)
  BY DEF StreamInv, InPlace, n, l
<1>9. PICK border2 \in [0..(n + 1) -> 0..Len(wire')] :
        border2[n + 1] = l + FrameLength(m) /\ \A i \in 0..n : border2[i] = border[i]
  <2> DEFINE b == [i \in 0..(n + 1) |-> IF i <= n THEN border[i] ELSE l + FrameLength(m)]
  <2>1. \A i \in 0..n : border[i] \in 0..l
    BY <1>8
  <2>2. \A i \in 0..n : i \in 0..(n + 1) /\ i <= n
    BY <1>4
  <2>3. n + 1 \in 0..(n + 1) /\ ~(n + 1 <= n)
    BY <1>4
  <2>4. ASSUME NEW i \in 0..(n + 1)
        PROVE  (IF i <= n THEN border[i] ELSE l + FrameLength(m)) \in 0..Len(wire')
    <3>1. CASE i <= n
      BY <1>2, <1>4, <1>6, <2>1, <3>1
    <3>2. CASE ~(i <= n)
      BY <1>2, <1>4, <1>6, <3>2
    <3> QED
      BY <3>1, <3>2
  <2>5. /\ b \in [0..(n + 1) -> 0..Len(wire')] /\ b[n + 1] = l + FrameLength(m)
        /\ \A i \in 0..n : b[i] = border[i]
    BY <2>2, <2>3, <2>4
  <2> HIDE DEF b
  <2> QED
    BY <2>5
<1>10. Framing(border, sent, wire)
  BY <1>8
<1>11. /\ border[0] = 0 /\ border[n] = l
       /\ \A i \in 1..n : border[i] = border[i - 1] + FrameLength(sent[i])
       /\ \A i \in 1..n : HoldsAt(wire, border[i - 1], sent[i])
  BY <1>10 DEF Framing, n, l
<1>12. ASSUME NEW i \in 1..(n + 1)
       PROVE  /\ border2[i] = border2[i - 1] + FrameLength(sent'[i])
              /\ HoldsAt(wire', border2[i - 1], sent'[i])
  <2>1. CASE i \in 1..n
    <3>1. i - 1 \in 0..n /\ i \in 0..n
      BY <1>4, <2>1
    <3>2. border2[i] = border[i] /\ border2[i - 1] = border[i - 1] /\ sent'[i] = sent[i]
      BY <1>5, <1>9, <2>1, <3>1
    <3>3. border[i] = border[i - 1] + FrameLength(sent[i]) /\ HoldsAt(wire, border[i - 1], sent[i])
      BY <1>11, <2>1
    <3>4. sent[i] \in Symbols \X Payloads
      BY <1>4, <2>1, ElementOfSeq DEF n
    <3>5. FrameLength(sent[i]) \in Nat
      <4>1. FrameLength(sent[i]) = 5 + Len(sent[i][2])
        BY <3>4, Framed
      <4>2. Len(sent[i][2]) \in 0..MaxOf("L")
        BY <3>4, Messages
      <4> QED
        BY <4>1, <4>2
    <3>6. border[i - 1] \in 0..l
      BY <1>8, <3>1
    <3>7. HoldsAt(wire', border[i - 1], sent[i])
      <4> DEFINE p0 == border[i - 1]
                 f == FrameLength(sent[i])
                 fm == FrameLength(m)
                 l2 == Len(wire')
      <4>1. p0 + f <= l /\ \A j \in 1..f : wire[p0 + j] = Frame(sent[i])[j]
        BY <3>3 DEF HoldsAt, l
      <4>2. p0 \in Nat /\ f \in Nat /\ fm \in Nat /\ l2 = l + fm
        BY <1>2, <1>6, <3>5, <3>6
      <4> HIDE DEF p0, f, fm, l2
      <4>3. p0 + f <= l2
        BY <1>4, <4>1, <4>2
      <4>4. \A j \in 1..f : wire'[p0 + j] = Frame(sent[i])[j]
        <5> SUFFICES ASSUME NEW j \in 1..f
                     PROVE  wire'[p0 + j] = Frame(sent[i])[j]
          OBVIOUS
        <5>1. p0 + j \in 1..l
          BY <1>4, <4>1, <4>2
        <5> QED
          BY <1>6, <4>1, <5>1
      <4> QED
        BY <4>3, <4>4 DEF HoldsAt, p0, f, l2
    <3> QED
      BY <3>2, <3>3, <3>7
  <2>2. CASE i = n + 1
    <3>1. i - 1 = n /\ n \in 0..n /\ sent'[i] = m
      BY <1>4, <1>5, <2>2
    <3>2. border2[i] = l + FrameLength(m) /\ border2[i - 1] = l
      BY <1>9, <1>11, <2>2, <3>1
    <3>3. HoldsAt(wire', l, m)
      <4>1. l + FrameLength(m) <= Len(wire')
        BY <1>2, <1>4, <1>6
      <4>2. \A j \in 1..FrameLength(m) : wire'[l + j] = Frame(m)[j]
        BY <1>6 DEF F
      <4> QED
        BY <4>1, <4>2 DEF HoldsAt
    <3> QED
      BY <3>1, <3>2, <3>3
  <2>3. i \in 1..n \/ i = n + 1
    BY <1>4
  <2> QED
    BY <2>1, <2>2, <2>3, Zenon
<1>13. Framing(border2, sent', wire')
  <2>1. 0 \in 0..n
    BY <1>4
  <2>2. border2[0] = 0
    BY <1>9, <1>11, <2>1
  <2> QED
    BY <1>5, <1>6, <1>9, <1>12, <2>2 DEF Framing
<1>14. ReaderAt(border2, k)'
  <2>1. /\ UNCHANGED <<reader, queue, header, read>> /\ Accepted' = Accepted
    BY DEF Send, Accepted, Supported
  <2>2. Kept(sent', Accepted)[k] = Kept(sent, Accepted)[k]
    <3> DEFINE T == Symbols \X Payloads
    <3>1. sent \in Seq(T) /\ m \in T /\ k \in 0..Len(sent)
      BY <1>1, <1>4 DEF n
    <3> HIDE DEF T
    <3>2. Kept(Append(sent, m), Accepted)[k] = Kept(sent, Accepted)[k]
      BY <3>1, KeptOfMore
    <3> QED
      BY <1>4, <3>2
  <2>3. /\ queue = Kept(sent, Accepted)[k]
        /\ header = <<>> => read = border[k]
        /\ header # <<>> =>
             /\ reader = "python" /\ k < n /\ read = border[k] + 5
             /\ header = <<Len(sent[k + 1][2]), sent[k + 1][1]>>
    BY <1>8 DEF ReaderAt, n
  <2>4. border2[k] = border[k]
    BY <1>9
  <2>5. k < n => k + 1 \in 1..n /\ k < n + 1 /\ sent'[k + 1] = sent[k + 1]
    BY <1>4, <1>5
  <2>6. queue' = Kept(sent', Accepted')[k]
    BY <2>1, <2>2, <2>3
  <2>7. header' = <<>> => read' = border2[k]
    BY <2>1, <2>3, <2>4
  <2>8. header' # <<>> =>
          /\ reader' = "python" /\ k < Len(sent') /\ read' = border2[k] + 5
          /\ header' = <<Len(sent'[k + 1][2]), sent'[k + 1][1]>>
    BY <1>5, <2>1, <2>3, <2>4, <2>5
  <2> QED
    BY <2>6, <2>7, <2>8 DEF ReaderAt
<1>15. k \in 0..Len(sent') /\ border2 \in [0..Len(sent') -> 0..Len(wire')]
  BY <1>4, <1>5, <1>9
<1> QED
  BY <1>7, <1>13, <1>14, <1>15 DEF StreamInv, InPlace

\* Between two messages the reader finds the next one, as it was sent.
LEMMA NextMessage ==
  ASSUME TypeOK, NEW border \in [0..Len(sent) -> 0..Len(wire)], NEW k \in 0..Len(sent),
         Framing(border, sent, wire), k < Len(sent)
  PROVE  LET m == sent[k + 1]
             n == Len(m[2])
             p == border[k]
         IN /\ m \in Symbols \X Payloads /\ p \in Nat /\ n \in Nat /\ border[k + 1] = p + 5 + n
            /\ Unpack(TRUE, HeaderFormat, SubSeq(wire, p + 1, p + 5)) = <<n, m[1]>>
            /\ SubSeq(wire, (p + 5) + 1, (p + 5) + n) = m[2]
<1> DEFINE m == sent[k + 1]
           n == Len(m[2])
           p == border[k]
           T == Symbols \X Payloads
<1>1. sent \in Seq(T) /\ wire \in Seq(Bytes)
  BY DEF TypeOK
<1> HIDE DEF T
<1>2. Len(sent) \in Nat /\ Len(wire) \in Nat
  BY <1>1, LenProperties
<1>3. k + 1 \in 1..Len(sent) /\ (k + 1) - 1 = k
  BY <1>2
<1>4. m \in Symbols \X Payloads
  BY <1>1, <1>3, ElementOfSeq DEF T
<1>5. border[k + 1] = border[(k + 1) - 1] + FrameLength(m) /\ HoldsAt(wire, border[(k + 1) - 1], m)
  BY <1>3 DEF Framing
<1>6. border[k + 1] = p + FrameLength(m) /\ HoldsAt(wire, p, m)
  BY <1>3, <1>5
<1>7. p \in Nat
  BY <1>2
<1> HIDE DEF m, n, p
<1>8. n \in Nat
  <2>1. n \in 0..MaxOf("L")
    BY <1>4, Messages DEF n
  <2> QED
    BY <2>1
<1>9. FrameLength(m) = 5 + n
  BY <1>4, Framed DEF n
<1>10. border[k + 1] = p + 5 + n
  BY <1>6, <1>7, <1>8, <1>9
<1>11. /\ Unpack(TRUE, HeaderFormat, SubSeq(wire, p + 1, p + 5)) = <<n, m[1]>>
       /\ SubSeq(wire, (p + 5) + 1, (p + 5) + n) = m[2]
  BY <1>1, <1>4, <1>6, <1>7, Found DEF n
<1> QED
  BY <1>4, <1>7, <1>8, <1>10, <1>11 DEF m, n, p

\* What is passed on of the next message is what is to be kept of it.
LEMMA Delivered ==
  ASSUME TypeOK, NEW k \in 0..Len(sent), k < Len(sent), queue = Kept(sent, Accepted)[k],
         Deliver(sent[k + 1][1], sent[k + 1][2])
  PROVE  queue' = Kept(sent, Accepted)[k + 1] /\ queue' \in Seq(Symbols \X Payloads)
<1> DEFINE T == Symbols \X Payloads
           m == sent[k + 1]
<1>1. sent \in Seq(T)
  BY DEF TypeOK
<1>2. Len(sent) \in Nat
  BY DEF TypeOK
<1> HIDE DEF T, m
<1>3. k + 1 \in 1..Len(sent) /\ k + 1 \in 0..Len(sent) /\ (k + 1) - 1 = k
  <2> DEFINE l == Len(sent)
  <2>1. l \in Nat /\ k \in 0..l /\ k < l
    BY <1>2
  <2> HIDE DEF l
  <2>2. k + 1 \in 1..l /\ k + 1 \in 0..l /\ (k + 1) - 1 = k
    BY <2>1
  <2> QED
    BY <2>2 DEF l
<1>4. m = <<m[1], m[2]>>
  <2>1. m \in T
    BY <1>1, <1>3, ElementOfSeq DEF m
  <2> QED
    BY <2>1, Messages DEF T
<1>5. /\ Kept(sent, Accepted)[k + 1] \in Seq(T)
      /\ Kept(sent, Accepted)[k + 1] =
           IF m \in Accepted THEN Append(Kept(sent, Accepted)[k], m) ELSE Kept(sent, Accepted)[k]
  <2> DEFINE taken == Accepted
             l == Kept(sent, taken)
  <2> HIDE DEF taken
  <2>1. /\ \A n \in 0..Len(sent) : l[n] \in Seq(T)
        /\ \A n \in 1..Len(sent) :
             l[n] = IF sent[n] \in taken THEN Append(l[n - 1], sent[n]) ELSE l[n - 1]
    BY <1>1, KeptEquations
  <2> HIDE DEF l
  <2>2. l[k + 1] \in Seq(T)
    BY <1>3, <2>1
  <2>3. l[k + 1] = IF m \in taken THEN Append(l[k], m) ELSE l[k]
    BY <1>3, <2>1 DEF m
  <2> QED
    BY <2>2, <2>3 DEF l, taken
<1>6. queue' = IF m \in Accepted THEN Append(queue, m) ELSE queue
  BY <1>4 DEF Deliver, m
<1>7. queue' = Kept(sent, Accepted)[k + 1]
  BY <1>5, <1>6
<1> QED
  BY <1>5, <1>7 DEF T

\* A reader that has not read a header and has bytes to read is at a message.
LEMMA MessageThere ==
  ASSUME TypeOK, NEW border \in [0..Len(sent) -> 0..Len(wire)], NEW k \in 0..Len(sent),
         Framing(border, sent, wire), read = border[k], Available > 0
  PROVE  k < Len(sent)
<1>1. border[Len(sent)] = Len(wire)
  BY DEF Framing
<1>2. Len(sent) \in Nat /\ Len(wire) \in Nat /\ arrived \in 0..Len(wire) /\ read \in 0..arrived
  BY DEF TypeOK
<1>3. arrived > read
  BY <1>2 DEF Available
<1>4. k # Len(sent)
  BY <1>1, <1>2, <1>3
<1> QED
  BY <1>2, <1>4

\* The extension takes a message as a whole, or stops where it is.
LEMMA ExtensionStep ==
  ASSUME StreamInv, OnInputStreamReady
  PROVE  StreamInv'
<1> DEFINE meta  == Unpack(TRUE, HeaderFormat, Octets(1, HeaderLength))
           whole == Available >= HeaderLength /\ Available - HeaderLength >= meta[1]
<1>1. PICK border \in [0..Len(sent) -> 0..Len(wire)], k \in 0..Len(sent) :
        Framing(border, sent, wire) /\ ReaderAt(border, k)
  BY DEF StreamInv, InPlace
<1>2. TypeOK
  BY DEF StreamInv
<1>3. /\ reader = "extension" /\ Available > 0
      /\ UNCHANGED <<reader, sent, wire, arrived, header, broken>>
  BY DEF OnInputStreamReady
<1>4. header = <<>> /\ read = border[k] /\ queue = Kept(sent, Accepted)[k]
  BY <1>1, <1>3 DEF ReaderAt
<1>5. k < Len(sent)
  BY <1>1, <1>2, <1>3, <1>4, MessageThere
<1> DEFINE m == sent[k + 1]
           n == Len(m[2])
           p == border[k]
<1>6. /\ m \in Symbols \X Payloads /\ p \in Nat /\ n \in Nat /\ border[k + 1] = p + 5 + n
      /\ Unpack(TRUE, HeaderFormat, SubSeq(wire, p + 1, p + 5)) = <<n, m[1]>>
      /\ SubSeq(wire, (p + 5) + 1, (p + 5) + n) = m[2]
  BY <1>1, <1>2, <1>5, NextMessage
<1>7. HeaderLength = 5 /\ arrived \in Nat /\ Len(sent) \in Nat
  BY <1>2, HeaderIsFive DEF TypeOK
<1> HIDE DEF m, n, p
<1>8. read = p
  BY <1>4 DEF p
<1>9. Octets(1, HeaderLength) = SubSeq(wire, p + 1, p + 5)
  <2>1. read + 1 + HeaderLength - 1 = p + 5
    BY <1>6, <1>7, <1>8
  <2> QED
    BY <1>8, <2>1 DEF Octets
<1>10. meta = <<n, m[1]>>
  BY <1>6, <1>9
<1>11. Octets(HeaderLength + 1, n) = m[2]
  <2>1. read + (HeaderLength + 1) = (p + 5) + 1 /\ read + (HeaderLength + 1) + n - 1 = (p + 5) + n
    BY <1>6, <1>7, <1>8
  <2>2. Octets(HeaderLength + 1, n) =
          SubSeq(wire, read + (HeaderLength + 1), read + (HeaderLength + 1) + n - 1)
    BY DEF Octets
  <2> QED
    BY <1>6, <2>1, <2>2
<1>12. \/ /\ whole
          /\ Deliver(meta[2], Octets(HeaderLength + 1, meta[1]))
          /\ read' = read + HeaderLength + Taken(meta[2], meta[1])
          /\ listening' = AsksAgain(meta[2]) /\ UNCHANGED stuck
       \/ /\ ~whole
          /\ listening' = FALSE /\ stuck' = TRUE
          /\ UNCHANGED <<read, queue>>
  BY DEF OnInputStreamReady
<1> HIDE DEF meta
<1>13. meta[1] = n /\ meta[2] = m[1]
  BY <1>10
<1>14. Framing(border, sent', wire')
  BY <1>1, <1>3
<1>15. CASE /\ whole
            /\ Deliver(meta[2], Octets(HeaderLength + 1, meta[1]))
            /\ read' = read + HeaderLength + Taken(meta[2], meta[1])
            /\ listening' = AsksAgain(meta[2]) /\ UNCHANGED stuck
  <2>1. Deliver(m[1], m[2])
    BY <1>11, <1>13, <1>15
  <2>2. queue' = Kept(sent, Accepted)[k + 1] /\ queue' \in Seq(Symbols \X Payloads)
    BY <1>2, <1>4, <1>5, <2>1, Delivered DEF m
  <2>3. read' = p + 5 + n
    BY <1>6, <1>7, <1>8, <1>13, <1>15 DEF Taken
  <2>4. read' \in 0..arrived
    <3>1. arrived - p - 5 >= n
      BY <1>6, <1>7, <1>8, <1>13, <1>15 DEF Available
    <3> QED
      BY <1>6, <1>7, <2>3, <3>1
  <2>5. listening' \in BOOLEAN
    BY <1>15 DEF AsksAgain
  <2>6. TypeOK'
    BY <1>2, <1>3, <1>15, <2>2, <2>4, <2>5 DEF TypeOK
  <2>7. ReaderAt(border, k + 1)'
    <3>1. Accepted' = Accepted
      BY <1>3 DEF Accepted, Supported
    <3>2. queue' = Kept(sent', Accepted')[k + 1]
      BY <1>3, <2>2, <3>1
    <3>3. header' = <<>> /\ read' = border[k + 1]
      BY <1>3, <1>4, <1>6, <2>3
    <3> QED
      BY <3>2, <3>3 DEF ReaderAt
  <2>8. k + 1 \in 0..Len(sent')
    BY <1>3, <1>5, <1>7
  <2>9. border \in [0..Len(sent') -> 0..Len(wire')]
    BY <1>3
  <2> QED
    BY <1>14, <2>6, <2>7, <2>8, <2>9 DEF StreamInv, InPlace
<1>16. CASE /\ ~whole
            /\ listening' = FALSE /\ stuck' = TRUE
            /\ UNCHANGED <<read, queue>>
  <2>1. TypeOK'
    BY <1>2, <1>3, <1>16 DEF TypeOK
  <2>2. ReaderAt(border, k)'
    BY <1>1, <1>3, <1>16 DEF ReaderAt, Accepted, Supported
  <2>3. k \in 0..Len(sent') /\ border \in [0..Len(sent') -> 0..Len(wire')]
    BY <1>3
  <2> QED
    BY <1>14, <2>1, <2>2, <2>3 DEF StreamInv, InPlace
<1> QED
  BY <1>12, <1>15, <1>16

\* Python reads a header and stands behind it.
LEMMA HeaderStep ==
  ASSUME StreamInv, ReceiveHeader
  PROVE  StreamInv'
<1>1. PICK border \in [0..Len(sent) -> 0..Len(wire)], k \in 0..Len(sent) :
        Framing(border, sent, wire) /\ ReaderAt(border, k)
  BY DEF StreamInv, InPlace
<1>2. TypeOK
  BY DEF StreamInv
<1>3. /\ reader = "python" /\ header = <<>> /\ Available >= HeaderLength
      /\ header' = Unpack(TRUE, HeaderFormat, Octets(1, HeaderLength))
      /\ read' = read + HeaderLength
      /\ UNCHANGED <<reader, sent, wire, arrived, listening, broken, queue, stuck>>
  BY DEF ReceiveHeader
<1>4. read = border[k] /\ queue = Kept(sent, Accepted)[k]
  BY <1>1, <1>3 DEF ReaderAt
<1>5. HeaderLength = 5 /\ arrived \in Nat /\ Len(sent) \in Nat /\ read \in 0..arrived
  BY <1>2, HeaderIsFive DEF TypeOK
<1>6. Available > 0
  BY <1>3, <1>5 DEF Available
<1>7. k < Len(sent)
  BY <1>1, <1>2, <1>4, <1>6, MessageThere
<1> DEFINE m == sent[k + 1]
           n == Len(m[2])
           p == border[k]
<1>8. /\ m \in Symbols \X Payloads /\ p \in Nat /\ n \in Nat
      /\ Unpack(TRUE, HeaderFormat, SubSeq(wire, p + 1, p + 5)) = <<n, m[1]>>
  BY <1>1, <1>2, <1>7, NextMessage
<1> HIDE DEF m, n, p
<1>9. read = p
  BY <1>4 DEF p
<1>10. Octets(1, HeaderLength) = SubSeq(wire, p + 1, p + 5)
  <2>1. read + 1 + HeaderLength - 1 = p + 5
    BY <1>5, <1>8, <1>9
  <2> QED
    BY <1>9, <2>1 DEF Octets
<1>11. header' = <<n, m[1]>> /\ header' # <<>>
  <2>1. header' = <<n, m[1]>>
    BY <1>3, <1>8, <1>10
  <2>2. <<n, m[1]>> # <<>>
    OBVIOUS
  <2> QED
    BY <2>1, <2>2
<1>12. read' = p + 5 /\ read' \in 0..arrived
  BY <1>3, <1>5, <1>8, <1>9 DEF Available
<1>13. TypeOK'
  BY <1>2, <1>3, <1>12 DEF TypeOK
<1>14. Framing(border, sent', wire')
  BY <1>1, <1>3
<1>15. ReaderAt(border, k)'
  <2>1. Accepted' = Accepted
    BY <1>3 DEF Accepted, Supported
  <2>2. queue' = Kept(sent', Accepted')[k]
    BY <1>3, <1>4, <2>1
  <2>3. reader' = "python" /\ k < Len(sent') /\ read' = border[k] + 5
    BY <1>3, <1>7, <1>12 DEF p
  <2>4. header' = <<Len(sent'[k + 1][2]), sent'[k + 1][1]>>
    BY <1>3, <1>11 DEF m, n
  <2> QED
    BY <1>11, <2>2, <2>3, <2>4 DEF ReaderAt
<1>16. k \in 0..Len(sent') /\ border \in [0..Len(sent') -> 0..Len(wire')]
  BY <1>3
<1> QED
  BY <1>13, <1>14, <1>15, <1>16 DEF StreamInv, InPlace

\* Python reads a payload and is at the next message.
LEMMA PayloadStep ==
  ASSUME StreamInv, ReceivePayload
  PROVE  StreamInv'
<1>1. PICK border \in [0..Len(sent) -> 0..Len(wire)], k \in 0..Len(sent) :
        Framing(border, sent, wire) /\ ReaderAt(border, k)
  BY DEF StreamInv, InPlace
<1>2. TypeOK
  BY DEF StreamInv
<1>3. /\ header # <<>> /\ Available >= header[1]
      /\ Deliver(header[2], Octets(1, header[1]))
      /\ read' = read + header[1] /\ header' = <<>>
      /\ UNCHANGED <<reader, sent, wire, arrived, broken>>
  BY DEF ReceivePayload
<1> DEFINE m == sent[k + 1]
           n == Len(m[2])
           p == border[k]
<1>4. /\ queue = Kept(sent, Accepted)[k] /\ k < Len(sent) /\ read = p + 5
      /\ header[1] = n /\ header[2] = m[1]
  BY <1>1, <1>3 DEF ReaderAt
<1>5. /\ p \in Nat /\ n \in Nat /\ border[k + 1] = p + 5 + n
      /\ SubSeq(wire, (p + 5) + 1, (p + 5) + n) = m[2]
  BY <1>1, <1>2, <1>4, NextMessage
<1>6. arrived \in Nat /\ Len(sent) \in Nat
  BY <1>2 DEF TypeOK
<1> HIDE DEF m, n, p
<1>7. Octets(1, header[1]) = m[2]
  <2>1. read + 1 = (p + 5) + 1 /\ read + 1 + n - 1 = (p + 5) + n
    BY <1>4, <1>5
  <2>2. Octets(1, header[1]) = SubSeq(wire, read + 1, read + 1 + n - 1)
    BY <1>4 DEF Octets
  <2> QED
    BY <1>5, <2>1, <2>2
<1>8. Deliver(m[1], m[2])
  BY <1>3, <1>4, <1>7
<1>9. queue' = Kept(sent, Accepted)[k + 1] /\ queue' \in Seq(Symbols \X Payloads)
  BY <1>2, <1>4, <1>8, Delivered DEF m
<1>10. read' = border[k + 1] /\ read' \in 0..arrived
  BY <1>3, <1>4, <1>5, <1>6 DEF Available
<1>11. TypeOK'
  <2>1. listening' \in BOOLEAN /\ stuck' \in BOOLEAN
    BY <1>2 DEF ReceivePayload, TypeOK
  <2> QED
    BY <1>2, <1>3, <1>9, <1>10, <2>1 DEF TypeOK
<1>12. Framing(border, sent', wire')
  BY <1>1, <1>3
<1>13. ReaderAt(border, k + 1)'
  <2>1. Accepted' = Accepted
    BY <1>3 DEF Accepted, Supported
  <2>2. queue' = Kept(sent', Accepted')[k + 1]
    BY <1>3, <1>9, <2>1
  <2> QED
    BY <1>3, <1>10, <2>2 DEF ReaderAt
<1>14. k + 1 \in 0..Len(sent') /\ border \in [0..Len(sent') -> 0..Len(wire')]
  BY <1>3, <1>4, <1>6
<1> QED
  BY <1>11, <1>12, <1>13, <1>14 DEF StreamInv, InPlace

\* The network, the end of the stream and a step of somebody else.
LEMMA OtherStep ==
  ASSUME StreamInv, Arrive \/ Break \/ EndOfStream \/ UNCHANGED vars
  PROVE  StreamInv'
<1>1. PICK border \in [0..Len(sent) -> 0..Len(wire)], k \in 0..Len(sent) :
        Framing(border, sent, wire) /\ ReaderAt(border, k)
  BY DEF StreamInv, InPlace
<1>2. UNCHANGED <<reader, sent, wire, read, header, queue>>
  BY DEF Arrive, Break, EndOfStream, vars
<1>3. TypeOK'
  <2>1. CASE Arrive
    <3>1. arrived' \in 0..Len(wire) /\ read \in 0..arrived'
      BY <2>1 DEF Arrive, StreamInv, TypeOK
    <3> QED
      BY <1>2, <2>1, <3>1 DEF Arrive, StreamInv, TypeOK
  <2>2. CASE Break \/ EndOfStream \/ UNCHANGED vars
    BY <2>2 DEF Break, EndOfStream, vars, StreamInv, TypeOK
  <2> QED
    BY <2>1, <2>2
<1>4. Framing(border, sent', wire')
  BY <1>1, <1>2
<1>5. ReaderAt(border, k)'
  BY <1>1, <1>2 DEF ReaderAt, Accepted, Supported
<1>6. k \in 0..Len(sent') /\ border \in [0..Len(sent') -> 0..Len(wire')]
  BY <1>2
<1> QED
  BY <1>3, <1>4, <1>5, <1>6 DEF StreamInv, InPlace

\* The reader keeps its place in every step.
LEMMA StreamStep == StreamInv /\ [Next]_vars => StreamInv'
<1> SUFFICES ASSUME StreamInv, [Next]_vars PROVE StreamInv'
  OBVIOUS
<1>1. ASSUME NEW s \in Symbols, NEW p \in Payloads, Send(s, p) PROVE StreamInv'
  BY <1>1, SendStep
<1>2. CASE OnInputStreamReady
  BY <1>2, ExtensionStep
<1>3. CASE ReceiveHeader
  BY <1>3, HeaderStep
<1>4. CASE ReceivePayload
  BY <1>4, PayloadStep
<1>5. CASE Arrive \/ Break \/ EndOfStream \/ UNCHANGED vars
  BY <1>5, OtherStep
<1> QED
  BY <1>1, <1>2, <1>3, <1>4, <1>5 DEF Next, Reader

\* What the reader has passed on are the first of the messages it ought to.
LEMMA StreamHolds == StreamInv => NothingGarbled
<1> SUFFICES ASSUME StreamInv PROVE NothingGarbled
  OBVIOUS
<1> DEFINE T == Symbols \X Payloads
           taken == Accepted
<1>1. PICK k \in 0..Len(sent) : queue = Kept(sent, Accepted)[k]
  BY DEF StreamInv, InPlace, ReaderAt
<1>2. sent \in Seq(T)
  BY DEF StreamInv, TypeOK
<1> HIDE DEF T, taken
<1>3. IsPrefix(Kept(sent, taken)[k], Kept(sent, taken)[Len(sent)])
  BY <1>2, KeptPrefix
<1> QED
  BY <1>1, <1>3 DEF NothingGarbled, Expected, taken

\* The variables of the connection keep their types.
THEOREM TypeCorrect == Spec => []TypeOK
<1>1. Spec => []StreamInv
  BY StreamInit, StreamStep, PTL DEF Spec
<1>2. StreamInv => TypeOK
  BY DEF StreamInv
<1> QED
  BY <1>1, <1>2, PTL

\* Whatever is sent and however the network cuts the stream, either reader
\* passes on the messages that it accepts, unchanged and in their order, and
\* nothing else (NothingGarbled).
THEOREM StreamIntact == Spec => []NothingGarbled
<1>1. Spec => []StreamInv
  BY StreamInit, StreamStep, PTL DEF Spec
<1> QED
  BY <1>1, StreamHolds, PTL
-----------------------------------------------------------------------------

\* What a step does to the messages that are to be kept and to those passed on.
LEMMA PipeStep ==
  ASSUME StreamInv, [Next]_vars
  PROVE  \/ Expected' = Expected /\ queue' = queue
         \/ queue' = queue /\ \E m \in Symbols \X Payloads : Expected' = Append(Expected, m)
         \/ Expected' = Expected /\ \E m : queue' = Append(queue, m)
<1>1. ASSUME NEW s \in Symbols, NEW p \in Payloads, Send(s, p)
      PROVE  /\ queue' = queue
             /\ Expected' \in {Expected, Append(Expected, <<s, p>>)}
  <2> DEFINE T == Symbols \X Payloads
             m == <<s, p>>
             n == Len(sent)
             more == Append(sent, m)
             taken == Accepted
             l == Kept(more, taken)
  <2>1. /\ sent \in Seq(T) /\ m \in T /\ m[1] = s /\ n \in Nat
        /\ more \in Seq(T) /\ Len(more) = n + 1 /\ more[n + 1] = m
    BY DEF StreamInv, TypeOK
  <2>2. sent' = more /\ Accepted' = taken /\ queue' = queue
    BY <1>1 DEF Send, Accepted, Supported
  <2>3. Expected = Kept(sent, taken)[n] /\ Expected' = Kept(more, taken)[n + 1]
    BY <2>1, <2>2 DEF Expected
  <2> HIDE DEF T, m, n, more, taken
  <2>4. n \in 0..Len(sent) /\ n + 1 \in 1..Len(more) /\ (n + 1) - 1 = n
    BY <2>1 DEF n
  <2>5. l[n] = Kept(sent, taken)[n]
    BY <2>1, <2>4, KeptOfMore DEF more
  <2>6. \A i \in 1..Len(more) :
          l[i] = IF more[i] \in taken THEN Append(l[i - 1], more[i]) ELSE l[i - 1]
    BY <2>1, KeptEquations
  <2> HIDE DEF l
  <2>7. l[n + 1] = IF more[n + 1] \in taken THEN Append(l[n], more[n + 1]) ELSE l[n]
    BY <2>4, <2>6
  <2>8. Expected' = IF m \in taken THEN Append(Expected, m) ELSE Expected
    BY <2>1, <2>3, <2>5, <2>7 DEF l
  <2> QED
    BY <2>2, <2>8 DEF m
<1>2. ASSUME NEW symbol, NEW payload, Deliver(symbol, payload)
      PROVE  queue' = queue \/ \E m : queue' = Append(queue, m)
  BY <1>2 DEF Deliver
<1>3. ASSUME OnInputStreamReady \/ ReceivePayload
      PROVE  Expected' = Expected /\ (queue' = queue \/ \E m : queue' = Append(queue, m))
  <2>1. UNCHANGED <<reader, sent>>
    BY <1>3 DEF OnInputStreamReady, ReceivePayload
  <2>2. queue' = queue \/ \E symbol, payload : Deliver(symbol, payload)
    BY <1>3 DEF OnInputStreamReady, ReceivePayload
  <2> QED
    BY <1>2, <2>1, <2>2 DEF Expected, Accepted, Supported
<1>4. ASSUME ReceiveHeader \/ Arrive \/ Break \/ EndOfStream \/ UNCHANGED vars
      PROVE  Expected' = Expected /\ queue' = queue
  BY <1>4 DEF ReceiveHeader, Arrive, Break, EndOfStream, vars, Expected, Accepted, Supported
<1> QED
  BY <1>1, <1>3, <1>4 DEF Next, Reader

\* What is left of t when s comes first in it.
Rest(s, t) == SubSeq(t, Len(s) + 1, Len(t))

\* A longer t leaves more, at the end.
LEMMA RestGrows ==
  ASSUME NEW T, NEW s \in Seq(T), NEW t \in Seq(T), NEW x \in T, IsPrefix(s, t)
  PROVE  Rest(s, Append(t, x)) = Append(Rest(s, t), x)
<1> DEFINE a == Len(s)
           b == Len(t)
           u == Append(t, x)
<1>1. a \in Nat /\ b \in Nat /\ a <= b
  BY DEF IsPrefix
<1>2. /\ u \in Seq(T) /\ Len(u) = b + 1 /\ u[b + 1] = x
      /\ \A i \in 1..b : u[i] = t[i]
  OBVIOUS
<1> HIDE DEF u
<1>3. SubSeq(u, a + 1, b + 1) = SubSeq(u, a + 1, b) \o <<x>>
  <2> DEFINE i == a + 1
             j == b + 1
  <2>1. i \in 1..Len(u) /\ j \in i..Len(u) /\ j - 1 = b
    BY <1>1, <1>2
  <2> HIDE DEF i, j
  <2>2. SubSeq(u, i, j) = SubSeq(u, i, j - 1) \o <<u[j]>>
    BY <1>2, <2>1, SubSeqRecursiveSecond
  <2> QED
    BY <1>2, <2>1, <2>2 DEF i, j
<1>4. SubSeq(u, a + 1, b) = SubSeq(t, a + 1, b)
  BY <1>1, <1>2
<1>5. SubSeq(t, a + 1, b) \in Seq(T)
  BY <1>1
<1> DEFINE v == SubSeq(t, a + 1, b)
<1> HIDE DEF v
<1>6. v \o <<x>> = Append(v, x)
  BY <1>5, AppendIsConcat DEF v
<1>7. SubSeq(u, a + 1, Len(u)) = Append(SubSeq(t, a + 1, b), x)
  BY <1>2, <1>3, <1>4, <1>6 DEF v
<1> QED
  BY <1>7 DEF Rest, u

\* A longer s leaves less, without the first.
LEMMA RestShrinks ==
  ASSUME NEW T, NEW s \in Seq(T), NEW t \in Seq(T), NEW x, IsPrefix(Append(s, x), t)
  PROVE  /\ Rest(s, t) # <<>> /\ Head(Rest(s, t)) = x
         /\ Tail(Rest(s, t)) = Rest(Append(s, x), t)
<1> DEFINE a == Len(s)
           b == Len(t)
           u == Append(s, x)
<1>1. a \in Nat /\ b \in Nat
  OBVIOUS
<1>2. Len(u) = a + 1 /\ u[a + 1] = x
  BY <1>1
<1> HIDE DEF u
<1>3. a + 1 <= b /\ SubSeq(u, 1, a + 1) = SubSeq(t, 1, a + 1)
  BY <1>2 DEF IsPrefix, u
<1>4. SubSeq(u, 1, a + 1)[a + 1] = u[a + 1] /\ SubSeq(t, 1, a + 1)[a + 1] = t[a + 1]
  BY <1>1, <1>2, <1>3
<1>5. t[a + 1] = x
  BY <1>2, <1>3, <1>4
<1>6. a + 1 \in 1..Len(t) /\ b \in (a + 1)..Len(t)
  BY <1>1, <1>3
<1>7. /\ Head(SubSeq(t, a + 1, b)) = t[a + 1]
      /\ Tail(SubSeq(t, a + 1, b)) = SubSeq(t, (a + 1) + 1, b)
  BY <1>6, HeadTailOfSubSeq
<1>8. SubSeq(t, a + 1, b) # <<>>
  <2> DEFINE i == a + 1
             v == SubSeq(t, i, b)
  <2>1. i \in Int /\ b \in Int /\ i <= b /\ \A k \in i..b : t[k] \in T
    BY <1>1, <1>3, ElementOfSeq
  <2> HIDE DEF i
  <2>2. Len(v) = b - i + 1
    BY <2>1, SubSeqProperties
  <2> HIDE DEF v
  <2>3. v # <<>>
    BY <2>1, <2>2, EmptySeq
  <2> QED
    BY <2>3 DEF v, i
<1> QED
  BY <1>2, <1>5, <1>7, <1>8 DEF Rest, u

\* Every step of the connection is a step of a queue of messages, or none.
THEOREM ImplementsPipe == Spec => PipeSpec
<1> DEFINE T == Symbols \X Payloads
           W == Rest(queue, Expected)
<1>1. Spec => []StreamInv
  BY StreamInit, StreamStep, PTL DEF Spec
<1>2. StreamInv => queue \in Seq(T) /\ Expected \in Seq(T) /\ IsPrefix(queue, Expected)
  <2> SUFFICES ASSUME StreamInv
               PROVE  queue \in Seq(T) /\ Expected \in Seq(T) /\ IsPrefix(queue, Expected)
    OBVIOUS
  <2>1. queue \in Seq(T) /\ sent \in Seq(T) /\ Len(sent) \in Nat
    BY DEF StreamInv, TypeOK
  <2> DEFINE taken == Accepted
  <2> HIDE DEF T, taken
  <2>2. Kept(sent, taken)[Len(sent)] \in Seq(T)
    BY <2>1, KeptEquations
  <2>3. IsPrefix(queue, Expected)
    BY StreamHolds DEF NothingGarbled
  <2> QED
    BY <2>1, <2>2, <2>3 DEF Expected, taken
<1>3. Init => Pipe!Init
  <2> SUFFICES ASSUME Init PROVE Pipe!Init
    OBVIOUS
  <2>1. Expected = <<>>
    <3> DEFINE taken == Accepted
    <3>1. sent \in Seq(T) /\ sent = <<>>
      BY DEF Init
    <3> HIDE DEF T, taken
    <3>2. sent \in Seq(T)
      BY <3>1
    <3>3. Kept(sent, taken)[0] = <<>>
      BY <3>2, KeptEquations
    <3>4. Len(sent) = 0
      BY <3>1
    <3> QED
      BY <3>3, <3>4 DEF Expected, taken
  <2>2. queue = <<>>
    BY DEF Init
  <2>3. SubSeq(Expected, Len(queue) + 1, Len(Expected)) = <<>>
    BY <2>1, <2>2
  <2> QED
    BY <2>2, <2>3 DEF Pipe!Init
<1>4. StreamInv' => NothingGarbled'
  BY StreamHolds, PTL
<1>5. StreamInv /\ [Next]_vars => [Pipe!Next]_(Pipe!pipe)
  <2> SUFFICES ASSUME StreamInv, [Next]_vars PROVE [Pipe!Next]_(Pipe!pipe)
    OBVIOUS
  <2>1. queue \in Seq(T) /\ Expected \in Seq(T) /\ IsPrefix(queue, Expected)
    BY <1>2
  <2>2. IsPrefix(queue', Expected')
    BY <1>4, StreamStep DEF NothingGarbled
  <2>3. CASE Expected' = Expected /\ queue' = queue
    BY <2>3 DEF Pipe!pipe
  <2>4. ASSUME NEW m \in Symbols \X Payloads, queue' = queue, Expected' = Append(Expected, m)
        PROVE  Pipe!Enter(m)
    <3>1. Rest(queue, Append(Expected, m)) = Append(Rest(queue, Expected), m)
      BY <2>1, <2>4, RestGrows
    <3> QED
      BY <2>4, <3>1 DEF Pipe!Enter, Rest
  <2>5. ASSUME NEW m, Expected' = Expected, queue' = Append(queue, m)
        PROVE  Pipe!Leave
    <3>1. IsPrefix(Append(queue, m), Expected)
      BY <2>2, <2>5
    <3>2. /\ Rest(queue, Expected) # <<>> /\ Head(Rest(queue, Expected)) = m
          /\ Tail(Rest(queue, Expected)) = Rest(Append(queue, m), Expected)
      <4> HIDE DEF T
      <4> QED
        BY <2>1, <3>1, RestShrinks
    <3> QED
      BY <2>5, <3>2 DEF Pipe!Leave, Rest
  <2> QED
    BY <2>3, <2>4, <2>5, PipeStep DEF Pipe!Next
<1> QED
  BY <1>1, <1>3, <1>5, PTL DEF Spec, PipeSpec, Pipe!Spec
=============================================================================
