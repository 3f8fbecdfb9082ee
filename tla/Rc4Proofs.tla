----------------------------- MODULE Rc4Proofs -----------------------------
(***************************************************************************)
(* Words, and what RC4 does to them: the key schedule leaves a state of    *)
(* RC4, pack and unpack are each other's inverse, also where the red       *)
(* channel makes the word negative, and a word that is encrypted twice     *)
(* with the same byte is itself again.                                     *)
(*                                                                         *)
(* Induction over the natural numbers is used as a fact about sets of      *)
(* numbers, and recursion as one about a function of the steps, so that    *)
(* neither needs an operator parameter.                                    *)
(***************************************************************************)
EXTENDS Rc4, WellFoundedInduction, TLAPS

-----------------------------------------------------------------------------
(* Induction and recursion. *)

\* A set with 0 and every successor of its members has all natural numbers.
LEMMA InductionOnSets ==
    ASSUME NEW S, 0 \in S, \A n \in Nat : n \in S => n + 1 \in S
    PROVE  Nat \subseteq S
<1> DEFINE T == {n \in Nat : n \notin S}
<1> SUFFICES ASSUME T # {} PROVE FALSE
  OBVIOUS
<1>1. PICK m \in T : \A n \in T : m <= n
  <2>1. PICK m \in T : \A n \in T : <<n, m>> \notin OpToRel(<, Nat)
    BY NatLessThanWellFounded, WFMin, Zenon
  <2>2. \A n \in T : ~(n < m)
    BY <2>1 DEF OpToRel
  <2> QED
    BY <2>2
<1>2. m # 0 /\ m - 1 \in Nat
  OBVIOUS
<1>3. m - 1 \in S
  BY <1>1, <1>2
<1> QED
  BY <1>2, <1>3

\* The first n values of the sequence that starts with x and goes on by g.
Begins(x, g, f, n) ==
    f[0] = x /\ \A m \in 0..n - 1 : f[m + 1] = g[<<m, f[m]>>]

LEMMA BeginningExists ==
    ASSUME NEW S, NEW x \in S, NEW g \in [Nat \X S -> S]
    PROVE  \A n \in Nat : \E f \in [0..n -> S] : Begins(x, g, f, n)
<1> DEFINE T == {n \in Nat : \E f \in [0..n -> S] : Begins(x, g, f, n)}
<1>1. 0 \in T
  <2> DEFINE f == [m \in 0..0 |-> x]
  <2>1. f \in [0..0 -> S] /\ Begins(x, g, f, 0)
    BY DEF Begins
  <2> QED
    BY <2>1
<1>2. ASSUME NEW n \in Nat, n \in T PROVE n + 1 \in T
  <2>1. PICK f \in [0..n -> S] : Begins(x, g, f, n)
    BY <1>2
  <2> DEFINE h == [m \in 0..n + 1 |-> IF m = n + 1 THEN g[<<n, f[n]>>] ELSE f[m]]
  <2>2. h \in [0..n + 1 -> S]
    <3>1. g[<<n, f[n]>>] \in S
      OBVIOUS
    <3> QED
      BY <3>1
  <2>3. h[0] = x
    BY <2>1 DEF Begins
  <2>4. ASSUME NEW m \in 0..n PROVE h[m + 1] = g[<<m, h[m]>>]
    <3>1. h[m] = f[m] /\ m + 1 \in 0..n + 1
      OBVIOUS
    <3>2. CASE m = n
      <4>1. h[m + 1] = g[<<n, f[n]>>]
        BY <3>1, <3>2
      <4> QED
        BY <3>1, <3>2, <4>1
    <3>3. CASE m # n
      <4>1. h[m + 1] = f[m + 1] /\ m \in 0..n - 1
        BY <3>1, <3>3
      <4> QED
        BY <2>1, <3>1, <4>1 DEF Begins
    <3> QED
      BY <3>2, <3>3
  <2> HIDE DEF h
  <2>5. Begins(x, g, h, n + 1)
    BY <2>3, <2>4 DEF Begins
  <2> QED
    BY <2>2, <2>5
<1> HIDE DEF T
<1>3. Nat \subseteq T
  BY <1>1, <1>2, InductionOnSets
<1> QED
  BY <1>3 DEF T

LEMMA BeginningUnique ==
    ASSUME NEW x, NEW g, NEW n \in Nat, NEW k \in Nat, NEW e, NEW f,
           Begins(x, g, e, n), Begins(x, g, f, k)
    PROVE  \A m \in Nat : m <= n /\ m <= k => e[m] = f[m]
<1> DEFINE T == {m \in Nat : m <= n /\ m <= k => e[m] = f[m]}
<1>1. 0 \in T
  BY DEF Begins
<1>2. ASSUME NEW m \in Nat, m \in T PROVE m + 1 \in T
  <2> SUFFICES ASSUME m + 1 <= n, m + 1 <= k PROVE e[m + 1] = f[m + 1]
    OBVIOUS
  <2>1. m \in 0..n - 1 /\ m \in 0..k - 1
    OBVIOUS
  <2>2. e[m] = f[m]
    BY <1>2
  <2>3. e[m + 1] = g[<<m, e[m]>>] /\ f[m + 1] = g[<<m, f[m]>>]
    BY <2>1 DEF Begins
  <2> QED
    BY <2>2, <2>3
<1> HIDE DEF T
<1>3. Nat \subseteq T
  BY <1>1, <1>2, InductionOnSets
<1> QED
  BY <1>3 DEF T

Steps(S) == [Nat \X S -> S]

IsSequence(f, S, x, g) ==
    /\ f \in [Nat -> S]
    /\ f[0] = x /\ \A n \in Nat : f[n + 1] = g[<<n, f[n]>>]

\* Recursion: there is a sequence that starts with x and goes on by g.
LEMMA SequenceExists ==
    ASSUME NEW S, NEW x, x \in S, NEW g, g \in Steps(S)
    PROVE  \E f : IsSequence(f, S, x, g)
<1> USE DEF Steps
<1> DEFINE B(n) == CHOOSE f \in [0..n -> S] : Begins(x, g, f, n)
           F == [n \in Nat |-> B(n)[n]]
<1>1. ASSUME NEW n \in Nat
      PROVE  B(n) \in [0..n -> S] /\ Begins(x, g, B(n), n)
  BY BeginningExists
<1>2. ASSUME NEW n \in Nat PROVE F[n] = B(n)[n] /\ F[n] \in S
  BY <1>1
<1>3. F \in [Nat -> S]
  BY <1>2
<1> HIDE DEF B
<1>4. F[0] = x
  BY <1>1, <1>2 DEF Begins
<1>5. ASSUME NEW n \in Nat PROVE F[n + 1] = g[<<n, F[n]>>]
  <2>1. n + 1 \in Nat
    OBVIOUS
  <2>2. Begins(x, g, B(n), n) /\ Begins(x, g, B(n + 1), n + 1)
    BY <1>1, <2>1
  <2>3. B(n + 1)[n] = B(n)[n]
    BY <2>1, <2>2, BeginningUnique
  <2>4. B(n + 1)[n + 1] = g[<<n, B(n + 1)[n]>>]
    BY <2>2 DEF Begins
  <2> QED
    BY <1>2, <2>1, <2>3, <2>4
<1> HIDE DEF F
<1> QED
  BY <1>3, <1>4, <1>5 DEF IsSequence

-----------------------------------------------------------------------------
(* Words. *)

\* A remainder is a byte.
LEMMA ModByte ==
    ASSUME NEW v \in Int
    PROVE  v % ByteSize \in Byte
BY ByteAssumption DEF Byte

\* The product of four bytes' sizes.
LEMMA WordSizeType ==
    WordSize \in Nat /\ WordSize > 0 /\ MaxInt \in Int
    /\ MaxInt < WordSize /\ MaxInt >= -1 /\ Word \subseteq Int
<1>1. ByteSize * ByteSize \in Nat /\ ByteSize * ByteSize > 0
  BY ByteAssumption
<1>2. /\ ByteSize * ByteSize * ByteSize \in Nat
      /\ ByteSize * ByteSize * ByteSize > 0
  BY <1>1, ByteAssumption
<1>3. WordSize \in Nat /\ WordSize > 0
  BY <1>2, ByteAssumption DEF WordSize
<1> QED
  BY <1>3 DEF MaxInt, Word

\* Whatever the result, an int keeps an int of it.
LEMMA WrapType ==
    ASSUME NEW v \in Int
    PROVE  Wrap(v) \in Word
<1>1. v % WordSize \in 0..WordSize - 1
  BY WordSizeType
<1> QED
  BY <1>1, WordSizeType DEF Wrap, Word

\* A word stays one when its channels are exchanged for other bytes.
LEMMA XorWordType ==
    ASSUME NEW p \in Int, NEW b \in Byte
    PROVE  XorWord(p, b) \in Word
<1> DEFINE B == ByteSize
           B2 == B * B
           B3 == B * B * B
           c == unpack(p)
           x == <<XorByte(c[1], b), XorByte(c[2], b),
                  XorByte(c[3], b), XorByte(c[4], b)>>
<1>1. B \in Nat /\ B > 0
  BY ByteAssumption
<1>2. B2 \in Nat /\ B2 > 0
  BY <1>1
<1>3. B3 \in Nat /\ B3 > 0
  BY <1>1, <1>2
<1>4. p \div B3 \in Int /\ p \div B2 \in Int /\ p \div B \in Int
  BY <1>1, <1>2, <1>3
<1>5. /\ (p \div B3) % B \in Byte /\ (p \div B2) % B \in Byte
      /\ (p \div B) % B \in Byte /\ p % B \in Byte
  <2> HIDE DEF B2, B3
  <2> QED
    BY <1>4, ModByte
<1>6. /\ c[1] = (p \div B3) % B /\ c[2] = (p \div B2) % B
      /\ c[3] = (p \div B) % B /\ c[4] = p % B
  BY DEF unpack
<1>7. c[1] \in Byte /\ c[2] \in Byte /\ c[3] \in Byte /\ c[4] \in Byte
  <2> HIDE DEF B, B2, B3, c
  <2> QED
    BY <1>5, <1>6
<1>8. x[1] \in Int /\ x[2] \in Int /\ x[3] \in Int /\ x[4] \in Int
  <2>1. \A q \in Byte : XorByte(q, b) \in Int
    BY XorAssumption, ByteAssumption DEF Byte
  <2> HIDE DEF c
  <2> QED
    BY <1>7, <2>1
<1>9. /\ x[1] * B3 \in Int /\ x[2] * B2 \in Int
      /\ x[3] * B \in Int /\ x[4] \in Int
  <2> HIDE DEF B, B2, B3, x
  <2> QED
    BY <1>1, <1>2, <1>3, <1>8
<1>10. x[1] * B3 + x[2] * B2 + x[3] * B + x[4] \in Int
  <2> HIDE DEF B, B2, B3, x
  <2> QED
    BY <1>9
<1>11. pack(x) \in Word
  <2> HIDE DEF x
  <2> QED
    BY <1>10, WrapType DEF pack
<1>12. XorWord(p, b) = pack(x)
  BY DEF XorWord
<1> QED
  BY <1>11, <1>12

\* Quotient and remainder, of a number that is written with them.
LEMMA DivMod ==
    ASSUME NEW d \in Nat, d > 0, NEW q \in Int, NEW r \in 0..d - 1
    PROVE  (q * d + r) \div d = q /\ (q * d + r) % d = r
<1> DEFINE v == q * d + r
           p == v \div d
           m == v % d
<1>1. q * d \in Int /\ v \in Int
  OBVIOUS
<1>2. p \in Int /\ m \in 0..d - 1 /\ v = d * p + m
  <2> HIDE DEF v
  <2> QED
    BY <1>1
<1>3. d * p = p * d
  BY <1>2
<1>4. (q - p) * d = m - r
  BY <1>1, <1>2, <1>3
<1> HIDE DEF v, p, m
<1>5. q - p = 0
  <2>1. CASE q - p >= 1
    <3>1. (q - p) * d >= d
      BY <1>2, <2>1
    <3> QED
      BY <1>2, <1>4, <3>1
  <2>2. CASE q - p <= -1
    <3>1. (q - p) * d <= -d
      BY <1>2, <2>2
    <3> QED
      BY <1>2, <1>4, <3>1
  <2> QED
    BY <1>2, <2>1, <2>2
<1>6. m = r
  BY <1>2, <1>4, <1>5
<1> QED
  BY <1>2, <1>5, <1>6 DEF v, p, m

\* The number that four bytes stand for, and what the sign bit takes off.
Unsigned(c) ==
    c[1] * (ByteSize * ByteSize * ByteSize) + c[2] * (ByteSize * ByteSize)
    + c[3] * ByteSize + c[4]

Bytes == Byte \X Byte \X Byte \X Byte

\* The channels of a number that is written with them, whatever is left of
\* the red one.
LEMMA Channels ==
    ASSUME NEW q \in Int, NEW c2 \in Byte, NEW c3 \in Byte, NEW c4 \in Byte,
           NEW p,
           p = q * (ByteSize * ByteSize * ByteSize) + c2 * (ByteSize * ByteSize)
               + c3 * ByteSize + c4
    PROVE  unpack(p) = <<q % ByteSize, c2, c3, c4>>
<1> DEFINE B == ByteSize
           B2 == B * B
           B3 == B * B * B
<1>1. B \in Nat /\ B > 0 /\ Byte = 0..B - 1
  BY ByteAssumption DEF Byte
<1>2. B2 \in Nat /\ B2 > 0 /\ B3 \in Nat /\ B3 > 0 /\ B3 = B2 * B /\ B2 = B * B
  <2>1. B2 \in Nat /\ B2 > 0
    BY <1>1
  <2>2. B3 = B2 * B
    OBVIOUS
  <2> HIDE DEF B2, B3
  <2>3. B3 \in Nat /\ B3 > 0
    BY <1>1, <2>1, <2>2
  <2> QED
    BY <2>1, <2>2, <2>3 DEF B2
<1>3. p = q * B3 + c2 * B2 + c3 * B + c4
  OBVIOUS
<1>4. unpack(p) = <<(p \div B3) % B, (p \div B2) % B, (p \div B) % B, p % B>>
  BY DEF unpack
<1> HIDE DEF B, B2, B3
<1> DEFINE r2 == c3 * B + c4
           r3 == c2 * B2 + r2
           q2 == q * B + c2
           q3 == q2 * B + c3
<1>5. c2 \in 0..B - 1 /\ c3 \in 0..B - 1 /\ c4 \in 0..B - 1
  BY <1>1
<1>6. r2 \in 0..B2 - 1
  <2>1. c3 * B \in Int /\ c3 * B >= 0 /\ c3 * B <= (B - 1) * B
    BY <1>1, <1>5
  <2>2. (B - 1) * B = B2 - B
    BY <1>1, <1>2
  <2> QED
    BY <1>1, <1>2, <1>5, <2>1, <2>2
<1>7. r3 \in 0..B3 - 1
  <2>1. c2 * B2 \in Int /\ c2 * B2 >= 0 /\ c2 * B2 <= (B - 1) * B2
    BY <1>1, <1>2, <1>5
  <2>2. (B - 1) * B2 = B3 - B2
    BY <1>1, <1>2
  <2> HIDE DEF r2
  <2> QED
    BY <1>1, <1>2, <1>5, <1>6, <2>1, <2>2
<1>8. q2 \in Int /\ q3 \in Int
  BY <1>1, <1>5
<1>9. p = q * B3 + r3
  BY <1>1, <1>2, <1>3, <1>5
<1>10. p = q2 * B2 + r2
  <2>1. (q * B + c2) * B2 = q * B3 + c2 * B2
    BY <1>1, <1>2, <1>5
  <2> QED
    BY <1>1, <1>2, <1>3, <1>5, <2>1
<1>11. p = q3 * B + c4
  <2>1. (q2 * B + c3) * B = q2 * B2 + c3 * B
    BY <1>1, <1>2, <1>5, <1>8
  <2> QED
    BY <1>1, <1>2, <1>5, <1>8, <1>10, <2>1
<1> HIDE DEF r2, r3, q3
<1> HIDE DEF q2
<1>12. p \div B3 = q /\ p \div B2 = q2 /\ p \div B = q3 /\ p % B = c4
  <2>1. p \div B3 = q
    <3>1. (q * B3 + r3) \div B3 = q
      BY <1>2, <1>7, DivMod
    <3> QED
      BY <1>9, <3>1
  <2>2. p \div B2 = q2
    BY <1>2, <1>6, <1>8, <1>10, DivMod
  <2>3. p \div B = q3 /\ p % B = c4
    BY <1>1, <1>5, <1>8, <1>11, DivMod
  <2> QED
    BY <2>1, <2>2, <2>3
<1>13. q2 % B = c2
  BY <1>1, <1>5, DivMod DEF q2
<1>14. q3 % B = c3
  BY <1>1, <1>5, <1>8, DivMod DEF q3
<1> QED
  BY <1>4, <1>12, <1>13, <1>14 DEF B

LEMMA BytesTimes ==
    ASSUME NEW b \in Nat, b > 0, NEW d \in Nat, NEW x \in 0..b - 1
    PROVE  /\ x * d \in Int /\ x * d >= 0 /\ x * d <= (b - 1) * d
           /\ (b - 1) * d = d * b - d /\ d * b \in Int
OBVIOUS

LEMMA QuotientRemainder ==
    ASSUME NEW d \in Nat, d > 0, NEW v \in Int
    PROVE  \E q \in Int, r \in 0..d - 1 : v = q * d + r
<1> DEFINE p == v \div d
           m == v % d
<1>1. p \in Int /\ m \in 0..d - 1 /\ v = d * p + m
  OBVIOUS
<1> HIDE DEF p, m
<1>2. d * p = p * d
  BY <1>1
<1>3. v = p * d + m
  BY <1>1, <1>2
<1> QED
  BY <1>1, <1>3

\* A number is a byte and what is before it.
LEMMA LastByte ==
    ASSUME NEW p \in Int
    PROVE  \E q \in Int, x \in Byte : p = q * ByteSize + x
<1>1. ByteSize \in Nat /\ ByteSize > 0
  BY ByteAssumption
<1>2. \E q \in Int, x \in 0..ByteSize - 1 : p = q * ByteSize + x
  BY <1>1, QuotientRemainder
<1> QED
  BY <1>2 DEF Byte

LEMMA UnsignedType ==
    ASSUME NEW c \in Bytes
    PROVE  Unsigned(c) \in 0..WordSize - 1
<1> DEFINE B == ByteSize
           B2 == B * B
           B3 == B2 * B
<1>1. B \in Nat /\ B > 0 /\ Byte = 0..B - 1
  BY ByteAssumption DEF Byte
<1>2. B2 \in Nat /\ B2 > 0 /\ B3 \in Nat /\ B3 > 0
  <2>1. B2 \in Nat /\ B2 > 0
    BY <1>1
  <2> HIDE DEF B2
  <2> QED
    BY <1>1, <2>1
<1>3. c[1] \in 0..B - 1 /\ c[2] \in 0..B - 1 /\ c[3] \in 0..B - 1 /\ c[4] \in 0..B - 1
  BY <1>1 DEF Bytes
<1>4. Unsigned(c) = c[1] * B3 + c[2] * B2 + c[3] * B + c[4] /\ WordSize = B3 * B
  BY DEF Unsigned, WordSize
<1>5. /\ c[3] * B \in Int /\ c[3] * B >= 0 /\ c[3] * B <= (B - 1) * B
      /\ (B - 1) * B = B2 - B
  BY <1>1, <1>3, BytesTimes
<1> HIDE DEF B2
<1>6. /\ c[2] * B2 \in Int /\ c[2] * B2 >= 0 /\ c[2] * B2 <= (B - 1) * B2
      /\ (B - 1) * B2 = B3 - B2
  BY <1>1, <1>2, <1>3, BytesTimes
<1> HIDE DEF B3
<1>7. /\ c[1] * B3 \in Int /\ c[1] * B3 >= 0 /\ c[1] * B3 <= (B - 1) * B3
      /\ (B - 1) * B3 = B3 * B - B3 /\ B3 * B \in Int
  BY <1>1, <1>2, <1>3, BytesTimes
<1> HIDE DEF B
<1> DEFINE x1 == c[1] * B3
           x2 == c[2] * B2
           x3 == c[3] * B
           x4 == c[4]
           W == B3 * B
<1>8. /\ x1 \in Int /\ x1 >= 0 /\ x1 <= W - B3 /\ W \in Int
      /\ x2 \in Int /\ x2 >= 0 /\ x2 <= B3 - B2
      /\ x3 \in Int /\ x3 >= 0 /\ x3 <= B2 - B
      /\ x4 \in Int /\ x4 >= 0 /\ x4 <= B - 1
  <2>1. x1 \in Int /\ x1 >= 0 /\ x1 <= W - B3 /\ W \in Int
    BY <1>7
  <2>2. x2 \in Int /\ x2 >= 0 /\ x2 <= B3 - B2
    BY <1>6
  <2>3. x3 \in Int /\ x3 >= 0 /\ x3 <= B2 - B
    BY <1>5
  <2>4. x4 \in Int /\ x4 >= 0 /\ x4 <= B - 1
    BY <1>1, <1>3
  <2> QED
    BY <2>1, <2>2, <2>3, <2>4
<1>9. Unsigned(c) = x1 + x2 + x3 + x4 /\ WordSize = W
  BY <1>4
<1> HIDE DEF x1, x2, x3, x4, W
<1> QED
  BY <1>1, <1>2, <1>8, <1>9

\* A number of bytes is its own low bits, or stands for a negative word.
LEMMA WrapUnsigned ==
    ASSUME NEW v \in 0..WordSize - 1
    PROVE  Wrap(v) = IF v > MaxInt THEN v - WordSize ELSE v
<1>1. v = 0 * WordSize + v
  BY WordSizeType
<1>2. (0 * WordSize + v) % WordSize = v
  BY WordSizeType, DivMod
<1>3. v % WordSize = v
  BY <1>1, <1>2
<1> QED
  BY <1>3 DEF Wrap

LEMMA UnpackPack ==
    ASSUME NEW c \in Bytes
    PROVE  unpack(pack(c)) = c /\ pack(c) \in Word
<1>1. /\ c[1] \in Byte /\ c[2] \in Byte /\ c[3] \in Byte /\ c[4] \in Byte
      /\ c = <<c[1], c[2], c[3], c[4]>>
  BY DEF Bytes
<1>2. ByteSize \in Nat /\ ByteSize > 0 /\ Byte = 0..ByteSize - 1
  BY ByteAssumption DEF Byte
<1> DEFINE B3 == ByteSize * ByteSize * ByteSize
           r == c[2] * (ByteSize * ByteSize) + c[3] * ByteSize + c[4]
<1>3. /\ Unsigned(c) = c[1] * B3 + c[2] * (ByteSize * ByteSize) + c[3] * ByteSize + c[4]
      /\ pack(c) = Wrap(Unsigned(c)) /\ WordSize = B3 * ByteSize
  BY DEF Unsigned, pack, WordSize
<1>4. Unsigned(c) \in 0..WordSize - 1
  BY UnsignedType
<1>5. pack(c) \in Word
  BY <1>3, <1>4, WordSizeType, WrapType
<1>6. CASE Unsigned(c) <= MaxInt
  <2>1. pack(c) = Unsigned(c)
    BY <1>3, <1>4, <1>6, WordSizeType, WrapUnsigned
  <2>2. c[1] % ByteSize = c[1]
    BY <1>1, <1>2
  <2>3. unpack(Unsigned(c)) = <<c[1] % ByteSize, c[2], c[3], c[4]>>
    <3>1. c[1] \in Int
      BY <1>1, <1>2
    <3>2. Unsigned(c) = c[1] * (ByteSize * ByteSize * ByteSize)
              + c[2] * (ByteSize * ByteSize) + c[3] * ByteSize + c[4]
      BY DEF Unsigned
    <3> QED
      BY <1>1, <3>1, <3>2, Channels
  <2> QED
    BY <1>1, <1>5, <2>1, <2>2, <2>3
<1>7. CASE Unsigned(c) > MaxInt
  <2>1. pack(c) = Unsigned(c) - WordSize
    BY <1>3, <1>4, <1>7, WordSizeType, WrapUnsigned
  <2>3. (c[1] - ByteSize) % ByteSize = c[1]
    <3> DEFINE d == ByteSize
               q == -1
               x == c[1]
    <3>1. d \in Nat /\ d > 0 /\ q \in Int /\ x \in 0..d - 1
      BY <1>1, <1>2
    <3>2. c[1] - ByteSize = q * d + x
      BY <1>1, <1>2
    <3> HIDE DEF d, q, x
    <3>3. (q * d + x) % d = x
      BY <3>1, DivMod
    <3> QED
      BY <3>2, <3>3 DEF d, x
  <2>4. pack(c) = (c[1] - ByteSize) * B3 + c[2] * (ByteSize * ByteSize)
                  + c[3] * ByteSize + c[4]
    <3>1. B3 \in Int
      BY <1>2
    <3> HIDE DEF B3
    <3>2. (c[1] - ByteSize) * B3 = c[1] * B3 - B3 * ByteSize
      BY <1>1, <1>2, <3>1
    <3>3. c[1] * B3 \in Int /\ B3 * ByteSize \in Int
      BY <1>1, <1>2, <3>1
    <3>4. c[2] * (ByteSize * ByteSize) \in Int /\ c[3] * ByteSize \in Int /\ c[4] \in Int
      BY <1>1, <1>2
    <3> QED
      BY <1>3, <2>1, <3>2, <3>3, <3>4
  <2>5. c[1] - ByteSize \in Int
    BY <1>1, <1>2
  <2>6. unpack(pack(c)) = <<(c[1] - ByteSize) % ByteSize, c[2], c[3], c[4]>>
    BY <1>1, <2>4, <2>5, Channels
  <2> QED
    BY <1>1, <1>5, <2>3, <2>6
<1> QED
  BY <1>4, <1>6, <1>7, WordSizeType

LEMMA PackUnpack ==
    ASSUME NEW p \in Word
    PROVE  unpack(p) \in Bytes /\ pack(unpack(p)) = p
<1> DEFINE B == ByteSize
           B2 == B * B
           B3 == B2 * B
<1>1. B \in Nat /\ B > 0 /\ Byte = 0..B - 1 /\ p \in Int
  BY ByteAssumption, WordSizeType DEF Byte
<1>2. B2 \in Nat /\ B3 \in Nat /\ WordSize = B3 * B /\ WordSize \in Nat
  <2>1. B2 \in Nat
    BY <1>1
  <2> HIDE DEF B2
  <2>2. B3 \in Nat
    BY <1>1, <2>1
  <2> QED
    BY <2>1, <2>2, WordSizeType DEF B2, WordSize
<1>3. PICK q1 \in Int, c4 \in Byte : p = q1 * B + c4
  BY <1>1, LastByte
<1>4. PICK q2 \in Int, c3 \in Byte : q1 = q2 * B + c3
  BY LastByte
<1>5. PICK q3 \in Int, c2 \in Byte : q2 = q3 * B + c2
  BY LastByte
<1>6. PICK e \in Int, c1 \in Byte : q3 = e * B + c1
  BY LastByte
<1> DEFINE c == <<c1, c2, c3, c4>>
<1>7. c1 \in Int /\ c2 \in Int /\ c3 \in Int /\ c4 \in Int
  BY <1>1
<1>8. p = q3 * B3 + c2 * B2 + c3 * B + c4
  <2>1. q1 = (q3 * B + c2) * B + c3
    BY <1>4, <1>5
  <2>2. (q3 * B + c2) * B = q3 * B2 + c2 * B
    BY <1>1, <1>7
  <2>3. ((q3 * B2 + c2 * B) + c3) * B = q3 * B2 * B + c2 * B2 + c3 * B
    BY <1>1, <1>7
  <2>4. q3 * B2 * B = q3 * B3
    BY <1>1
  <2> QED
    BY <1>3, <2>1, <2>2, <2>3, <2>4
<1>9. unpack(p) = c
  <2>1. q3 % B = c1
    <3>1. (e * B + c1) % B = c1
      BY <1>1, DivMod
    <3> QED
      BY <1>6, <3>1
  <2>2. unpack(p) = <<q3 % B, c2, c3, c4>>
    BY <1>8, Channels
  <2> QED
    BY <2>1, <2>2
<1>10. c \in Bytes
  BY DEF Bytes
<1>11. Unsigned(c) = p - e * WordSize
  <2>1. Unsigned(c) = c1 * B3 + c2 * B2 + c3 * B + c4
    BY DEF Unsigned
  <2> HIDE DEF B2, B3
  <2>2. q3 * B3 = e * WordSize + c1 * B3
    <3>1. (e * B + c1) * B3 = e * (B3 * B) + c1 * B3
      BY <1>1, <1>2, <1>7
    <3> QED
      BY <1>2, <1>6, <3>1
  <2>3. /\ q3 * B3 \in Int /\ e * WordSize \in Int /\ c1 * B3 \in Int
        /\ c2 * B2 \in Int /\ c3 * B \in Int
    BY <1>1, <1>2, <1>7
  <2> HIDE DEF B
  <2> QED
    BY <1>7, <1>8, <2>1, <2>2, <2>3
<1> HIDE DEF c
<1>12. Unsigned(c) \in 0..WordSize - 1
  BY <1>10, UnsignedType
<1>13. pack(c) = Wrap(Unsigned(c))
  BY DEF pack, Unsigned
<1>14. /\ p >= MaxInt + 1 - WordSize /\ p <= MaxInt
       /\ MaxInt \in Int /\ MaxInt < WordSize /\ MaxInt >= -1
  BY WordSizeType DEF Word
<1>15. e = 0 \/ e = -1
  <2>1. CASE e >= 1
    <3>1. e * WordSize >= WordSize
      BY <1>2, <2>1
    <3> QED
      BY <1>1, <1>2, <1>11, <1>12, <1>14, <3>1
  <2>2. CASE e <= -2
    <3>1. e * WordSize <= -2 * WordSize
      BY <1>2, <2>2
    <3> QED
      BY <1>1, <1>2, <1>11, <1>12, <1>14, <3>1
  <2> QED
    BY <2>1, <2>2
<1>16. Wrap(Unsigned(c)) = p
  <2>1. e * WordSize = IF e = 0 THEN 0 ELSE -WordSize
    BY <1>2, <1>15
  <2> QED
    BY <1>1, <1>2, <1>11, <1>12, <1>14, <1>15, <2>1, WrapUnsigned
<1> QED
  BY <1>9, <1>10, <1>13, <1>16

-----------------------------------------------------------------------------
(* RC4. *)

\* The indices and the permutation stay in their ranges.
LEMMA NextKeyType ==
    ASSUME NEW r \in Rc4State
    PROVE  NextKey(r) \in Rc4State
<1> DEFINE m == (r.i + 1) % ByteSize
           n == (r.j + r.s[m]) % ByteSize
<1>1. /\ ByteSize \in Nat /\ ByteSize > 0 /\ r.s \in [Byte -> Byte]
      /\ r.i \in Int /\ r.j \in Int /\ Byte \subseteq Int
  BY ByteAssumption DEF Rc4State, Byte
<1>2. m \in Byte
  BY <1>1, ModByte
<1>3. r.s[m] \in Int
  BY <1>1, <1>2
<1>4. n \in Byte
  <2> HIDE DEF m
  <2> QED
    BY <1>1, <1>3, ModByte
<1>5. Exchange(r.s, m, n) \in [Byte -> Byte]
  BY <1>1, <1>2, <1>4 DEF Exchange
<1>6. NextKey(r) = [s |-> Exchange(r.s, m, n), i |-> m, j |-> n]
  BY DEF NextKey
<1> HIDE DEF m, n
<1> QED
  BY <1>2, <1>4, <1>5, <1>6 DEF Rc4State

\* The key stream consists of bytes.
LEMMA KeyByteType ==
    ASSUME NEW r \in Rc4State
    PROVE  KeyByte(r) \in Byte
<1> DEFINE m == (r.s[r.i] + r.s[r.j]) % ByteSize
<1>1. ByteSize \in Nat /\ ByteSize > 0 /\ r.s \in [Byte -> Byte]
  BY ByteAssumption DEF Rc4State
<1>2. r.i \in Byte /\ r.j \in Byte
  BY DEF Rc4State
<1>3. r.s[r.i] \in Byte /\ r.s[r.j] \in Byte
  BY <1>1, <1>2
<1>4. r.s[r.i] + r.s[r.j] \in Int
  BY <1>3 DEF Byte
<1>5. m \in Byte
  BY <1>4, ModByte
<1> HIDE DEF m
<1>6. r.s[m] \in Byte
  BY <1>1, <1>5
<1> QED
  BY <1>6 DEF KeyByte, m

\* The permutation and j that the key schedule leaves are in their ranges.
LEMMA KeyScheduleType == KSA \in Rc4State
<1> DEFINE S == [s : [Byte -> Byte], j : Byte]
           x == [s |-> [m \in Byte |-> m], j |-> 0]
           next(n, p) == (p.j + p.s[n] + key_c[(n % size_key) + 1]) % ByteSize
           step(n, p) == [s |-> Exchange(p.s, n, next(n, p)), j |-> next(n, p)]
           g == [c \in Nat \X S |-> IF c[1] \in Byte THEN step(c[1], c[2]) ELSE c[2]]
           Schedule(f) == [n \in 0..ByteSize |->
                              IF n = 0 THEN x ELSE step(n - 1, f[n - 1])]
<1>1. ByteSize \in Nat /\ ByteSize > 0 /\ Byte = 0..ByteSize - 1
  BY ByteAssumption DEF Byte
<1>2. x \in S
  BY <1>1
<1>3. ASSUME NEW n \in Byte, NEW p \in S PROVE step(n, p) \in S
  <2>1. key_c[(n % size_key) + 1] \in Int
    <3>1. n % size_key \in 0..8
      BY <1>1 DEF size_key
    <3>2. \A m \in 0..8 : key_c[m + 1] \in Int
      BY DEF key_c
    <3> QED
      BY <3>1, <3>2
  <2>2. p.j \in Int /\ p.s[n] \in Int /\ p.s \in [Byte -> Byte]
    BY <1>1
  <2>3. next(n, p) \in Byte
    <3>1. p.j + p.s[n] + key_c[(n % size_key) + 1] \in Int
      BY <2>1, <2>2
    <3> QED
      BY <3>1, ModByte
  <2> HIDE DEF next
  <2>4. Exchange(p.s, n, next(n, p)) \in [Byte -> Byte]
    BY <2>2, <2>3 DEF Exchange
  <2> QED
    BY <2>3, <2>4
<1> HIDE DEF x, step, S
<1>4. g \in [Nat \X S -> S]
  BY <1>3
<1>5. \A n \in Byte, p \in S : g[<<n, p>>] = step(n, p)
  BY <1>1
<1> HIDE DEF g
<1>6. PICK f : IsSequence(f, S, x, g)
  BY <1>2, <1>4, SequenceExists DEF Steps
<1> DEFINE h == [n \in 0..ByteSize |-> f[n]]
<1>7. \A n \in 0..ByteSize : h[n] = IF n = 0 THEN x ELSE step(n - 1, h[n - 1])
  <2> SUFFICES ASSUME NEW n \in 0..ByteSize
               PROVE  h[n] = IF n = 0 THEN x ELSE step(n - 1, h[n - 1])
    OBVIOUS
  <2>1. CASE n = 0
    BY <1>1, <1>6, <2>1 DEF IsSequence
  <2>2. CASE n # 0
    <3>1. n - 1 \in Nat /\ n - 1 \in Byte /\ (n - 1) + 1 = n
      BY <1>1, <2>2
    <3>2. f[n] = g[<<n - 1, f[n - 1]>>]
      BY <1>6, <3>1 DEF IsSequence
    <3>3. f[n] = step(n - 1, f[n - 1])
      BY <1>5, <1>6, <3>1, <3>2 DEF IsSequence
    <3>4. h[n] = f[n] /\ h[n - 1] = f[n - 1]
      BY <1>1, <3>1
    <3> QED
      BY <2>2, <3>3, <3>4
  <2> QED
    BY <2>1, <2>2
<1>8. h = Schedule(h)
  <2>1. h = [n \in 0..ByteSize |-> h[n]]
    OBVIOUS
  <2> HIDE DEF h
  <2> QED
    BY <1>7, <2>1
<1>9. Scheduled = Schedule(Scheduled)
  <2>1. \E f_1 : f_1 = Schedule(f_1)
    BY <1>8
  <2> QED
    BY <2>1 DEF Scheduled, step, x
<1> DEFINE T == {n \in Nat : n <= ByteSize => Scheduled[n] \in S}
<1>10. \A n \in 0..ByteSize :
           Scheduled[n] = IF n = 0 THEN x ELSE step(n - 1, Scheduled[n - 1])
  BY <1>9
<1>11. 0 \in T
  BY <1>1, <1>2, <1>10
<1>12. ASSUME NEW n \in Nat, n \in T PROVE n + 1 \in T
  <2> SUFFICES ASSUME n + 1 <= ByteSize PROVE Scheduled[n + 1] \in S
    OBVIOUS
  <2>1. n \in Byte /\ n + 1 \in 0..ByteSize /\ Scheduled[n] \in S
    BY <1>1, <1>12
  <2>2. Scheduled[n + 1] = step(n, Scheduled[n])
    BY <1>10, <2>1
  <2> QED
    BY <1>3, <2>1, <2>2
<1> HIDE DEF T
<1>13. Nat \subseteq T
  BY <1>11, <1>12, InductionOnSets
<1>14. Scheduled[ByteSize] \in S
  BY <1>1, <1>13 DEF T
<1> QED
  BY <1>1, <1>14 DEF KSA, Rc4State, S

\* Encrypted twice with one byte, a word is itself again.
THEOREM XorTwice ==
    ASSUME NEW p \in Word, NEW b \in Byte
    PROVE  XorWord(p, b) \in Word /\ XorWord(XorWord(p, b), b) = p
<1> DEFINE c == unpack(p)
           Xored(d) == <<XorByte(d[1], b), XorByte(d[2], b),
                         XorByte(d[3], b), XorByte(d[4], b)>>
<1>1. c \in Bytes /\ pack(c) = p
  BY PackUnpack
<1>2. XorWord(p, b) = pack(Xored(c))
  BY DEF XorWord
<1> HIDE DEF c
<1>3. ASSUME NEW d \in Bytes PROVE Xored(d) \in Bytes /\ Xored(Xored(d)) = d
  <2>1. /\ d[1] \in Byte /\ d[2] \in Byte /\ d[3] \in Byte /\ d[4] \in Byte
        /\ d = <<d[1], d[2], d[3], d[4]>>
    BY DEF Bytes
  <2>2. \A x \in Byte : XorByte(x, b) \in Byte /\ XorByte(XorByte(x, b), b) = x
    BY XorAssumption
  <2>3. Xored(d) \in Bytes
    BY <2>1, <2>2 DEF Bytes
  <2> QED
    BY <2>1, <2>2, <2>3
<1>4. unpack(pack(Xored(c))) = Xored(c) /\ pack(Xored(c)) \in Word
  BY <1>1, <1>3, UnpackPack
<1>5. XorWord(pack(Xored(c)), b) = pack(Xored(unpack(pack(Xored(c)))))
  BY DEF XorWord
<1> HIDE DEF Xored
<1> QED
  BY <1>1, <1>2, <1>3, <1>4, <1>5
=============================================================================
