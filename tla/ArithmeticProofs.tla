---------------------------- MODULE ArithmeticProofs ----------------------------
(***************************************************************************)
(* The reductions of Ring are right for every input the code allows: a     *)
(* conversion to int16_t adds a multiple of 65536, and nothing to what     *)
(* fits; QINV * Q is one more than a multiple of it.  Compression rounds,  *)
(* the packed bytes hold the coefficients, and the sponge gives the same   *)
(* wherever its input and its output are cut.                              *)
(***************************************************************************)
EXTENDS Arithmetic, Induction

Fits(x) == x \in Int /\ -32768 <= x /\ x <= 32767

LEMMA Remainder ==
    ASSUME NEW x \in Int
    PROVE  /\ 0 <= x % 65536 /\ x % 65536 < 65536
           /\ x % 65536 = x - 65536 * (x \div 65536) /\ x \div 65536 \in Int
OBVIOUS

LEMMA SmallRemainder ==
    ASSUME NEW x \in Int, 0 <= x, x < 65536
    PROVE  x % 65536 = x
OBVIOUS

LEMMA Int16Fits ==
    ASSUME NEW x, Fits(x)
    PROVE  Int16(x) = x
<1>1. (x + 32768) % 65536 = x + 32768
  BY SmallRemainder DEF Fits
<1> QED BY <1>1 DEF Int16, Fits

LEMMA Int16Wraps ==
    ASSUME NEW x \in Int
    PROVE  Fits(Int16(x)) /\ \E j \in Int : Int16(x) = x + 65536 * j
<1> DEFINE q == (x + 32768) \div 65536
<1> HIDE DEF q
<1>1. /\ 0 <= (x + 32768) % 65536 /\ (x + 32768) % 65536 < 65536
      /\ (x + 32768) % 65536 = x + 32768 - 65536 * q /\ q \in Int
  BY Remainder DEF q
<1>2. Int16(x) = x + 65536 * (-q) /\ -q \in Int
  BY <1>1 DEF Int16
<1> QED BY <1>1, <1>2 DEF Int16, Fits

\* A product that wraps, subtracted, does no harm if the difference fits.
LEMMA WrapCancels ==
    ASSUME NEW y, Fits(y), NEW j \in Int
    PROVE  Int16(y - 65536 * j) = y
<1>1. y \in Int /\ y - 65536 * j \in Int
  BY DEF Fits
<1>2. PICK i \in Int : Int16(y - 65536 * j) = (y - 65536 * j) + 65536 * i
  BY <1>1, Int16Wraps
<1>3. Fits(Int16(y - 65536 * j))
  BY <1>1, Int16Wraps
<1>4. i = j
  BY <1>1, <1>2, <1>3 DEF Fits
<1> QED BY <1>1, <1>2, <1>4

LEMMA MultipleOfQ ==
    ASSUME NEW t \in Int
    PROVE  (t * 3329) % 3329 = 0
OBVIOUS

LEMMA CentredRange ==
    ASSUME NEW x \in Int, -1664 <= x, x <= 1664
    PROVE  x \in Centered
<1>1. (Q - 1) \div 2 = 1664
  BY DEF Q
<1> QED BY <1>1 DEF Centered

LEMMA BelowQ ==
    ASSUME NEW x \in Int, -3329 < x, x < 3329
    PROVE  x \in (1 - Q)..(Q - 1)
<1>1. Q = 3329
  BY DEF Q
<1> QED BY <1>1

------------------------------------------------------------------------------
(* barrett_reduce *)

LEMMA BarrettQuotient ==
    ASSUME NEW a \in Int, -32768 <= a, a <= 32767
    PROVE  LET s == (20159 * a + 33554432) \div 67108864
           IN  /\ s \in Int /\ -10 <= s /\ s <= 10
               /\ -1664 <= a - s * 3329 /\ a - s * 3329 <= 1664
<1> DEFINE s == (20159 * a + 33554432) \div 67108864
<1>1. /\ s \in Int
      /\ 67108864 * s <= 20159 * a + 33554432
      /\ 20159 * a + 33554432 < 67108864 * s + 67108864
  OBVIOUS
<1> HIDE DEF s
<1> QED BY <1>1

\* reduce.c: barrett_reduce of any int16_t is its centred representative.
THEOREM BarrettReduces ==
    ASSUME NEW a, Fits(a)
    PROVE  /\ barrett_reduce(a) \in Int
           /\ barrett_reduce(a) \in Centered
           /\ Congruent(barrett_reduce(a), a)
<1>1. PICK s \in Int : /\ s = (20159 * a + 33554432) \div 67108864
                       /\ -10 <= s /\ s <= 10
                       /\ -1664 <= a - s * 3329 /\ a - s * 3329 <= 1664
  BY BarrettQuotient DEF Fits
<1>2. (67108864 + (3329 \div 2)) \div 3329 = 20159
  OBVIOUS
<1>3. Int16(s) = s
  BY <1>1, Int16Fits DEF Fits
<1>4. PICK j \in Int : Int16(s * 3329) = s * 3329 + 65536 * j
  BY Int16Wraps
<1>5. a \in Int /\ Fits(a - s * 3329)
  BY <1>1 DEF Fits
<1>6. barrett_reduce(a) = a - s * 3329
  <2>1. Int16((a - s * 3329) - 65536 * j) = a - s * 3329
    BY <1>5, WrapCancels
  <2>2. a - Int16(s * 3329) = (a - s * 3329) - 65536 * j
    BY <1>4, <1>5
  <2> QED BY <1>1, <1>2, <1>3, <2>1, <2>2 DEF barrett_reduce, Q
<1>7. barrett_reduce(a) - a = (-s) * 3329 /\ -s \in Int
  BY <1>1, <1>5, <1>6
<1>8. Congruent(barrett_reduce(a), a)
  BY <1>7, MultipleOfQ DEF Congruent, Q
<1>9. barrett_reduce(a) \in Int /\ barrett_reduce(a) \in Centered
  BY <1>1, <1>5, <1>6, CentredRange
<1> QED BY <1>8, <1>9

------------------------------------------------------------------------------
(* montgomery_reduce *)

LEMMA ExactQuotient ==
    ASSUME NEW m \in Int
    PROVE  (65536 * m) \div 65536 = m
OBVIOUS

\* reduce.c: montgomery_reduce of any product the comment allows represents
\* a / 2^16 and is below Q.
THEOREM MontgomeryReduces ==
    ASSUME NEW a \in Int, -(3329 * 32768) <= a, a < 3329 * 32768
    PROVE  /\ montgomery_reduce(a) \in Int
           /\ -3329 < montgomery_reduce(a) /\ montgomery_reduce(a) < 3329
           /\ Congruent(montgomery_reduce(a) * 65536, a)
<1> DEFINE u == Int16(a)
           t == Int16(u * QINV)
<1>1. PICK j \in Int : u = a + 65536 * j
  BY Int16Wraps
<1>2. u \in Int /\ QINV = -3327 /\ u * QINV \in Int
  BY <1>1 DEF QINV
<1>3. PICK k \in Int : t = u * QINV + 65536 * k
  BY <1>2, Int16Wraps
<1>4. Fits(t)
  BY <1>2, Int16Wraps
<1> HIDE DEF u, t
<1> DEFINE m == 169 * u - j - 3329 * k
<1>5. m \in Int
  BY <1>2
<1>6. a - t * 3329 = 65536 * m
  BY <1>1, <1>2, <1>3
<1> HIDE DEF m
<1>7. -3329 < m /\ m < 3329
  BY <1>4, <1>5, <1>6 DEF Fits
<1>8. montgomery_reduce(a) = m
  <2>1. Int16(m) = m
    BY <1>5, <1>7, Int16Fits DEF Fits
  <2>2. (a - t * 3329) \div 65536 = m
    BY <1>5, <1>6, ExactQuotient
  <2> QED BY <2>1, <2>2 DEF montgomery_reduce, Q, t, u
<1>9. m * 65536 - a = (-t) * 3329 /\ -t \in Int
  BY <1>4, <1>5, <1>6 DEF Fits
<1>10. Congruent(m * 65536, a)
  BY <1>9, MultipleOfQ DEF Congruent, Q
<1> QED BY <1>5, <1>7, <1>8, <1>10

\* reduce.c: of every sample the two reductions are right, for every multiplier the
\* program multiplies by.
THEOREM SampleReduces ==
    ASSUME sample \in Int
    PROVE  ReductionsCongruent
<1> DEFINE a == Int16(sample)
<1>1. Fits(a)
  BY Int16Wraps
<1> HIDE DEF a
<1>2. barrett_reduce(a) \in Centered /\ Congruent(barrett_reduce(a), a)
  BY <1>1, BarrettReduces
<1>3. ASSUME NEW c \in Factors
      PROVE  /\ montgomery_reduce(a * c) \in (1 - Q)..(Q - 1)
             /\ Congruent(montgomery_reduce(a * c) * 65536, a * c)
  <2>1. c \in {-1044, 1441, 1353, -1659, 1653, -3328, 3329}
    <3>1. (MONT * MONT) % Q = 1353
      BY DEF MONT, Q
    <3> QED BY <1>3, <3>1 DEF Factors, MONT, Q
  <2>2. a * c \in Int /\ -(3329 * 32768) <= a * c /\ a * c < 3329 * 32768
    BY <1>1, <2>1 DEF Fits
  <2> QED BY <2>2, MontgomeryReduces, BelowQ
<1> QED BY <1>2, <1>3 DEF ReductionsCongruent, a

\* Every sample is an integer, so every sample is reduced right.
THEOREM ReductionsAlwaysCongruent == Samples => []ReductionsCongruent
<1> DEFINE Inv == sample \in Int
<1>1. sample = 0 => Inv
  OBVIOUS
<1>2. Inv /\ [Resample]_sample => Inv'
  <2> SUFFICES ASSUME Inv, [Resample]_sample
               PROVE  Inv'
    OBVIOUS
  <2>1. CASE Resample
    BY <2>1 DEF Resample
  <2>2. CASE UNCHANGED sample
    BY <2>2
  <2> QED BY <2>1, <2>2
<1>3. Inv => ReductionsCongruent
  BY SampleReduces
<1> HIDE DEF Inv
<1> QED BY <1>1, <1>2, <1>3, PTL DEF Samples

------------------------------------------------------------------------------
(* A layer of the transform *)

\* ntt.c: a product reduced by fqmul, of an int16_t and a zeta, is below Q.
LEMMA ProductBelowQ ==
    ASSUME NEW a, Fits(a), NEW zeta \in Int, -1664 <= zeta, zeta <= 1664
    PROVE  /\ fqmul(zeta, a) \in Int
           /\ -3329 < fqmul(zeta, a) /\ fqmul(zeta, a) < 3329
<1>1. zeta * a \in Int /\ -(3329 * 32768) <= zeta * a /\ zeta * a < 3329 * 32768
  BY DEF Fits
<1> QED BY <1>1, MontgomeryReduces DEF fqmul

------------------------------------------------------------------------------
(* The products of compression and their shifts *)

\* The quotient and the remainder, as numbers of their own.
LEMMA Split2048 ==
    ASSUME NEW x \in Nat
    PROVE  \E q \in Nat, r \in Nat : q = x \div 2048 /\ r = x % 2048 /\ x = 2048 * q + r /\ r < 2048
<1>1. /\ x \div 2048 \in Nat /\ x % 2048 \in Nat
      /\ x = 2048 * (x \div 2048) + (x % 2048) /\ x % 2048 < 2048
  OBVIOUS
<1> QED BY <1>1

LEMMA Split512 ==
    ASSUME NEW x \in Nat
    PROVE  \E q \in Nat, r \in Nat : q = x \div 512 /\ r = x % 512 /\ x = 512 * q + r /\ r < 512
<1>1. /\ x \div 512 \in Nat /\ x % 512 \in Nat
      /\ x = 512 * (x \div 512) + (x % 512) /\ x % 512 < 512
  OBVIOUS
<1> QED BY <1>1

LEMMA Split32 ==
    ASSUME NEW x \in Nat
    PROVE  \E q \in Nat, r \in Nat : q = x \div 32 /\ r = x % 32 /\ x = 32 * q + r /\ r < 32
<1>1. /\ x \div 32 \in Nat /\ x % 32 \in Nat
      /\ x = 32 * (x \div 32) + (x % 32) /\ x % 32 < 32
  OBVIOUS
<1> QED BY <1>1

\* poly.c: the product with 1290168 shifted by 27; the high half of the
\* multiplier and the low are multiplied apart.
LEMMA MulShift27 ==
    ASSUME NEW x \in Nat
    PROVE  MulShift(x, 40318, 27) = (x * 40318) \div 134217728
<1>1. PICK a \in Nat, b \in Nat : /\ a = x \div 2048 /\ b = x % 2048
                                  /\ x = 2048 * a + b /\ b < 2048
  BY Split2048
<1>2. PICK e \in Nat, f \in Nat : /\ e = (b * 1406) \div 2048
                                  /\ b * 1406 = 2048 * e + f /\ f < 2048
  <2> DEFINE y == b * 1406
  <2>1. y \in Nat
    OBVIOUS
  <2> HIDE DEF y
  <2>2. PICK q \in Nat, r \in Nat : q = y \div 2048 /\ y = 2048 * q + r /\ r < 2048
    BY <2>1, Split2048
  <2> QED BY <2>2 DEF y
<1>3. PICK g \in Nat, h \in Nat : /\ g = (a * 1406 + b * 19 + e) \div 2048
                                  /\ a * 1406 + b * 19 + e = 2048 * g + h /\ h < 2048
  BY Split2048
<1>4. PICK k \in Nat, l \in Nat : /\ k = (a * 19 + g) \div 32
                                  /\ a * 19 + g = 32 * k + l /\ l < 32
  BY Split32
<1>5. MulShift(x, 40318, 27) = k
  <2>1. 2^11 = 2048 /\ 2^5 = 32 /\ 27 - 22 = 5 /\ 40318 \div 2048 = 19 /\ 40318 % 2048 = 1406
    OBVIOUS
  <2> QED BY <1>1, <1>2, <1>3, <1>4, <2>1 DEF MulShift
<1>6. x * 40318 = 134217728 * k + (4194304 * l + 2048 * h + f)
  BY <1>1, <1>2, <1>3, <1>4
<1>7. 4194304 * l + 2048 * h + f < 134217728
  BY <1>2, <1>3, <1>4
<1> QED BY <1>5, <1>6, <1>7

\* The product with 645084 shifted by 31.
LEMMA MulShift31 ==
    ASSUME NEW x \in Nat
    PROVE  MulShift(x, 645084, 31) = (x * 645084) \div 2147483648
<1>1. PICK a \in Nat, b \in Nat : /\ a = x \div 2048 /\ b = x % 2048
                                  /\ x = 2048 * a + b /\ b < 2048
  BY Split2048
<1>2. PICK e \in Nat, f \in Nat : /\ e = (b * 2012) \div 2048
                                  /\ b * 2012 = 2048 * e + f /\ f < 2048
  <2> DEFINE y == b * 2012
  <2>1. y \in Nat
    OBVIOUS
  <2> HIDE DEF y
  <2>2. PICK q \in Nat, r \in Nat : q = y \div 2048 /\ y = 2048 * q + r /\ r < 2048
    BY <2>1, Split2048
  <2> QED BY <2>2 DEF y
<1>3. PICK g \in Nat, h \in Nat : /\ g = (a * 2012 + b * 314 + e) \div 2048
                                  /\ a * 2012 + b * 314 + e = 2048 * g + h /\ h < 2048
  BY Split2048
<1>4. PICK k \in Nat, l \in Nat : /\ k = (a * 314 + g) \div 512
                                  /\ a * 314 + g = 512 * k + l /\ l < 512
  BY Split512
<1>5. MulShift(x, 645084, 31) = k
  <2>1. 2^11 = 2048 /\ 2^9 = 512 /\ 31 - 22 = 9 /\ 645084 \div 2048 = 314 /\ 645084 % 2048 = 2012
    OBVIOUS
  <2> QED BY <1>1, <1>2, <1>3, <1>4, <2>1 DEF MulShift
<1>6. x * 645084 = 2147483648 * k + (4194304 * l + 2048 * h + f)
  BY <1>1, <1>2, <1>3, <1>4
<1>7. 4194304 * l + 2048 * h + f < 2147483648
  BY <1>2, <1>3, <1>4
<1> QED BY <1>5, <1>6, <1>7

LEMMA Split3329 ==
    ASSUME NEW x \in Nat
    PROVE  \E q \in Nat, r \in Nat : q = x \div 3329 /\ r = x % 3329 /\ x = 3329 * q + r /\ r < 3329
<1>1. /\ x \div 3329 \in Nat /\ x % 3329 \in Nat
      /\ x = 3329 * (x \div 3329) + (x % 3329) /\ x % 3329 < 3329
  OBVIOUS
<1> QED BY <1>1

\* The multiplication in place of a division, for the numbers of five bits.
LEMMA Divides5 ==
    ASSUME NEW u \in Nat, u < 3329, NEW y \in Nat, NEW q \in Nat, NEW r \in Nat, r < 3329,
           y = u * 32 + 1664, y = 3329 * q + r
    PROVE  (y * 40318) \div 134217728 = q
<1>1. q <= 32
  BY SMT
<1>2. /\ y * 40318 = 134217728 * q + (894 * q + 40318 * r)
      /\ 894 * q + 40318 * r < 134217728
  BY <1>1, SMT
<1> QED BY <1>2, SMT

\* For those of eleven the remainders 3326 and more would be too large, but they
\* do not come with a quotient above 650.
LEMMA Divides11 ==
    ASSUME NEW u \in Nat, u < 3329, NEW y \in Nat, NEW q \in Nat, NEW r \in Nat, r < 3329,
           y = u * 2048 + 1664, y = 3329 * q + r
    PROVE  (y * 645084) \div 2147483648 = q
<1>1. q <= 2048
  BY SMT
<1>2. 988 * q + 645084 * r < 2147483648
  <2>1. CASE r < 3326
    BY <1>1, <2>1, SMT
  <2>2. CASE r = 3326
    BY <1>1, <2>2, SMT
  <2>3. CASE r = 3327
    BY <1>1, <2>3, SMT
  <2>4. CASE r = 3328
    <3>1. PICK j \in Int : j = 1279 * u - 2079 * q
      BY SMT
    <3>2. u = 3459456 - 3329 * j
      BY <2>4, <3>1, SMT
    <3>3. q <= 650
      BY <2>4, <3>2, SMT
    <3> QED BY <2>4, <3>3, SMT
  <2> QED BY <2>1, <2>2, <2>3, <2>4, SMT
<1>3. y * 645084 = 2147483648 * q + (988 * q + 645084 * r)
  BY SMT
<1> QED BY <1>2, <1>3, SMT

------------------------------------------------------------------------------
(* The compression of a coefficient *)

\* The standard representative, among 0..Q-1.
LEMMA StandardIs ==
    ASSUME NEW x \in Int, -1664 <= x, x <= 1664
    PROVE  \E u \in Nat : /\ u = Standard(x) /\ u = x % Q /\ u < 3329
                          /\ (x >= 0 /\ u = x) \/ (x < 0 /\ u = x + 3329)
<1>1. Q = 3329
  BY DEF Q
<1>2. CASE x >= 0
  <2>1. Standard(x) = x /\ x % 3329 = x
    BY <1>2 DEF Standard
  <2> QED BY <1>1, <1>2, <2>1
<1>3. CASE x < 0
  <2>1. x + 3329 \in Nat /\ Fits(x + 3329) /\ x % 3329 = x + 3329
    BY <1>3 DEF Fits
  <2>2. Standard(x) = x + 3329
    BY <1>1, <1>3, <2>1, Int16Fits DEF Standard
  <2> QED BY <1>1, <1>3, <2>1, <2>2
<1> QED BY <1>2, <1>3

\* Five bits are the quotient of the commented formula, and give the coefficient back
\* to within 52.
LEMMA Compresses5 ==
    ASSUME NEW x \in Int, -1664 <= x, x <= 1664
    PROVE  /\ Compressed5(x) = Rounded(x, 5)
           /\ Near(Decompressed5(Compressed5(x)), x, 52)
<1>1. PICK u \in Nat : /\ u = Standard(x) /\ u = x % Q /\ u < 3329
                       /\ (x >= 0 /\ u = x) \/ (x < 0 /\ u = x + 3329)
  BY StandardIs
<1>2. 2^5 = 32 /\ Q = 3329 /\ Q \div 2 = 1664
  BY DEF Q
<1> DEFINE X == u * 32 + 1664
<1>3. X \in Nat
  OBVIOUS
<1> HIDE DEF X
<1>4. PICK q \in Nat, r \in Nat : q = X \div 3329 /\ X = 3329 * q + r /\ r < 3329
  BY <1>3, Split3329
<1>5. MulShift(X, 40318, 27) = q
  <2>1. (X * 40318) \div 134217728 = q
    <3>1. X = u * 32 + 1664 /\ u < 3329 /\ X = 3329 * q + r /\ r < 3329
      BY <1>1, <1>4 DEF X
    <3> QED BY <1>3, <3>1, Divides5
  <2> QED BY <1>3, <2>1, MulShift27
<1>6. Compressed5(x) = q % 32
  BY <1>1, <1>2, <1>5 DEF Compressed5, X
<1>7. Rounded(x, 5) = q % 32
  BY <1>1, <1>2, <1>4 DEF Rounded, X
<1>8. q <= 32 /\ 32 * u + 1664 = 3329 * q + r
  BY <1>1, <1>4 DEF X
<1>9. Near(Decompressed5(q % 32), x, 52)
  <2> DEFINE t == q % 32
             D == (t * 3329 + 16) \div 32
  <2>1. \/ q < 32 /\ t = q
        \/ q = 32 /\ t = 0
    BY <1>8
  <2>2. D \in Nat /\ 32 * D <= t * 3329 + 16 /\ t * 3329 + 16 < 32 * D + 32
    BY <2>1
  <2>3. Decompressed5(q % 32) = D
    BY <1>2 DEF Decompressed5
  <2> HIDE DEF t, D
  <2>4. \E k \in Int : -52 <= D - x - 3329 * k /\ D - x - 3329 * k <= 52
    <3>1. CASE q < 32
      <4>1. -52 <= D - u /\ D - u <= 52
        BY <1>4, <1>8, <2>1, <2>2, <3>1
      <4>2. CASE x >= 0
        <5>1. D - x - 3329 * 0 = D - u
          BY <1>1, <2>2, <4>2
        <5>2. /\ -52 <= D - x - 3329 * 0 /\ D - x - 3329 * 0 <= 52
          BY <4>1, <5>1
        <5> QED BY <5>2
      <4>3. CASE x < 0
        <5>1. D - x - 3329 * 1 = D - u
          BY <1>1, <2>2, <4>3
        <5>2. /\ -52 <= D - x - 3329 * 1 /\ D - x - 3329 * 1 <= 52
          BY <4>1, <5>1
        <5> QED BY <5>2
      <4> QED BY <4>2, <4>3
    <3>2. CASE q = 32
      <4>1. D = 0 /\ u >= 3277
        BY <1>4, <1>8, <2>1, <2>2, <3>2
      <4>2. x < 0 /\ -52 <= x
        BY <1>1, <4>1
      <4> QED BY <4>1, <4>2
    <3> QED BY <1>8, <3>1, <3>2
  <2>5. PICK k \in Int : -52 <= D - x - 3329 * k /\ D - x - 3329 * k <= 52
    BY <2>4
  <2>6. PICK e \in Int : D = x + e + 3329 * k /\ -52 <= e /\ e <= 52
    BY <2>2, <2>5
  <2>7. Near(D, x, 52)
    <3>1. e \in (-52)..52 /\ D - (x + e) = k * 3329
      BY <2>2, <2>6
    <3> QED BY <3>1, MultipleOfQ DEF Near, Congruent, Q
  <2> QED BY <2>3, <2>7
<1> QED BY <1>6, <1>7, <1>9

\* Eleven bits give it back to within 1.
LEMMA Compresses11 ==
    ASSUME NEW x \in Int, -1664 <= x, x <= 1664
    PROVE  /\ Compressed11(x) = Rounded(x, 11)
           /\ Near(Decompressed11(Compressed11(x)), x, 1)
<1>1. PICK u \in Nat : /\ u = Standard(x) /\ u = x % Q /\ u < 3329
                       /\ (x >= 0 /\ u = x) \/ (x < 0 /\ u = x + 3329)
  BY StandardIs
<1>2. 2^11 = 2048 /\ Q = 3329 /\ Q \div 2 = 1664
  BY DEF Q
<1> DEFINE X == u * 2048 + 1664
<1>3. X \in Nat
  OBVIOUS
<1> HIDE DEF X
<1>4. PICK q \in Nat, r \in Nat : q = X \div 3329 /\ X = 3329 * q + r /\ r < 3329
  BY <1>3, Split3329
<1>5. MulShift(X, 645084, 31) = q
  <2>1. (X * 645084) \div 2147483648 = q
    <3>1. X = u * 2048 + 1664 /\ u < 3329 /\ X = 3329 * q + r /\ r < 3329
      BY <1>1, <1>4 DEF X
    <3> QED BY <1>3, <3>1, Divides11
  <2> QED BY <1>3, <2>1, MulShift31
<1>6. Compressed11(x) = q % 2048
  BY <1>1, <1>2, <1>5 DEF Compressed11, X
<1>7. Rounded(x, 11) = q % 2048
  BY <1>1, <1>2, <1>4 DEF Rounded, X
<1>8. q <= 2047 /\ 2048 * u + 1664 = 3329 * q + r
  BY <1>1, <1>4 DEF X
<1>9. Near(Decompressed11(q % 2048), x, 1)
  <2> DEFINE t == q % 2048
             D == (t * 3329 + 1024) \div 2048
  <2>1. t = q
    BY <1>8
  <2>2. D \in Nat /\ 2048 * D <= t * 3329 + 1024 /\ t * 3329 + 1024 < 2048 * D + 2048
    BY <2>1
  <2>3. Decompressed11(q % 2048) = D
    BY <1>2 DEF Decompressed11
  <2> HIDE DEF t, D
  <2>4. \E k \in Int : -1 <= D - x - 3329 * k /\ D - x - 3329 * k <= 1
    <3>1. -1 <= D - u /\ D - u <= 1
      BY <1>4, <1>8, <2>1, <2>2
    <3>2. CASE x >= 0
      <4>1. D - x - 3329 * 0 = D - u
        BY <1>1, <2>2, <3>2
      <4>2. /\ -1 <= D - x - 3329 * 0 /\ D - x - 3329 * 0 <= 1
        BY <3>1, <4>1
      <4> QED BY <4>2
    <3>3. CASE x < 0
      <4>1. D - x - 3329 * 1 = D - u
        BY <1>1, <2>2, <3>3
      <4>2. /\ -1 <= D - x - 3329 * 1 /\ D - x - 3329 * 1 <= 1
        BY <3>1, <4>1
      <4> QED BY <4>2
    <3> QED BY <3>2, <3>3
  <2>5. PICK k \in Int : -1 <= D - x - 3329 * k /\ D - x - 3329 * k <= 1
    BY <2>4
  <2>6. PICK e \in Int : D = x + e + 3329 * k /\ -1 <= e /\ e <= 1
    BY <2>2, <2>5
  <2>7. Near(D, x, 1)
    <3>1. e \in (-1)..1 /\ D - (x + e) = k * 3329
      BY <2>2, <2>6
    <3> QED BY <3>1, MultipleOfQ DEF Near, Congruent, Q
  <2> QED BY <2>3, <2>7
<1> QED BY <1>6, <1>7, <1>9

\* The remainder by 2 of a bit and of minus a bit.
LEMMA Odd ==
    ASSUME NEW m \in Int, NEW j \in Int, m = 2 * j + 1
    PROVE  m % 2 = 1
OBVIOUS

\* One bit is right on either side of zero.
LEMMA Decides ==
    ASSUME NEW x \in Int, -1664 <= x, x <= 1664
    PROVE  /\ Decided(x) = Rounded(x, 1)
           /\ (Decided(x) = 1) <=> (4 * x > Q \/ 4 * x < -Q)
<1>1. PICK u \in Nat : /\ u = Standard(x) /\ u = x % Q /\ u < 3329
                       /\ (x >= 0 /\ u = x) \/ (x < 0 /\ u = x + 3329)
  BY StandardIs
<1>2. 2^1 = 2 /\ 2^28 = 268435456 /\ Q = 3329 /\ Q \div 2 = 1664
  BY DEF Q
<1> DEFINE n == (2 * x + 1665) * 80635
           X == u * 2 + 1664
<1>3. /\ \/ x < -832 /\ n \div 268435456 = -1
         \/ x \in -832..832 /\ n \div 268435456 = 0
         \/ x > 832 /\ n \div 268435456 = 1
  OBVIOUS
<1>4. /\ x < -832 => X \div 3329 = 1
      /\ x \in -832..-1 => X \div 3329 = 2
      /\ x \in 0..832 => X \div 3329 = 0
      /\ x > 832 => X \div 3329 = 1
  BY <1>1
<1> HIDE DEF n, X
<1>5. Decided(x) = (n \div 268435456) % 2
  BY <1>2 DEF Decided, n
<1>6. Rounded(x, 1) = (X \div 3329) % 2
  BY <1>1, <1>2 DEF Rounded, X
<1>7. 0 % 2 = 0 /\ 1 % 2 = 1 /\ 2 % 2 = 0
  OBVIOUS
<1>8. CASE x < -832
  <2>1. n \div 268435456 \in Int /\ n \div 268435456 = 2 * (-1) + 1
    BY <1>3, <1>8
  <2>2. (n \div 268435456) % 2 = 1
    BY <2>1, Odd
  <2> QED BY <1>2, <1>4, <1>5, <1>6, <1>7, <1>8, <2>2
<1>9. CASE x \in -832..832
  BY <1>2, <1>3, <1>4, <1>5, <1>6, <1>7, <1>9
<1>10. CASE x > 832
  BY <1>2, <1>3, <1>4, <1>5, <1>6, <1>7, <1>10
<1> QED BY <1>8, <1>9, <1>10

\* poly.c, polyvec.c: of every sample compression rounds as the commented formulas do.
THEOREM SampleCompresses ==
    ASSUME sample \in Int
    PROVE  CompressionRounds
<1> DEFINE x == Int16(sample)
<1>1. Fits(x)
  BY Int16Wraps
<1> HIDE DEF x
<1>2. SUFFICES ASSUME x \in Centered
               PROVE  /\ Compressed5(x) = Rounded(x, 5)
                      /\ Compressed11(x) = Rounded(x, 11)
                      /\ Near(Decompressed5(Compressed5(x)), x, 52)
                      /\ Near(Decompressed11(Compressed11(x)), x, 1)
                      /\ Decided(x) = Rounded(x, 1)
                      /\ (Decided(x) = 1) <=> (4 * x > Q \/ 4 * x < -Q)
  BY DEF CompressionRounds, x
<1>3. x \in Int /\ -1664 <= x /\ x <= 1664
  <2>1. (Q - 1) \div 2 = 1664
    BY DEF Q
  <2> QED BY <1>1, <1>2, <2>1 DEF Centered, Fits
<1> QED BY <1>3, Compresses5, Compresses11, Decides

\* A sample is a number.
LEMMA SampleIsInt == Samples => [](sample \in Int)
<1>1. sample = 0 => sample \in Int
  OBVIOUS
<1>2. sample \in Int /\ [Resample]_sample => (sample \in Int)'
  BY DEF Resample
<1> QED BY <1>1, <1>2, PTL DEF Samples

\* poly.c, polyvec.c, polymsg: the multiplications and shifts that stand for the
\* division are its rounded quotient for every centred coefficient, and what is
\* decompressed is near what was compressed.
THEOREM CompressionAlwaysRounds == Samples => []CompressionRounds
<1>1. sample \in Int => CompressionRounds
  BY SampleCompresses
<1> QED BY <1>1, SampleIsInt, PTL

------------------------------------------------------------------------------
(* Powers of two and fields of bits *)

\* Pow[k] is 2^k.
Pow == CHOOSE p : Iterates(p, Nat, 1, [n \in Nat |-> [x \in Nat |-> 2 * x]])

\* Pow is defined by the recursion of 2^k.
LEMMA PowIs ==
    /\ Pow \in [Nat -> Nat] /\ Pow[0] = 1
    /\ \A n \in Nat : Pow[n + 1] = 2 * Pow[n]
<1> DEFINE G == [n \in Nat |-> [x \in Nat |-> 2 * x]]
<1>1. G \in [Nat -> [Nat -> Nat]]
  OBVIOUS
<1>2. \E p : Iterates(p, Nat, 1, G)
  <2> HIDE DEF G
  <2> QED BY <1>1, Recursion
<1>3. Iterates(Pow, Nat, 1, G)
  BY <1>2 DEF Pow
<1>4. \A n \in Nat : Pow[n + 1] = G[n][Pow[n]] /\ Pow[n] \in Nat
  <2> HIDE DEF G
  <2> QED BY <1>3 DEF Iterates
<1> QED BY <1>3, <1>4 DEF Iterates

LEMMA PowPositive == \A n \in Nat : Pow[n] \in Nat \ {0}
<1> DEFINE T == {n \in Nat : Pow[n] \in Nat \ {0}}
<1>1. 0 \in T
  BY PowIs
<1>2. \A n \in Nat : n \in T => n + 1 \in T
  BY PowIs
<1> HIDE DEF T
<1>3. \A n \in Nat : n \in T
  BY <1>1, <1>2, SetInduction
<1> QED BY <1>3 DEF T

LEMMA Powers ==
    /\ Pow[0] = 1 /\ Pow[1] = 2 /\ Pow[2] = 4 /\ Pow[3] = 8 /\ Pow[4] = 16 /\ Pow[5] = 32
    /\ Pow[6] = 64 /\ Pow[7] = 128 /\ Pow[8] = 256 /\ Pow[9] = 512 /\ Pow[10] = 1024
    /\ Pow[11] = 2048 /\ Pow[12] = 4096
<1>1. /\ Pow[0] = 1
      /\ Pow[0 + 1] = 2 * Pow[0] /\ Pow[1 + 1] = 2 * Pow[1] /\ Pow[2 + 1] = 2 * Pow[2]
      /\ Pow[3 + 1] = 2 * Pow[3] /\ Pow[4 + 1] = 2 * Pow[4] /\ Pow[5 + 1] = 2 * Pow[5]
      /\ Pow[6 + 1] = 2 * Pow[6] /\ Pow[7 + 1] = 2 * Pow[7] /\ Pow[8 + 1] = 2 * Pow[8]
      /\ Pow[9 + 1] = 2 * Pow[9] /\ Pow[10 + 1] = 2 * Pow[10] /\ Pow[11 + 1] = 2 * Pow[11]
  BY PowIs
<1> QED BY <1>1

\* The exponents of BitOf.
LEMMA PowerIs ==
    ASSUME NEW k \in 0..11
    PROVE  2^k = Pow[k]
<1>0. CASE k = 0
  BY <1>0, Powers
<1>1. CASE k = 1
  BY <1>1, Powers
<1>2. CASE k = 2
  BY <1>2, Powers
<1>3. CASE k = 3
  BY <1>3, Powers
<1>4. CASE k = 4
  BY <1>4, Powers
<1>5. CASE k = 5
  BY <1>5, Powers
<1>6. CASE k = 6
  BY <1>6, Powers
<1>7. CASE k = 7
  BY <1>7, Powers
<1>8. CASE k = 8
  BY <1>8, Powers
<1>9. CASE k = 9
  BY <1>9, Powers
<1>10. CASE k = 10
  BY <1>10, Powers
<1>11. CASE k = 11
  BY <1>11, Powers
<1> QED BY <1>0, <1>1, <1>2, <1>3, <1>4, <1>5, <1>6, <1>7, <1>8, <1>9, <1>10, <1>11

\* A number of two digits in base p.
LEMMA Divided ==
    ASSUME NEW p \in Nat \ {0}, NEW x \in Nat, x < p, NEW y \in Nat
    PROVE  (x + p * y) \div p = y /\ (x + p * y) % p = x
<1> DEFINE z == x + p * y
<1>1. z \in Nat
  OBVIOUS
<1> DEFINE q == z \div p
<1>2. q \in Nat /\ z = p * q + (z % p) /\ z % p \in 0..(p - 1)
  OBVIOUS
<1> HIDE DEF q
<1>3. q = y
  <2>1. CASE q >= y + 1
    <3>1. PICK e \in Nat : q = y + 1 + e
      <4>1. q - y - 1 \in Nat /\ q = y + 1 + (q - y - 1)
        BY <1>2, <2>1
      <4> QED BY <4>1
    <3>2. p * q = p * y + p + p * e /\ p * e \in Nat /\ p * y \in Nat
      BY <3>1
    <3> QED BY <1>2, <3>2
  <2>2. CASE y >= q + 1
    <3>1. PICK e \in Nat : y = q + 1 + e
      <4>1. y - q - 1 \in Nat /\ y = q + 1 + (y - q - 1)
        BY <1>2, <2>2
      <4> QED BY <4>1
    <3>2. p * y = p * q + p + p * e /\ p * e \in Nat /\ p * q \in Nat
      BY <1>2, <3>1
    <3> QED BY <1>2, <3>2
  <2> QED BY <1>2, <2>1, <2>2
<1>4. z % p = x
  BY <1>2, <1>3
<1> QED BY <1>3, <1>4 DEF q

\* The k bits of b from n on, as a number.
Field(b, n, k) ==
    LET f == CHOOSE f : Iterates(f, [Nat -> Nat], [m \in Nat |-> 0],
                                 [i \in Nat |-> [g \in [Nat -> Nat] |->
                                    [m \in Nat |-> b[m] + 2 * g[m + 1]]]])
    IN  f[k][n]

\* Streams of bits.
Bits01 == [Nat -> {0, 1}]

\* A field is its first bit and twice the field after it.
LEMMA FieldIs ==
    ASSUME NEW b \in Bits01, NEW n \in Nat, NEW k \in Nat
    PROVE  /\ Field(b, n, k) \in Nat /\ Field(b, n, 0) = 0
           /\ Field(b, n, k + 1) = b[n] + 2 * Field(b, n + 1, k)
<1> DEFINE X == [Nat -> Nat]
           zero == [m \in Nat |-> 0]
           next(g) == [m \in Nat |-> b[m] + 2 * g[m + 1]]
           G == [i \in Nat |-> [g \in X |-> next(g)]]
           f == CHOOSE f : Iterates(f, X, zero, G)
<1>1. \A m \in Nat : b[m] \in Nat
  BY DEF Bits01
<1>2. \A g \in X : next(g) \in X
  BY <1>1
<1>3. zero \in X /\ G \in [Nat -> [X -> X]]
  <2> HIDE DEF next, X
  <2>1. G \in [Nat -> [X -> X]]
    BY <1>2
  <2> QED BY <2>1 DEF X
<1>4. Iterates(f, X, zero, G)
  <2> HIDE DEF G, X, zero
  <2>1. \E h : Iterates(h, X, zero, G)
    BY <1>3, Recursion
  <2> QED BY <2>1
<1>5. Field(b, n, k) = f[k][n]
  BY DEF Field
<1>6. Field(b, n, 0) = f[0][n]
  BY DEF Field
<1>7. Field(b, n, k + 1) = f[k + 1][n]
  BY DEF Field
<1>8. Field(b, n + 1, k) = f[k][n + 1]
  BY DEF Field
<1> HIDE DEF f
<1>9. f \in [Nat -> X] /\ f[0] = zero /\ \A i \in Nat : f[i + 1] = G[i][f[i]]
  <2> HIDE DEF G, X, zero
  <2> QED BY <1>4 DEF Iterates
<1>10. f[k] \in X /\ f[k + 1] = next(f[k])
  <2> HIDE DEF next, X
  <2> QED BY <1>9
<1>11. f[k][n] \in Nat /\ f[0][n] = 0
  BY <1>9, <1>10
<1>12. f[k + 1][n] = b[n] + 2 * f[k][n + 1]
  BY <1>10
<1> QED BY <1>5, <1>6, <1>7, <1>8, <1>11, <1>12

LEMMA FieldOne ==
    ASSUME NEW b \in Bits01, NEW n \in Nat
    PROVE  Field(b, n, 1) = b[n] /\ b[n] \in {0, 1}
<1>1. Field(b, n, 0 + 1) = b[n] + 2 * Field(b, n + 1, 0) /\ Field(b, n + 1, 0) = 0
  BY FieldIs
<1>2. b[n] \in {0, 1}
  BY DEF Bits01
<1> QED BY <1>1, <1>2

\* A field of k bits is below 2^k.
LEMMA FieldBound ==
    ASSUME NEW b \in Bits01
    PROVE  \A k, n \in Nat : Field(b, n, k) < Pow[k]
<1> DEFINE T == {k \in Nat : \A n \in Nat : Field(b, n, k) < Pow[k]}
<1>1. 0 \in T
  BY FieldIs, PowIs
<1>2. ASSUME NEW k \in Nat, k \in T
      PROVE  k + 1 \in T
  <2>1. ASSUME NEW n \in Nat
        PROVE  Field(b, n, k + 1) < Pow[k + 1]
    <3>1. /\ Field(b, n, k + 1) = b[n] + 2 * Field(b, n + 1, k)
          /\ Field(b, n + 1, k) \in Nat
      BY FieldIs
    <3>2. Field(b, n + 1, k) < Pow[k]
      BY <1>2
    <3>3. Pow[k + 1] = 2 * Pow[k] /\ Pow[k] \in Nat
      BY PowIs
    <3>4. b[n] \in {0, 1}
      BY FieldOne
    <3> QED BY <3>1, <3>2, <3>3, <3>4
  <2> QED BY <2>1
<1> HIDE DEF T
<1>3. \A n \in Nat : n \in T
  BY <1>1, <1>2, SetInduction
<1> QED BY <1>3 DEF T

\* The bits of two fields next to each other are those of one.
LEMMA Joins ==
    ASSUME NEW b \in Bits01, NEW k \in Nat
    PROVE  \A j, n \in Nat : Field(b, n, j) + Pow[j] * Field(b, n + j, k) = Field(b, n, j + k)
<1> DEFINE Joined(n, j) == Field(b, n, j) + Pow[j] * Field(b, n + j, k) = Field(b, n, j + k)
           T == {j \in Nat : \A n \in Nat : Joined(n, j)}
<1>1. 0 \in T
  <2>1. ASSUME NEW n \in Nat
        PROVE  Joined(n, 0)
    <3>1. Field(b, n, 0) = 0 /\ Field(b, n, k) \in Nat
      BY FieldIs
    <3>2. Pow[0] = 1 /\ n + 0 = n /\ 0 + k = k
      BY PowIs
    <3> QED BY <3>1, <3>2
  <2> QED BY <2>1
<1>2. ASSUME NEW j \in Nat, j \in T
      PROVE  j + 1 \in T
  <2>1. ASSUME NEW n \in Nat
        PROVE  Joined(n, j + 1)
    <3> DEFINE n1 == n + 1
               jk == j + k
               nj == n1 + j
               x == Field(b, n1, j)
               y == Field(b, n1, jk)
               z == Field(b, nj, k)
               p == Pow[j]
    <3>1. n1 \in Nat /\ jk \in Nat /\ nj \in Nat /\ nj = n + (j + 1) /\ jk + 1 = (j + 1) + k
      OBVIOUS
    <3>2. x + p * z = y
      BY <1>2, <3>1
    <3>3. Field(b, n, j + 1) = b[n] + 2 * x
      BY FieldIs
    <3>4. Field(b, n, jk + 1) = b[n] + 2 * y
      <4> HIDE DEF jk
      <4> QED BY <3>1, FieldIs
    <3>5. x \in Nat /\ y \in Nat /\ z \in Nat
      <4> HIDE DEF n1, jk, nj
      <4> QED BY <3>1, FieldIs
    <3>6. p \in Nat /\ Pow[j + 1] = 2 * p
      BY PowIs
    <3>7. b[n] \in Nat
      BY FieldOne
    <3>8. (b[n] + 2 * x) + (2 * p) * z = b[n] + 2 * y
      <4> HIDE DEF x, y, z, p
      <4>1. (2 * p) * z = 2 * (p * z) /\ p * z \in Nat
        BY <3>5, <3>6
      <4> QED BY <3>2, <3>5, <3>7, <4>1
    <3> HIDE DEF x, y, p
    <3>9. Field(b, n, j + 1) + Pow[j + 1] * z = Field(b, n, jk + 1)
      BY <3>3, <3>4, <3>6, <3>8
    <3>10. z = Field(b, n + (j + 1), k) /\ Field(b, n, jk + 1) = Field(b, n, (j + 1) + k)
      <4> HIDE DEF nj, jk
      <4> QED BY <3>1 DEF z
    <3> QED BY <3>9, <3>10
  <2> QED BY <2>1
<1> HIDE DEF T
<1>3. \A j \in Nat : j \in T
  BY <1>1, <1>2, SetInduction
<1> QED BY <1>3 DEF T

\* A field of l bits, l = j + k, is the j bits from n on and the k bits from m on,
\* m = n + j; p is 2^j.
CutAt(b, n, j, p, m, k, l) ==
    /\ Field(b, n, j) \in Nat /\ Field(b, m, k) \in Nat /\ Field(b, n, l) \in Nat
    /\ Field(b, n, j) + p * Field(b, m, k) = Field(b, n, l)
    /\ Field(b, n, l) \div p = Field(b, m, k)
    /\ Field(b, n, l) % p = Field(b, n, j)

LEMMA Cuts ==
    ASSUME NEW b \in Bits01, NEW n \in Nat, NEW j \in Nat, NEW m \in Nat, NEW k \in Nat,
           NEW l \in Nat, NEW p \in Nat, p = Pow[j], m = n + j, l = j + k
    PROVE  CutAt(b, n, j, p, m, k, l)
<1> DEFINE x == Field(b, n, j)
           y == Field(b, m, k)
<1>1. p \in Nat \ {0} /\ x \in Nat /\ x < p
  BY PowPositive, FieldIs, FieldBound
<1>2. y \in Nat
  BY FieldIs
<1>3. x + p * y = Field(b, n, l)
  BY Joins
<1>4. (x + p * y) \div p = y /\ (x + p * y) % p = x
  <2> HIDE DEF x, y
  <2> QED BY <1>1, <1>2, Divided
<1>5. Field(b, n, l) \in Nat
  BY FieldIs
<1> QED BY <1>1, <1>2, <1>3, <1>4, <1>5 DEF CutAt

\* Bit j of a field.
LEMMA FieldBit ==
    ASSUME NEW b \in Bits01, NEW n \in Nat, NEW j \in Nat, NEW k \in Nat, j < k
    PROVE  (Field(b, n, k) \div Pow[j]) % 2 = b[n + j]
<1> DEFINE m == n + j
           r == k - j
           s == r - 1
           p == Pow[j]
           o == m + 1
<1>1. m \in Nat /\ r \in Nat /\ s \in Nat /\ o \in Nat /\ k = j + r /\ r = 1 + s
  OBVIOUS
<1>2. p \in Nat /\ 2 = Pow[1]
  BY PowIs, Powers
<1>3. CutAt(b, n, j, p, m, r, k)
  <2> HIDE DEF r, s
  <2> QED BY <1>1, <1>2, Cuts
<1>4. CutAt(b, m, 1, 2, o, s, r)
  <2> HIDE DEF m, r, s
  <2> QED BY <1>1, <1>2, Cuts
<1>5. Field(b, m, 1) = b[m]
  BY <1>1, FieldOne
<1> HIDE DEF m, r, s, o
<1>6. Field(b, n, k) \div p = Field(b, m, r) /\ Field(b, m, r) % 2 = b[m]
  BY <1>3, <1>4, <1>5 DEF CutAt
<1> QED BY <1>6 DEF m

\* The first d bits of v are those of b from n on.
BitsOf(v, b, n, d) == \A j \in Nat : j < d => b[n + j] = (v \div Pow[j]) % 2

\* The bits of a number make it up again.
LEMMA FieldOf ==
    ASSUME NEW b \in Bits01, NEW n \in Nat, NEW d \in Nat, NEW v \in Nat,
           BitsOf(v, b, n, d)
    PROVE  \A k \in Nat : k <= d => Field(b, n, k) = v % Pow[k]
<1>0. \A j \in Nat : j < d => b[n + j] = (v \div Pow[j]) % 2
  BY DEF BitsOf
<1> DEFINE T == {k \in Nat : k <= d => Field(b, n, k) = v % Pow[k]}
<1>1. 0 \in T
  <2>1. Field(b, n, 0) = 0 /\ Pow[0] = 1 /\ v % 1 = 0
    BY FieldIs, PowIs
  <2> QED BY <2>1
<1>2. ASSUME NEW k \in Nat, k \in T
      PROVE  k + 1 \in T
  <2> SUFFICES ASSUME k + 1 <= d
               PROVE  Field(b, n, k + 1) = v % Pow[k + 1]
    OBVIOUS
  <2> DEFINE p == Pow[k]
             m == n + k
             q == v \div p
             r == v % p
             h == q \div 2
             e == q % 2
             z == p * e + r
  <2>1. p \in Nat \ {0} /\ Pow[k + 1] = 2 * p
    BY PowIs, PowPositive
  <2>2. Field(b, n, k) = r
    BY <1>2
  <2>3. Field(b, m, 1) = e /\ m \in Nat
    <3>1. m \in Nat
      OBVIOUS
    <3>2. b[m] = e
      BY <1>0
    <3> HIDE DEF m, e
    <3> QED BY <3>1, <3>2, FieldOne
  <2>4. Field(b, n, k) + p * Field(b, m, 1) = Field(b, n, k + 1)
    BY Joins
  <2>5. q \in Nat /\ r \in Nat /\ r < p /\ v = p * q + r
    <3> HIDE DEF p
    <3> QED BY <2>1
  <2>6. h \in Nat /\ e \in {0, 1} /\ q = 2 * h + e
    <3> HIDE DEF q
    <3> QED BY <2>5
  <2> HIDE DEF p, m, q, r, h, e
  <2>7. z \in Nat /\ z < 2 * p /\ 2 * p \in Nat \ {0}
    <3>1. CASE e = 0
      BY <2>1, <2>5, <3>1
    <3>2. CASE e = 1
      BY <2>1, <2>5, <3>2
    <3> QED BY <2>6, <3>1, <3>2
  <2>8. v = z + (2 * p) * h
    <3>1. p * (2 * h + e) = (2 * p) * h + p * e /\ (2 * p) * h \in Nat /\ p * e \in Nat
      BY <2>1, <2>6
    <3> QED BY <2>5, <2>6, <3>1
  <2>9. v % (2 * p) = z
    <3> DEFINE w == 2 * p
    <3> HIDE DEF w, z
    <3>1. (z + w * h) % w = z
      BY <2>6, <2>7, Divided DEF w
    <3> QED BY <2>8, <3>1 DEF w
  <2>10. Field(b, n, k + 1) = z
    BY <2>1, <2>2, <2>3, <2>4, <2>5, <2>6
  <2> QED BY <2>1, <2>9, <2>10
<1> HIDE DEF T
<1>3. \A k \in Nat : k \in T
  BY <1>1, <1>2, SetInduction
<1> QED BY <1>3 DEF T

------------------------------------------------------------------------------
(* The bytes of a block, and the numbers in them *)

\* What a byte is made of: the numbers of five bits that it cuts.
LEMMA PackCuts5 ==
    ASSUME NEW b \in Bits01, NEW t,
           t[1] = Field(b, 0, 5), t[2] = Field(b, 5, 5), t[3] = Field(b, 10, 5),
           t[4] = Field(b, 15, 5), t[5] = Field(b, 20, 5), t[6] = Field(b, 25, 5),
           t[7] = Field(b, 30, 5), t[8] = Field(b, 35, 5)
    PROVE  /\ (t[1] + t[2] * 32) % 256 = Field(b, 0, 8)
           /\ (t[2] \div 8 + t[3] * 4 + t[4] * 128) % 256 = Field(b, 8, 8)
           /\ (t[4] \div 2 + t[5] * 16) % 256 = Field(b, 16, 8)
           /\ (t[5] \div 16 + t[6] * 2 + t[7] * 64) % 256 = Field(b, 24, 8)
           /\ (t[7] \div 4 + t[8] * 8) % 256 = Field(b, 32, 8)
<1>1. (t[1] + t[2] * 32) % 256 = Field(b, 0, 8)
  <2>1. CutAt(b, 0, 5, 32, 5, 5, 10)
    BY Cuts, Powers
  <2>2. CutAt(b, 0, 8, 256, 8, 2, 10)
    BY Cuts, Powers
  <2> QED BY <2>1, <2>2 DEF CutAt
<1>2. (t[2] \div 8 + t[3] * 4 + t[4] * 128) % 256 = Field(b, 8, 8)
  <2>1. CutAt(b, 5, 3, 8, 8, 2, 5)
    BY Cuts, Powers
  <2>2. CutAt(b, 8, 2, 4, 10, 5, 7)
    BY Cuts, Powers
  <2>3. CutAt(b, 8, 7, 128, 15, 5, 12)
    BY Cuts, Powers
  <2>4. CutAt(b, 8, 8, 256, 16, 4, 12)
    BY Cuts, Powers
  <2> QED BY <2>1, <2>2, <2>3, <2>4 DEF CutAt
<1>3. (t[4] \div 2 + t[5] * 16) % 256 = Field(b, 16, 8)
  <2>1. CutAt(b, 15, 1, 2, 16, 4, 5)
    BY Cuts, Powers
  <2>2. CutAt(b, 16, 4, 16, 20, 5, 9)
    BY Cuts, Powers
  <2>3. CutAt(b, 16, 8, 256, 24, 1, 9)
    BY Cuts, Powers
  <2> QED BY <2>1, <2>2, <2>3 DEF CutAt
<1>4. (t[5] \div 16 + t[6] * 2 + t[7] * 64) % 256 = Field(b, 24, 8)
  <2>1. CutAt(b, 20, 4, 16, 24, 1, 5)
    BY Cuts, Powers
  <2>2. CutAt(b, 24, 1, 2, 25, 5, 6)
    BY Cuts, Powers
  <2>3. CutAt(b, 24, 6, 64, 30, 5, 11)
    BY Cuts, Powers
  <2>4. CutAt(b, 24, 8, 256, 32, 3, 11)
    BY Cuts, Powers
  <2> QED BY <2>1, <2>2, <2>3, <2>4 DEF CutAt
<1>5. (t[7] \div 4 + t[8] * 8) % 256 = Field(b, 32, 8)
  <2>1. CutAt(b, 30, 2, 4, 32, 3, 5)
    BY Cuts, Powers
  <2>2. CutAt(b, 32, 3, 8, 35, 5, 8)
    BY Cuts, Powers
  <2>3. CutAt(b, 32, 8, 256, 40, 0, 8)
    BY Cuts, Powers
  <2> QED BY <2>1, <2>2, <2>3 DEF CutAt
<1> QED BY <1>1, <1>2, <1>3, <1>4, <1>5

\* What a number of five bits is made of: the bytes that it cuts.
LEMMA UnpackCuts5 ==
    ASSUME NEW b \in Bits01, NEW a,
           a[1] = Field(b, 0, 8), a[2] = Field(b, 8, 8), a[3] = Field(b, 16, 8),
           a[4] = Field(b, 24, 8), a[5] = Field(b, 32, 8)
    PROVE  /\ (a[1]) % 32 = Field(b, 0, 5)
           /\ (a[1] \div 32 + a[2] * 8) % 32 = Field(b, 5, 5)
           /\ (a[2] \div 4) % 32 = Field(b, 10, 5)
           /\ (a[2] \div 128 + a[3] * 2) % 32 = Field(b, 15, 5)
           /\ (a[3] \div 16 + a[4] * 16) % 32 = Field(b, 20, 5)
           /\ (a[4] \div 2) % 32 = Field(b, 25, 5)
           /\ (a[4] \div 64 + a[5] * 4) % 32 = Field(b, 30, 5)
           /\ (a[5] \div 8) % 32 = Field(b, 35, 5)
<1>1. (a[1]) % 32 = Field(b, 0, 5)
  <2>1. CutAt(b, 0, 5, 32, 5, 3, 8)
    BY Cuts, Powers
  <2> QED BY <2>1 DEF CutAt
<1>2. (a[1] \div 32 + a[2] * 8) % 32 = Field(b, 5, 5)
  <2>1. CutAt(b, 0, 5, 32, 5, 3, 8)
    BY Cuts, Powers
  <2>2. CutAt(b, 5, 3, 8, 8, 8, 11)
    BY Cuts, Powers
  <2>3. CutAt(b, 5, 5, 32, 10, 6, 11)
    BY Cuts, Powers
  <2> QED BY <2>1, <2>2, <2>3 DEF CutAt
<1>3. (a[2] \div 4) % 32 = Field(b, 10, 5)
  <2>1. CutAt(b, 8, 2, 4, 10, 6, 8)
    BY Cuts, Powers
  <2>2. CutAt(b, 10, 5, 32, 15, 1, 6)
    BY Cuts, Powers
  <2> QED BY <2>1, <2>2 DEF CutAt
<1>4. (a[2] \div 128 + a[3] * 2) % 32 = Field(b, 15, 5)
  <2>1. CutAt(b, 8, 7, 128, 15, 1, 8)
    BY Cuts, Powers
  <2>2. CutAt(b, 15, 1, 2, 16, 8, 9)
    BY Cuts, Powers
  <2>3. CutAt(b, 15, 5, 32, 20, 4, 9)
    BY Cuts, Powers
  <2> QED BY <2>1, <2>2, <2>3 DEF CutAt
<1>5. (a[3] \div 16 + a[4] * 16) % 32 = Field(b, 20, 5)
  <2>1. CutAt(b, 16, 4, 16, 20, 4, 8)
    BY Cuts, Powers
  <2>2. CutAt(b, 20, 4, 16, 24, 8, 12)
    BY Cuts, Powers
  <2>3. CutAt(b, 20, 5, 32, 25, 7, 12)
    BY Cuts, Powers
  <2> QED BY <2>1, <2>2, <2>3 DEF CutAt
<1>6. (a[4] \div 2) % 32 = Field(b, 25, 5)
  <2>1. CutAt(b, 24, 1, 2, 25, 7, 8)
    BY Cuts, Powers
  <2>2. CutAt(b, 25, 5, 32, 30, 2, 7)
    BY Cuts, Powers
  <2> QED BY <2>1, <2>2 DEF CutAt
<1>7. (a[4] \div 64 + a[5] * 4) % 32 = Field(b, 30, 5)
  <2>1. CutAt(b, 24, 6, 64, 30, 2, 8)
    BY Cuts, Powers
  <2>2. CutAt(b, 30, 2, 4, 32, 8, 10)
    BY Cuts, Powers
  <2>3. CutAt(b, 30, 5, 32, 35, 5, 10)
    BY Cuts, Powers
  <2> QED BY <2>1, <2>2, <2>3 DEF CutAt
<1>8. (a[5] \div 8) % 32 = Field(b, 35, 5)
  <2>1. CutAt(b, 32, 3, 8, 35, 5, 8)
    BY Cuts, Powers
  <2>2. CutAt(b, 35, 5, 32, 40, 0, 5)
    BY Cuts, Powers
  <2> QED BY <2>1, <2>2 DEF CutAt
<1> QED BY <1>1, <1>2, <1>3, <1>4, <1>5, <1>6, <1>7, <1>8

\* The bytes of eleven bits, and the numbers.
LEMMA PackCuts11 ==
    ASSUME NEW b \in Bits01, NEW t,
           t[1] = Field(b, 0, 11), t[2] = Field(b, 11, 11), t[3] = Field(b, 22, 11),
           t[4] = Field(b, 33, 11), t[5] = Field(b, 44, 11), t[6] = Field(b, 55, 11),
           t[7] = Field(b, 66, 11), t[8] = Field(b, 77, 11)
    PROVE  /\ (t[1]) % 256 = Field(b, 0, 8)
           /\ (t[1] \div 256 + t[2] * 8) % 256 = Field(b, 8, 8)
           /\ (t[2] \div 32 + t[3] * 64) % 256 = Field(b, 16, 8)
           /\ (t[3] \div 4) % 256 = Field(b, 24, 8)
           /\ (t[3] \div 1024 + t[4] * 2) % 256 = Field(b, 32, 8)
           /\ (t[4] \div 128 + t[5] * 16) % 256 = Field(b, 40, 8)
           /\ (t[5] \div 16 + t[6] * 128) % 256 = Field(b, 48, 8)
           /\ (t[6] \div 2) % 256 = Field(b, 56, 8)
           /\ (t[6] \div 512 + t[7] * 4) % 256 = Field(b, 64, 8)
           /\ (t[7] \div 64 + t[8] * 32) % 256 = Field(b, 72, 8)
           /\ (t[8] \div 8) % 256 = Field(b, 80, 8)
<1>1. (t[1]) % 256 = Field(b, 0, 8)
  <2>1. CutAt(b, 0, 8, 256, 8, 3, 11)
    BY Cuts, Powers
  <2> QED BY <2>1 DEF CutAt
<1>2. (t[1] \div 256 + t[2] * 8) % 256 = Field(b, 8, 8)
  <2>1. CutAt(b, 0, 8, 256, 8, 3, 11)
    BY Cuts, Powers
  <2>2. CutAt(b, 8, 3, 8, 11, 11, 14)
    BY Cuts, Powers
  <2>3. CutAt(b, 8, 8, 256, 16, 6, 14)
    BY Cuts, Powers
  <2> QED BY <2>1, <2>2, <2>3 DEF CutAt
<1>3. (t[2] \div 32 + t[3] * 64) % 256 = Field(b, 16, 8)
  <2>1. CutAt(b, 11, 5, 32, 16, 6, 11)
    BY Cuts, Powers
  <2>2. CutAt(b, 16, 6, 64, 22, 11, 17)
    BY Cuts, Powers
  <2>3. CutAt(b, 16, 8, 256, 24, 9, 17)
    BY Cuts, Powers
  <2> QED BY <2>1, <2>2, <2>3 DEF CutAt
<1>4. (t[3] \div 4) % 256 = Field(b, 24, 8)
  <2>1. CutAt(b, 22, 2, 4, 24, 9, 11)
    BY Cuts, Powers
  <2>2. CutAt(b, 24, 8, 256, 32, 1, 9)
    BY Cuts, Powers
  <2> QED BY <2>1, <2>2 DEF CutAt
<1>5. (t[3] \div 1024 + t[4] * 2) % 256 = Field(b, 32, 8)
  <2>1. CutAt(b, 22, 10, 1024, 32, 1, 11)
    BY Cuts, Powers
  <2>2. CutAt(b, 32, 1, 2, 33, 11, 12)
    BY Cuts, Powers
  <2>3. CutAt(b, 32, 8, 256, 40, 4, 12)
    BY Cuts, Powers
  <2> QED BY <2>1, <2>2, <2>3 DEF CutAt
<1>6. (t[4] \div 128 + t[5] * 16) % 256 = Field(b, 40, 8)
  <2>1. CutAt(b, 33, 7, 128, 40, 4, 11)
    BY Cuts, Powers
  <2>2. CutAt(b, 40, 4, 16, 44, 11, 15)
    BY Cuts, Powers
  <2>3. CutAt(b, 40, 8, 256, 48, 7, 15)
    BY Cuts, Powers
  <2> QED BY <2>1, <2>2, <2>3 DEF CutAt
<1>7. (t[5] \div 16 + t[6] * 128) % 256 = Field(b, 48, 8)
  <2>1. CutAt(b, 44, 4, 16, 48, 7, 11)
    BY Cuts, Powers
  <2>2. CutAt(b, 48, 7, 128, 55, 11, 18)
    BY Cuts, Powers
  <2>3. CutAt(b, 48, 8, 256, 56, 10, 18)
    BY Cuts, Powers
  <2> QED BY <2>1, <2>2, <2>3 DEF CutAt
<1>8. (t[6] \div 2) % 256 = Field(b, 56, 8)
  <2>1. CutAt(b, 55, 1, 2, 56, 10, 11)
    BY Cuts, Powers
  <2>2. CutAt(b, 56, 8, 256, 64, 2, 10)
    BY Cuts, Powers
  <2> QED BY <2>1, <2>2 DEF CutAt
<1>9. (t[6] \div 512 + t[7] * 4) % 256 = Field(b, 64, 8)
  <2>1. CutAt(b, 55, 9, 512, 64, 2, 11)
    BY Cuts, Powers
  <2>2. CutAt(b, 64, 2, 4, 66, 11, 13)
    BY Cuts, Powers
  <2>3. CutAt(b, 64, 8, 256, 72, 5, 13)
    BY Cuts, Powers
  <2> QED BY <2>1, <2>2, <2>3 DEF CutAt
<1>10. (t[7] \div 64 + t[8] * 32) % 256 = Field(b, 72, 8)
  <2>1. CutAt(b, 66, 6, 64, 72, 5, 11)
    BY Cuts, Powers
  <2>2. CutAt(b, 72, 5, 32, 77, 11, 16)
    BY Cuts, Powers
  <2>3. CutAt(b, 72, 8, 256, 80, 8, 16)
    BY Cuts, Powers
  <2> QED BY <2>1, <2>2, <2>3 DEF CutAt
<1>11. (t[8] \div 8) % 256 = Field(b, 80, 8)
  <2>1. CutAt(b, 77, 3, 8, 80, 8, 11)
    BY Cuts, Powers
  <2>2. CutAt(b, 80, 8, 256, 88, 0, 8)
    BY Cuts, Powers
  <2> QED BY <2>1, <2>2 DEF CutAt
<1> QED BY <1>1, <1>2, <1>3, <1>4, <1>5, <1>6, <1>7, <1>8, <1>9, <1>10, <1>11

LEMMA UnpackCuts11 ==
    ASSUME NEW b \in Bits01, NEW a,
           a[1] = Field(b, 0, 8), a[2] = Field(b, 8, 8), a[3] = Field(b, 16, 8),
           a[4] = Field(b, 24, 8), a[5] = Field(b, 32, 8), a[6] = Field(b, 40, 8),
           a[7] = Field(b, 48, 8), a[8] = Field(b, 56, 8), a[9] = Field(b, 64, 8),
           a[10] = Field(b, 72, 8), a[11] = Field(b, 80, 8)
    PROVE  /\ (a[1] + a[2] * 256) % 2048 = Field(b, 0, 11)
           /\ (a[2] \div 8 + a[3] * 32) % 2048 = Field(b, 11, 11)
           /\ (a[3] \div 64 + a[4] * 4 + a[5] * 1024) % 2048 = Field(b, 22, 11)
           /\ (a[5] \div 2 + a[6] * 128) % 2048 = Field(b, 33, 11)
           /\ (a[6] \div 16 + a[7] * 16) % 2048 = Field(b, 44, 11)
           /\ (a[7] \div 128 + a[8] * 2 + a[9] * 512) % 2048 = Field(b, 55, 11)
           /\ (a[9] \div 4 + a[10] * 64) % 2048 = Field(b, 66, 11)
           /\ (a[10] \div 32 + a[11] * 8) % 2048 = Field(b, 77, 11)
<1>1. (a[1] + a[2] * 256) % 2048 = Field(b, 0, 11)
  <2>1. CutAt(b, 0, 8, 256, 8, 8, 16)
    BY Cuts, Powers
  <2>2. CutAt(b, 0, 11, 2048, 11, 5, 16)
    BY Cuts, Powers
  <2> QED BY <2>1, <2>2 DEF CutAt
<1>2. (a[2] \div 8 + a[3] * 32) % 2048 = Field(b, 11, 11)
  <2>1. CutAt(b, 8, 3, 8, 11, 5, 8)
    BY Cuts, Powers
  <2>2. CutAt(b, 11, 5, 32, 16, 8, 13)
    BY Cuts, Powers
  <2>3. CutAt(b, 11, 11, 2048, 22, 2, 13)
    BY Cuts, Powers
  <2> QED BY <2>1, <2>2, <2>3 DEF CutAt
<1>3. (a[3] \div 64 + a[4] * 4 + a[5] * 1024) % 2048 = Field(b, 22, 11)
  <2>1. CutAt(b, 16, 6, 64, 22, 2, 8)
    BY Cuts, Powers
  <2>2. CutAt(b, 22, 2, 4, 24, 8, 10)
    BY Cuts, Powers
  <2>3. CutAt(b, 22, 10, 1024, 32, 8, 18)
    BY Cuts, Powers
  <2>4. CutAt(b, 22, 11, 2048, 33, 7, 18)
    BY Cuts, Powers
  <2> QED BY <2>1, <2>2, <2>3, <2>4 DEF CutAt
<1>4. (a[5] \div 2 + a[6] * 128) % 2048 = Field(b, 33, 11)
  <2>1. CutAt(b, 32, 1, 2, 33, 7, 8)
    BY Cuts, Powers
  <2>2. CutAt(b, 33, 7, 128, 40, 8, 15)
    BY Cuts, Powers
  <2>3. CutAt(b, 33, 11, 2048, 44, 4, 15)
    BY Cuts, Powers
  <2> QED BY <2>1, <2>2, <2>3 DEF CutAt
<1>5. (a[6] \div 16 + a[7] * 16) % 2048 = Field(b, 44, 11)
  <2>1. CutAt(b, 40, 4, 16, 44, 4, 8)
    BY Cuts, Powers
  <2>2. CutAt(b, 44, 4, 16, 48, 8, 12)
    BY Cuts, Powers
  <2>3. CutAt(b, 44, 11, 2048, 55, 1, 12)
    BY Cuts, Powers
  <2> QED BY <2>1, <2>2, <2>3 DEF CutAt
<1>6. (a[7] \div 128 + a[8] * 2 + a[9] * 512) % 2048 = Field(b, 55, 11)
  <2>1. CutAt(b, 48, 7, 128, 55, 1, 8)
    BY Cuts, Powers
  <2>2. CutAt(b, 55, 1, 2, 56, 8, 9)
    BY Cuts, Powers
  <2>3. CutAt(b, 55, 9, 512, 64, 8, 17)
    BY Cuts, Powers
  <2>4. CutAt(b, 55, 11, 2048, 66, 6, 17)
    BY Cuts, Powers
  <2> QED BY <2>1, <2>2, <2>3, <2>4 DEF CutAt
<1>7. (a[9] \div 4 + a[10] * 64) % 2048 = Field(b, 66, 11)
  <2>1. CutAt(b, 64, 2, 4, 66, 6, 8)
    BY Cuts, Powers
  <2>2. CutAt(b, 66, 6, 64, 72, 8, 14)
    BY Cuts, Powers
  <2>3. CutAt(b, 66, 11, 2048, 77, 3, 14)
    BY Cuts, Powers
  <2> QED BY <2>1, <2>2, <2>3 DEF CutAt
<1>8. (a[10] \div 32 + a[11] * 8) % 2048 = Field(b, 77, 11)
  <2>1. CutAt(b, 72, 5, 32, 77, 3, 8)
    BY Cuts, Powers
  <2>2. CutAt(b, 77, 3, 8, 80, 8, 11)
    BY Cuts, Powers
  <2>3. CutAt(b, 77, 11, 2048, 88, 0, 11)
    BY Cuts, Powers
  <2> QED BY <2>1, <2>2, <2>3 DEF CutAt
<1> QED BY <1>1, <1>2, <1>3, <1>4, <1>5, <1>6, <1>7, <1>8

\* The bytes of twelve bits, and the numbers.
LEMMA PackCuts12 ==
    ASSUME NEW b \in Bits01, NEW t,
           t[1] = Field(b, 0, 12), t[2] = Field(b, 12, 12)
    PROVE  /\ (t[1]) % 256 = Field(b, 0, 8)
           /\ (t[1] \div 256 + t[2] * 16) % 256 = Field(b, 8, 8)
           /\ (t[2] \div 16) % 256 = Field(b, 16, 8)
<1>1. (t[1]) % 256 = Field(b, 0, 8)
  <2>1. CutAt(b, 0, 8, 256, 8, 4, 12)
    BY Cuts, Powers
  <2> QED BY <2>1 DEF CutAt
<1>2. (t[1] \div 256 + t[2] * 16) % 256 = Field(b, 8, 8)
  <2>1. CutAt(b, 0, 8, 256, 8, 4, 12)
    BY Cuts, Powers
  <2>2. CutAt(b, 8, 4, 16, 12, 12, 16)
    BY Cuts, Powers
  <2>3. CutAt(b, 8, 8, 256, 16, 8, 16)
    BY Cuts, Powers
  <2> QED BY <2>1, <2>2, <2>3 DEF CutAt
<1>3. (t[2] \div 16) % 256 = Field(b, 16, 8)
  <2>1. CutAt(b, 12, 4, 16, 16, 8, 12)
    BY Cuts, Powers
  <2>2. CutAt(b, 16, 8, 256, 24, 0, 8)
    BY Cuts, Powers
  <2> QED BY <2>1, <2>2 DEF CutAt
<1> QED BY <1>1, <1>2, <1>3

LEMMA UnpackCuts12 ==
    ASSUME NEW b \in Bits01, NEW a,
           a[1] = Field(b, 0, 8), a[2] = Field(b, 8, 8), a[3] = Field(b, 16, 8)
    PROVE  /\ (a[1] + a[2] * 256) % 4096 = Field(b, 0, 12)
           /\ (a[2] \div 16 + a[3] * 16) % 4096 = Field(b, 12, 12)
<1>1. (a[1] + a[2] * 256) % 4096 = Field(b, 0, 12)
  <2>1. CutAt(b, 0, 8, 256, 8, 8, 16)
    BY Cuts, Powers
  <2>2. CutAt(b, 0, 12, 4096, 12, 4, 16)
    BY Cuts, Powers
  <2> QED BY <2>1, <2>2 DEF CutAt
<1>2. (a[2] \div 16 + a[3] * 16) % 4096 = Field(b, 12, 12)
  <2>1. CutAt(b, 8, 4, 16, 12, 4, 8)
    BY Cuts, Powers
  <2>2. CutAt(b, 12, 4, 16, 16, 8, 12)
    BY Cuts, Powers
  <2>3. CutAt(b, 12, 12, 4096, 24, 0, 12)
    BY Cuts, Powers
  <2> QED BY <2>1, <2>2, <2>3 DEF CutAt
<1> QED BY <1>1, <1>2

------------------------------------------------------------------------------
(* Packing *)

\* c numbers of d bits each.
Small(t, d, c) == \A i \in 1..c : t[i] \in Nat /\ t[i] < Pow[d]

\* They are the fields of b, one after the other.
FieldsAre(t, b, d, c) == \A i \in 1..c : t[i] = Field(b, d * (i - 1), d)

\* c numbers of d bits are no more bits than k bytes.
Enough(d, c, k) == d * c <= 8 * k

\* Their bits are those of b.
BitsAre(t, b, d, c) == \A n \in 0..(d * c - 1) : b[n] = BitOf(t, d, n)

\* The bits of numbers of d bits are a stream of which each is a field.
LEMMA Stream ==
    ASSUME NEW d \in 1..12, NEW c \in Nat, NEW t, Small(t, d, c)
    PROVE  \E b \in Bits01 : FieldsAre(t, b, d, c) /\ BitsAre(t, b, d, c)
<1>0. \A i \in 1..c : t[i] \in Nat /\ t[i] < Pow[d]
  BY DEF Small
<1> DEFINE b == [n \in Nat |-> IF BitOf(t, d, n) = 1 THEN 1 ELSE 0]
<1>1. b \in Bits01
  BY DEF Bits01
<1>2. ASSUME NEW i \in 1..c, NEW j \in Nat, j < d
      PROVE  b[d * (i - 1) + j] = (t[i] \div Pow[j]) % 2 /\ BitOf(t, d, d * (i - 1) + j) \in {0, 1}
  <2> DEFINE y == i - 1
             n == d * y + j
             v == t[i] \div Pow[j]
  <2>1. n \in Nat /\ n = j + d * y /\ y \in Nat
    <3> HIDE DEF y
    <3>1. y \in Nat
      BY DEF y
    <3>2. d * y \in Nat
      BY <3>1
    <3> QED BY <3>1, <3>2
  <2>2. (j + d * y) \div d = y /\ (j + d * y) % d = j
    <3> HIDE DEF y
    <3> QED BY <1>2, <2>1, Divided
  <2>3. n \div d = y /\ n % d = j
    <3> HIDE DEF y, n
    <3> QED BY <2>1, <2>2
  <2>4. 2^j = Pow[j]
    <3>1. j \in 0..11
      BY <1>2
    <3> QED BY <3>1, PowerIs
  <2>5. y + 1 = i
    OBVIOUS
  <2>6. BitOf(t, d, n) = v % 2
    <3> HIDE DEF y, n
    <3> QED BY <2>3, <2>4, <2>5 DEF BitOf
  <2>7. v \in Nat
    <3>1. t[i] \in Nat /\ Pow[j] \in Nat \ {0}
      BY <1>0, PowPositive
    <3> QED BY <3>1
  <2>8. v % 2 \in {0, 1}
    <3> HIDE DEF v
    <3> QED BY <2>7
  <2>9. b[n] = v % 2
    <3>1. b[n] = IF BitOf(t, d, n) = 1 THEN 1 ELSE 0
      <4> HIDE DEF n
      <4> QED BY <2>1
    <3> HIDE DEF b, n, v
    <3> QED BY <2>6, <2>8, <3>1
  <2>10. b[n] = v % 2 /\ BitOf(t, d, n) \in {0, 1}
    <3> HIDE DEF b, n, v
    <3> QED BY <2>6, <2>8, <2>9
  <2> HIDE DEF b
  <2> QED BY <2>10, Zenon
<1> HIDE DEF b
<1>3. ASSUME NEW i \in 1..c
      PROVE  t[i] = Field(b, d * (i - 1), d)
  <2> DEFINE n == d * (i - 1)
             v == t[i]
  <2>1. n \in Nat
    <3> DEFINE y == i - 1
    <3>1. y \in Nat
      OBVIOUS
    <3> HIDE DEF y
    <3>2. d * y \in Nat
      BY <3>1
    <3> QED BY <3>2 DEF y
  <2>2. BitsOf(v, b, n, d)
    BY <1>2 DEF BitsOf
  <2>3. v \in Nat /\ v < Pow[d] /\ Pow[d] \in Nat
    BY <1>0, PowIs
  <2>4. d \in Nat /\ d <= d
    OBVIOUS
  <2> HIDE DEF n, v
  <2>5. Field(b, n, d) = v % Pow[d]
    BY <1>1, <2>1, <2>2, <2>3, <2>4, FieldOf
  <2>6. v % Pow[d] = v
    BY <2>3
  <2> QED BY <2>5, <2>6 DEF n, v
<1>4. ASSUME NEW n \in 0..(d * c - 1)
      PROVE  b[n] = BitOf(t, d, n)
  <2> DEFINE y == n \div d
             j == n % d
             i == y + 1
  <2>1. y \in Nat /\ j \in Nat /\ j < d /\ n = d * y + j
    OBVIOUS
  <2>2. y < c
    <3> HIDE DEF y, j
    <3>1. CASE y >= c
      <4>1. PICK e \in Nat : y = c + e
        <5>1. y - c \in Nat /\ y = c + (y - c)
          BY <2>1, <3>1
        <5> QED BY <5>1
      <4>2. d * y = d * c + d * e /\ d * e \in Nat /\ d * c \in Nat
        BY <4>1
      <4> QED BY <2>1, <4>2
    <3> QED BY <2>1, <3>1
  <2>3. i \in 1..c /\ y = i - 1
    <3> HIDE DEF y
    <3> QED BY <2>1, <2>2
  <2>4. BitOf(t, d, n) \in {0, 1}
    <3>1. n = d * (i - 1) + j
      <4> HIDE DEF y, j, i
      <4> QED BY <2>1, <2>3
    <3> HIDE DEF i, j
    <3> QED BY <1>2, <2>1, <2>3, <3>1
  <2>5. b[n] = IF BitOf(t, d, n) = 1 THEN 1 ELSE 0
    BY DEF b
  <2> QED BY <2>4, <2>5
<1> QED BY <1>1, <1>3, <1>4 DEF FieldsAre, BitsAre

\* Bytes that are the fields of a stream have its bits.
LEMMA BytesOfStream ==
    ASSUME NEW b \in Bits01, NEW d \in 1..12, NEW c \in Nat, NEW t, Len(t) = c,
           BitsAre(t, b, d, c),
           NEW k \in Nat, NEW a, Enough(d, c, k), FieldsAre(a, b, 8, k)
    PROVE  SameBits(t, d, a)
<1> SUFFICES ASSUME NEW n \in 0..(d * c - 1)
             PROVE  BitOf(t, d, n) = BitOf(a, 8, n)
  BY DEF SameBits
<1> DEFINE w == d * c
           q == n \div 8
           r == n % 8
           m == 8 * q
           i == q + 1
<1>1. w \in Nat /\ w <= 8 * k
  BY DEF Enough
<1>2. q \in Nat /\ r \in 0..7 /\ n = m + r /\ m \in Nat /\ i \in 1..k
  <2>1. n \in 0..(w - 1)
    OBVIOUS
  <2> HIDE DEF w
  <2> QED BY <1>1, <2>1
<1>3. a[i] = Field(b, m, 8)
  <2>0. \A h \in 1..k : a[h] = Field(b, 8 * (h - 1), 8)
    BY DEF FieldsAre
  <2>1. i - 1 = q
    BY <1>2
  <2> HIDE DEF i, q
  <2> QED BY <1>2, <2>0, <2>1
<1>4. (Field(b, m, 8) \div Pow[r]) % 2 = b[m + r]
  <2> HIDE DEF w, q, m, r, i
  <2>1. m \in Nat /\ r \in Nat /\ r < 8
    BY <1>2
  <2> QED BY <2>1, FieldBit
<1>5. 2^r = Pow[r]
  <2>1. r \in 0..11
    BY <1>2
  <2> QED BY <2>1, PowerIs
<1>8. b[n] = BitOf(t, d, n)
  BY DEF BitsAre
<1>6. BitOf(a, 8, n) = (a[i] \div 2^r) % 2
  BY DEF BitOf
<1> HIDE DEF w, q, r, m, i
<1>7. BitOf(a, 8, n) = b[n]
  BY <1>2, <1>3, <1>4, <1>5, <1>6
<1> QED BY <1>7, <1>8

\* The bytes of a block have the bits of its numbers.
LEMMA BytesSame5 ==
    ASSUME NEW b \in Bits01, NEW t, Len(t) = 8, BitsAre(t, b, 5, 8),
           NEW a, FieldsAre(a, b, 8, 5)
    PROVE  SameBits(t, 5, a)
<1>1. 5 \in 1..12 /\ 8 \in Nat /\ 5 \in Nat /\ Enough(5, 8, 5)
  BY DEF Enough
<1> QED BY <1>1, BytesOfStream

\* Every 8 numbers of 5 bits are packed into their bits and unpacked from them.
LEMMA Packing5 ==
    ASSUME NEW t, t = [i \in 1..8 |-> t[i]],
           \A i \in 1..8 : t[i] \in Nat /\ t[i] < 32
    PROVE  SameBits(t, 5, Pack5(t)) /\ Unpack5(Pack5(t)) = t
<1> DEFINE a == Pack5(t)
           u == Unpack5(a)
<1>1. PICK b \in Bits01 : FieldsAre(t, b, 5, 8) /\ BitsAre(t, b, 5, 8)
  <2>1. Small(t, 5, 8)
    BY Powers DEF Small
  <2>2. 5 \in 1..12 /\ 8 \in Nat
    OBVIOUS
  <2> QED BY <2>1, <2>2, Stream
<1>2. /\ t[1] = Field(b, 0, 5)
      /\ t[2] = Field(b, 5, 5)
      /\ t[3] = Field(b, 10, 5)
      /\ t[4] = Field(b, 15, 5)
      /\ t[5] = Field(b, 20, 5)
      /\ t[6] = Field(b, 25, 5)
      /\ t[7] = Field(b, 30, 5)
      /\ t[8] = Field(b, 35, 5)
  <2>1. \A i \in 1..8 : \E n \in Nat : n = 5 * (i - 1) /\ t[i] = Field(b, n, 5)
    BY <1>1 DEF FieldsAre
  <2> QED BY <2>1
<1>3. /\ a[1] = (t[1] + t[2] * 32) % 256
      /\ a[2] = (t[2] \div 8 + t[3] * 4 + t[4] * 128) % 256
      /\ a[3] = (t[4] \div 2 + t[5] * 16) % 256
      /\ a[4] = (t[5] \div 16 + t[6] * 2 + t[7] * 64) % 256
      /\ a[5] = (t[7] \div 4 + t[8] * 8) % 256
  BY DEF Pack5, AsBytes
<1> HIDE DEF a
<1>4. /\ a[1] = Field(b, 0, 8)
      /\ a[2] = Field(b, 8, 8)
      /\ a[3] = Field(b, 16, 8)
      /\ a[4] = Field(b, 24, 8)
      /\ a[5] = Field(b, 32, 8)
  BY <1>2, <1>3, PackCuts5
<1>5. SameBits(t, 5, a)
  <2>1. Len(t) = 8
    <3>1. t \in Seq(Nat) /\ DOMAIN t = 1..8
      OBVIOUS
    <3> QED BY <3>1
  <2>4. ASSUME NEW i \in 1..5
        PROVE  a[i] = Field(b, 8 * (i - 1), 8)
    <3>1. CASE i = 1
      <4>1. 8 * (i - 1) = 0
        BY <3>1
      <4> QED BY <1>4, <3>1, <4>1
    <3>2. CASE i = 2
      <4>1. 8 * (i - 1) = 8
        BY <3>2
      <4> QED BY <1>4, <3>2, <4>1
    <3>3. CASE i = 3
      <4>1. 8 * (i - 1) = 16
        BY <3>3
      <4> QED BY <1>4, <3>3, <4>1
    <3>4. CASE i = 4
      <4>1. 8 * (i - 1) = 24
        BY <3>4
      <4> QED BY <1>4, <3>4, <4>1
    <3>5. CASE i = 5
      <4>1. 8 * (i - 1) = 32
        BY <3>5
      <4> QED BY <1>4, <3>5, <4>1
    <3> QED BY <3>1, <3>2, <3>3, <3>4, <3>5
  <2>2. FieldsAre(a, b, 8, 5)
    BY <2>4 DEF FieldsAre
  <2> QED BY <1>1, <2>1, <2>2, BytesSame5
<1>6. /\ u[1] = (a[1]) % 32
      /\ u[2] = (a[1] \div 32 + a[2] * 8) % 32
      /\ u[3] = (a[2] \div 4) % 32
      /\ u[4] = (a[2] \div 128 + a[3] * 2) % 32
      /\ u[5] = (a[3] \div 16 + a[4] * 16) % 32
      /\ u[6] = (a[4] \div 2) % 32
      /\ u[7] = (a[4] \div 64 + a[5] * 4) % 32
      /\ u[8] = (a[5] \div 8) % 32
  BY DEF Unpack5
<1>7. u = [i \in 1..8 |-> u[i]]
  BY DEF Unpack5
<1> HIDE DEF u
<1>8. /\ u[1] = Field(b, 0, 5)
      /\ u[2] = Field(b, 5, 5)
      /\ u[3] = Field(b, 10, 5)
      /\ u[4] = Field(b, 15, 5)
      /\ u[5] = Field(b, 20, 5)
      /\ u[6] = Field(b, 25, 5)
      /\ u[7] = Field(b, 30, 5)
      /\ u[8] = Field(b, 35, 5)
  BY <1>4, <1>6, UnpackCuts5
<1>9. /\ u[1] = t[1]
      /\ u[2] = t[2]
      /\ u[3] = t[3]
      /\ u[4] = t[4]
      /\ u[5] = t[5]
      /\ u[6] = t[6]
      /\ u[7] = t[7]
      /\ u[8] = t[8]
  BY <1>2, <1>8
<1>10. ASSUME NEW i \in 1..8
      PROVE  u[i] = t[i]
  BY <1>9
<1>11. u = t
  BY <1>7, <1>10
<1> QED BY <1>5, <1>11 DEF a, u

LEMMA BytesSame11 ==
    ASSUME NEW b \in Bits01, NEW t, Len(t) = 8, BitsAre(t, b, 11, 8),
           NEW a, FieldsAre(a, b, 8, 11)
    PROVE  SameBits(t, 11, a)
<1>1. 11 \in 1..12 /\ 8 \in Nat /\ 11 \in Nat /\ Enough(11, 8, 11)
  BY DEF Enough
<1> QED BY <1>1, BytesOfStream

\* Every 8 numbers of 11 bits are packed into their bits and unpacked from them.
LEMMA Packing11 ==
    ASSUME NEW t, t = [i \in 1..8 |-> t[i]],
           \A i \in 1..8 : t[i] \in Nat /\ t[i] < 2048
    PROVE  SameBits(t, 11, Pack11(t)) /\ Unpack11(Pack11(t)) = t
<1> DEFINE a == Pack11(t)
           u == Unpack11(a)
<1>1. PICK b \in Bits01 : FieldsAre(t, b, 11, 8) /\ BitsAre(t, b, 11, 8)
  <2>1. Small(t, 11, 8)
    BY Powers DEF Small
  <2>2. 11 \in 1..12 /\ 8 \in Nat
    OBVIOUS
  <2> QED BY <2>1, <2>2, Stream
<1>2. /\ t[1] = Field(b, 0, 11)
      /\ t[2] = Field(b, 11, 11)
      /\ t[3] = Field(b, 22, 11)
      /\ t[4] = Field(b, 33, 11)
      /\ t[5] = Field(b, 44, 11)
      /\ t[6] = Field(b, 55, 11)
      /\ t[7] = Field(b, 66, 11)
      /\ t[8] = Field(b, 77, 11)
  <2>1. \A i \in 1..8 : \E n \in Nat : n = 11 * (i - 1) /\ t[i] = Field(b, n, 11)
    BY <1>1 DEF FieldsAre
  <2> QED BY <2>1
<1>3. /\ a[1] = (t[1]) % 256
      /\ a[2] = (t[1] \div 256 + t[2] * 8) % 256
      /\ a[3] = (t[2] \div 32 + t[3] * 64) % 256
      /\ a[4] = (t[3] \div 4) % 256
      /\ a[5] = (t[3] \div 1024 + t[4] * 2) % 256
      /\ a[6] = (t[4] \div 128 + t[5] * 16) % 256
      /\ a[7] = (t[5] \div 16 + t[6] * 128) % 256
      /\ a[8] = (t[6] \div 2) % 256
      /\ a[9] = (t[6] \div 512 + t[7] * 4) % 256
      /\ a[10] = (t[7] \div 64 + t[8] * 32) % 256
      /\ a[11] = (t[8] \div 8) % 256
  BY DEF Pack11, AsBytes
<1> HIDE DEF a
<1>4. /\ a[1] = Field(b, 0, 8)
      /\ a[2] = Field(b, 8, 8)
      /\ a[3] = Field(b, 16, 8)
      /\ a[4] = Field(b, 24, 8)
      /\ a[5] = Field(b, 32, 8)
      /\ a[6] = Field(b, 40, 8)
      /\ a[7] = Field(b, 48, 8)
      /\ a[8] = Field(b, 56, 8)
      /\ a[9] = Field(b, 64, 8)
      /\ a[10] = Field(b, 72, 8)
      /\ a[11] = Field(b, 80, 8)
  BY <1>2, <1>3, PackCuts11
<1>5. SameBits(t, 11, a)
  <2>1. Len(t) = 8
    <3>1. t \in Seq(Nat) /\ DOMAIN t = 1..8
      OBVIOUS
    <3> QED BY <3>1
  <2>4. ASSUME NEW i \in 1..11
        PROVE  a[i] = Field(b, 8 * (i - 1), 8)
    <3>1. CASE i = 1
      <4>1. 8 * (i - 1) = 0
        BY <3>1
      <4> QED BY <1>4, <3>1, <4>1
    <3>2. CASE i = 2
      <4>1. 8 * (i - 1) = 8
        BY <3>2
      <4> QED BY <1>4, <3>2, <4>1
    <3>3. CASE i = 3
      <4>1. 8 * (i - 1) = 16
        BY <3>3
      <4> QED BY <1>4, <3>3, <4>1
    <3>4. CASE i = 4
      <4>1. 8 * (i - 1) = 24
        BY <3>4
      <4> QED BY <1>4, <3>4, <4>1
    <3>5. CASE i = 5
      <4>1. 8 * (i - 1) = 32
        BY <3>5
      <4> QED BY <1>4, <3>5, <4>1
    <3>6. CASE i = 6
      <4>1. 8 * (i - 1) = 40
        BY <3>6
      <4> QED BY <1>4, <3>6, <4>1
    <3>7. CASE i = 7
      <4>1. 8 * (i - 1) = 48
        BY <3>7
      <4> QED BY <1>4, <3>7, <4>1
    <3>8. CASE i = 8
      <4>1. 8 * (i - 1) = 56
        BY <3>8
      <4> QED BY <1>4, <3>8, <4>1
    <3>9. CASE i = 9
      <4>1. 8 * (i - 1) = 64
        BY <3>9
      <4> QED BY <1>4, <3>9, <4>1
    <3>10. CASE i = 10
      <4>1. 8 * (i - 1) = 72
        BY <3>10
      <4> QED BY <1>4, <3>10, <4>1
    <3>11. CASE i = 11
      <4>1. 8 * (i - 1) = 80
        BY <3>11
      <4> QED BY <1>4, <3>11, <4>1
    <3> QED BY <3>1, <3>2, <3>3, <3>4, <3>5, <3>6, <3>7, <3>8, <3>9, <3>10, <3>11
  <2>2. FieldsAre(a, b, 8, 11)
    BY <2>4 DEF FieldsAre
  <2> QED BY <1>1, <2>1, <2>2, BytesSame11
<1>6. /\ u[1] = (a[1] + a[2] * 256) % 2048
      /\ u[2] = (a[2] \div 8 + a[3] * 32) % 2048
      /\ u[3] = (a[3] \div 64 + a[4] * 4 + a[5] * 1024) % 2048
      /\ u[4] = (a[5] \div 2 + a[6] * 128) % 2048
      /\ u[5] = (a[6] \div 16 + a[7] * 16) % 2048
      /\ u[6] = (a[7] \div 128 + a[8] * 2 + a[9] * 512) % 2048
      /\ u[7] = (a[9] \div 4 + a[10] * 64) % 2048
      /\ u[8] = (a[10] \div 32 + a[11] * 8) % 2048
  BY DEF Unpack11
<1>7. u = [i \in 1..8 |-> u[i]]
  BY DEF Unpack11
<1> HIDE DEF u
<1>8. /\ u[1] = Field(b, 0, 11)
      /\ u[2] = Field(b, 11, 11)
      /\ u[3] = Field(b, 22, 11)
      /\ u[4] = Field(b, 33, 11)
      /\ u[5] = Field(b, 44, 11)
      /\ u[6] = Field(b, 55, 11)
      /\ u[7] = Field(b, 66, 11)
      /\ u[8] = Field(b, 77, 11)
  BY <1>4, <1>6, UnpackCuts11
<1>9. /\ u[1] = t[1]
      /\ u[2] = t[2]
      /\ u[3] = t[3]
      /\ u[4] = t[4]
      /\ u[5] = t[5]
      /\ u[6] = t[6]
      /\ u[7] = t[7]
      /\ u[8] = t[8]
  BY <1>2, <1>8
<1>10. ASSUME NEW i \in 1..8
      PROVE  u[i] = t[i]
  BY <1>9
<1>11. u = t
  BY <1>7, <1>10
<1> QED BY <1>5, <1>11 DEF a, u

LEMMA BytesSame12 ==
    ASSUME NEW b \in Bits01, NEW t, Len(t) = 2, BitsAre(t, b, 12, 2),
           NEW a, FieldsAre(a, b, 8, 3)
    PROVE  SameBits(t, 12, a)
<1>1. 12 \in 1..12 /\ 2 \in Nat /\ 3 \in Nat /\ Enough(12, 2, 3)
  BY DEF Enough
<1> QED BY <1>1, BytesOfStream

\* Every 2 numbers of 12 bits are packed into their bits and unpacked from them.
LEMMA Packing12 ==
    ASSUME NEW t, t = [i \in 1..2 |-> t[i]],
           \A i \in 1..2 : t[i] \in Nat /\ t[i] < 4096
    PROVE  SameBits(t, 12, Pack12(t)) /\ Unpack12(Pack12(t)) = t
<1> DEFINE a == Pack12(t)
           u == Unpack12(a)
<1>1. PICK b \in Bits01 : FieldsAre(t, b, 12, 2) /\ BitsAre(t, b, 12, 2)
  <2>1. Small(t, 12, 2)
    BY Powers DEF Small
  <2>2. 12 \in 1..12 /\ 2 \in Nat
    OBVIOUS
  <2> QED BY <2>1, <2>2, Stream
<1>2. /\ t[1] = Field(b, 0, 12)
      /\ t[2] = Field(b, 12, 12)
  <2>1. \A i \in 1..2 : \E n \in Nat : n = 12 * (i - 1) /\ t[i] = Field(b, n, 12)
    BY <1>1 DEF FieldsAre
  <2> QED BY <2>1
<1>3. /\ a[1] = (t[1]) % 256
      /\ a[2] = (t[1] \div 256 + t[2] * 16) % 256
      /\ a[3] = (t[2] \div 16) % 256
  BY DEF Pack12, AsBytes
<1> HIDE DEF a
<1>4. /\ a[1] = Field(b, 0, 8)
      /\ a[2] = Field(b, 8, 8)
      /\ a[3] = Field(b, 16, 8)
  BY <1>2, <1>3, PackCuts12
<1>5. SameBits(t, 12, a)
  <2>1. Len(t) = 2
    <3>1. t \in Seq(Nat) /\ DOMAIN t = 1..2
      OBVIOUS
    <3> QED BY <3>1
  <2>4. ASSUME NEW i \in 1..3
        PROVE  a[i] = Field(b, 8 * (i - 1), 8)
    <3>1. CASE i = 1
      <4>1. 8 * (i - 1) = 0
        BY <3>1
      <4> QED BY <1>4, <3>1, <4>1
    <3>2. CASE i = 2
      <4>1. 8 * (i - 1) = 8
        BY <3>2
      <4> QED BY <1>4, <3>2, <4>1
    <3>3. CASE i = 3
      <4>1. 8 * (i - 1) = 16
        BY <3>3
      <4> QED BY <1>4, <3>3, <4>1
    <3> QED BY <3>1, <3>2, <3>3
  <2>2. FieldsAre(a, b, 8, 3)
    BY <2>4 DEF FieldsAre
  <2> QED BY <1>1, <2>1, <2>2, BytesSame12
<1>6. /\ u[1] = (a[1] + a[2] * 256) % 4096
      /\ u[2] = (a[2] \div 16 + a[3] * 16) % 4096
  BY DEF Unpack12
<1>7. u = [i \in 1..2 |-> u[i]]
  BY DEF Unpack12
<1> HIDE DEF u
<1>8. /\ u[1] = Field(b, 0, 12)
      /\ u[2] = Field(b, 12, 12)
  BY <1>4, <1>6, UnpackCuts12
<1>9. /\ u[1] = t[1]
      /\ u[2] = t[2]
  BY <1>2, <1>8
<1>10. ASSUME NEW i \in 1..2
      PROVE  u[i] = t[i]
  BY <1>9
<1>11. u = t
  BY <1>7, <1>10
<1> QED BY <1>5, <1>11 DEF a, u

\* The samples are numbers of the bits they are packed into.
LEMMA Numbers5 ==
    ASSUME sample \in Int
    PROVE  /\ Numbers(8, 5) = [i \in 1..8 |-> Numbers(8, 5)[i]]
           /\ \A i \in 1..8 : Numbers(8, 5)[i] \in Nat /\ Numbers(8, 5)[i] < 32
<1>1. Numbers(8, 5) = [i \in 1..8 |-> Numbers(8, 5)[i]]
  BY SMT DEF Numbers
<1>2. ASSUME NEW i \in 1..8
      PROVE  Numbers(8, 5)[i] \in Nat /\ Numbers(8, 5)[i] < 32
  <2> DEFINE x == sample * (2 * i - 1) + 77 * i
  <2>1. x \in Int
    <3> DEFINE o == 2 * i - 1
    <3>1. o \in Int /\ 77 * i \in Int
      BY SMT
    <3> HIDE DEF o
    <3>2. sample * o \in Int
      BY <3>1
    <3> QED BY <3>1, <3>2, SMT DEF o
  <2>2. Numbers(8, 5)[i] = x % 32
    BY SMT DEF Numbers
  <2> HIDE DEF x
  <2>3. x % 32 \in Nat /\ x % 32 < 32
    BY <2>1, SMT
  <2> QED BY <2>2, <2>3
<1> QED BY <1>1, <1>2

LEMMA Numbers11 ==
    ASSUME sample \in Int
    PROVE  /\ Numbers(8, 11) = [i \in 1..8 |-> Numbers(8, 11)[i]]
           /\ \A i \in 1..8 : Numbers(8, 11)[i] \in Nat /\ Numbers(8, 11)[i] < 2048
<1>1. Numbers(8, 11) = [i \in 1..8 |-> Numbers(8, 11)[i]]
  BY SMT DEF Numbers
<1>2. ASSUME NEW i \in 1..8
      PROVE  Numbers(8, 11)[i] \in Nat /\ Numbers(8, 11)[i] < 2048
  <2> DEFINE x == sample * (2 * i - 1) + 77 * i
  <2>1. x \in Int
    <3> DEFINE o == 2 * i - 1
    <3>1. o \in Int /\ 77 * i \in Int
      BY SMT
    <3> HIDE DEF o
    <3>2. sample * o \in Int
      BY <3>1
    <3> QED BY <3>1, <3>2, SMT DEF o
  <2>2. Numbers(8, 11)[i] = x % 2048
    BY SMT DEF Numbers
  <2> HIDE DEF x
  <2>3. x % 2048 \in Nat /\ x % 2048 < 2048
    BY <2>1, SMT
  <2> QED BY <2>2, <2>3
<1> QED BY <1>1, <1>2

LEMMA Numbers12 ==
    ASSUME sample \in Int
    PROVE  /\ Numbers(2, 12) = [i \in 1..2 |-> Numbers(2, 12)[i]]
           /\ \A i \in 1..2 : Numbers(2, 12)[i] \in Nat /\ Numbers(2, 12)[i] < 4096
<1>1. Numbers(2, 12) = [i \in 1..2 |-> Numbers(2, 12)[i]]
  BY SMT DEF Numbers
<1>2. ASSUME NEW i \in 1..2
      PROVE  Numbers(2, 12)[i] \in Nat /\ Numbers(2, 12)[i] < 4096
  <2> DEFINE x == sample * (2 * i - 1) + 77 * i
  <2>1. x \in Int
    <3> DEFINE o == 2 * i - 1
    <3>1. o \in Int /\ 77 * i \in Int
      BY SMT
    <3> HIDE DEF o
    <3>2. sample * o \in Int
      BY <3>1
    <3> QED BY <3>1, <3>2, SMT DEF o
  <2>2. Numbers(2, 12)[i] = x % 4096
    BY SMT DEF Numbers
  <2> HIDE DEF x
  <2>3. x % 4096 \in Nat /\ x % 4096 < 4096
    BY <2>1, SMT
  <2> QED BY <2>2, <2>3
<1> QED BY <1>1, <1>2

\* poly.c, polyvec.c: of every sample the numbers are packed into their bits.
THEOREM SamplePacks ==
    ASSUME sample \in Int
    PROVE  PackingInverts
<1>1. /\ SameBits(Numbers(8, 5), 5, Pack5(Numbers(8, 5)))
      /\ Unpack5(Pack5(Numbers(8, 5))) = Numbers(8, 5)
  <2> DEFINE t == Numbers(8, 5)
  <2>2. t = [i \in 1..8 |-> t[i]] /\ \A i \in 1..8 : t[i] \in Nat /\ t[i] < 32
    BY Numbers5
  <2> HIDE DEF t
  <2>3. SameBits(t, 5, Pack5(t)) /\ Unpack5(Pack5(t)) = t
    BY <2>2, Packing5
  <2> QED BY <2>3 DEF t
<1>2. /\ SameBits(Numbers(8, 11), 11, Pack11(Numbers(8, 11)))
      /\ Unpack11(Pack11(Numbers(8, 11))) = Numbers(8, 11)
  <2> DEFINE t == Numbers(8, 11)
  <2>2. t = [i \in 1..8 |-> t[i]] /\ \A i \in 1..8 : t[i] \in Nat /\ t[i] < 2048
    BY Numbers11
  <2> HIDE DEF t
  <2>3. SameBits(t, 11, Pack11(t)) /\ Unpack11(Pack11(t)) = t
    BY <2>2, Packing11
  <2> QED BY <2>3 DEF t
<1>3. /\ SameBits(Numbers(2, 12), 12, Pack12(Numbers(2, 12)))
      /\ Unpack12(Pack12(Numbers(2, 12))) = Numbers(2, 12)
  <2> DEFINE t == Numbers(2, 12)
  <2>2. t = [i \in 1..2 |-> t[i]] /\ \A i \in 1..2 : t[i] \in Nat /\ t[i] < 4096
    BY Numbers12
  <2> HIDE DEF t
  <2>3. SameBits(t, 12, Pack12(t)) /\ Unpack12(Pack12(t)) = t
    BY <2>2, Packing12
  <2> QED BY <2>3 DEF t
<1> QED BY <1>1, <1>2, <1>3 DEF PackingInverts

\* poly.c, polyvec.c: in every step the packed numbers of a sample are their bits in
\* order, none lost or doubled where a number crosses a byte, and unpacking gives
\* them back.
THEOREM PackingAlwaysInverts == Samples => []PackingInverts
<1>1. sample \in Int => PackingInverts
  BY SamplePacks
<1> QED BY <1>1, SampleIsInt, PTL

------------------------------------------------------------------------------
(* Arrays and loops *)

\* An array is a function of its indices from 1 on.
LEMMA ArrayOf ==
    ASSUME NEW n \in Nat, NEW g, g = [i \in 1..n |-> g[i]]
    PROVE  SubSeq(g, 1, n) = g
<1>1. SubSeq(g, 1, n) = [i \in 1..(1 + n - 1) |-> g[i + 1 - 1]]
  OBVIOUS
<1>2. 1 + n - 1 = n /\ \A i \in 1..n : i + 1 - 1 = i
  OBVIOUS
<1> QED BY <1>1, <1>2

\* A round of one of the loops.
Turn(kind, x, r) == IF kind = "absorb" THEN AbsorbBlock(x, r)
                    ELSE IF kind = "squeeze" THEN SqueezeBlock(x, r)
                    ELSE WholeBlock(x, r)

\* The states of the loop up to round n.
Run(f, kind, x, r, n) ==
    f = [i \in 0..n |-> IF i = 0 THEN x ELSE Turn(kind, f[i - 1], r)]

\* There are such states.
LEMMA Runs ==
    ASSUME NEW kind, NEW x, NEW r
    PROVE  \A n \in Nat : \E f : Run(f, kind, x, r, n)
<1> DEFINE T == {n \in Nat : \E f : Run(f, kind, x, r, n)}
<1>1. 0 \in T
  <2> DEFINE f == [i \in 0..0 |-> x]
  <2>1. Run(f, kind, x, r, 0)
    BY DEF Run
  <2> QED BY <2>1
<1>2. ASSUME NEW n \in Nat, n \in T
      PROVE  n + 1 \in T
  <2>1. PICK f : Run(f, kind, x, r, n)
    BY <1>2
  <2>2. /\ \A i \in 0..n : i = 0 => f[i] = x
        /\ \A i \in 0..n : i # 0 => f[i] = Turn(kind, f[i - 1], r)
    BY <2>1 DEF Run
  <2> DEFINE g == [i \in 0..(n + 1) |-> IF i = n + 1 THEN Turn(kind, f[n], r) ELSE f[i]]
             h == [i \in 0..(n + 1) |-> IF i = 0 THEN x ELSE Turn(kind, g[i - 1], r)]
  <2>3. ASSUME NEW i \in 0..(n + 1)
        PROVE  g[i] = h[i]
    <3>1. CASE i = 0
      BY <2>2, <3>1
    <3>2. CASE i = n + 1
      <4>1. g[i] = Turn(kind, f[n], r) /\ i - 1 = n /\ i - 1 \in 0..(n + 1) /\ i # 0 /\ n # n + 1
        BY <3>2
      <4>2. g[i - 1] = f[n]
        BY <4>1
      <4>3. h[i] = Turn(kind, g[i - 1], r)
        BY <4>1
      <4> HIDE DEF g, h
      <4> QED BY <4>1, <4>2, <4>3
    <3>3. CASE i # 0 /\ i # n + 1
      <4>1. i \in 0..n /\ i - 1 \in 0..(n + 1) /\ i - 1 # n + 1
        BY <3>3
      <4>2. g[i] = f[i] /\ g[i - 1] = f[i - 1] /\ h[i] = Turn(kind, g[i - 1], r)
        BY <3>3, <4>1
      <4>3. f[i] = Turn(kind, f[i - 1], r)
        BY <2>2, <3>3, <4>1
      <4> HIDE DEF g, h
      <4> QED BY <4>2, <4>3
    <3> QED BY <3>1, <3>2, <3>3
  <2>4. g = h
    <3>1. g = [i \in 0..(n + 1) |-> g[i]] /\ h = [i \in 0..(n + 1) |-> h[i]]
      OBVIOUS
    <3> HIDE DEF g, h
    <3> QED BY <2>3, <3>1
  <2>5. Run(g, kind, x, r, n + 1)
    <3> HIDE DEF g
    <3> QED BY <2>4 DEF Run
  <2> QED BY <2>5
<1> HIDE DEF T
<1>3. \A n \in Nat : n \in T
  BY <1>1, <1>2, SetInduction
<1> QED BY <1>3 DEF T

\* What a loop does in a round does not depend on how many there will be.
LEMMA RunsAgree ==
    ASSUME NEW kind, NEW x, NEW r, NEW n \in Nat, NEW m \in Nat, NEW f, NEW g,
           Run(f, kind, x, r, n), Run(g, kind, x, r, m)
    PROVE  \A i \in Nat : i <= n /\ i <= m => f[i] = g[i]
<1> DEFINE T == {i \in Nat : i <= n /\ i <= m => f[i] = g[i]}
<1>1. /\ \A i \in 0..n : f[i] = IF i = 0 THEN x ELSE Turn(kind, f[i - 1], r)
      /\ \A i \in 0..m : g[i] = IF i = 0 THEN x ELSE Turn(kind, g[i - 1], r)
  <2>1. \A i \in 0..n : f[i] = IF i = 0 THEN x ELSE Turn(kind, f[i - 1], r)
    BY DEF Run
  <2>2. \A i \in 0..m : g[i] = IF i = 0 THEN x ELSE Turn(kind, g[i - 1], r)
    BY DEF Run
  <2> QED BY <2>1, <2>2
<1>2. 0 \in T
  BY <1>1
<1>3. ASSUME NEW i \in Nat, i \in T
      PROVE  i + 1 \in T
  <2> SUFFICES ASSUME i + 1 <= n, i + 1 <= m
               PROVE  f[i + 1] = g[i + 1]
    OBVIOUS
  <2> DEFINE j == i + 1
  <2>1. j \in 0..n /\ j \in 0..m /\ j # 0 /\ j - 1 = i
    OBVIOUS
  <2>2. f[i] = g[i]
    BY <1>3
  <2> HIDE DEF j
  <2>3. f[j] = Turn(kind, f[i], r) /\ g[j] = Turn(kind, g[i], r)
    BY <1>1, <2>1
  <2> QED BY <2>2, <2>3 DEF j
<1> HIDE DEF T
<1>4. \A i \in Nat : i \in T
  BY <1>2, <1>3, SetInduction
<1> QED BY <1>4 DEF T

\* The state after n rounds.
After(kind, x, r, n) == LET f == CHOOSE f : Run(f, kind, x, r, n) IN f[n]

LEMMA AfterRuns ==
    ASSUME NEW kind, NEW x, NEW r, NEW n \in Nat, NEW f, Run(f, kind, x, r, n)
    PROVE  \A i \in 0..n : f[i] = After(kind, x, r, i)
<1> TAKE i \in 0..n
<1> DEFINE g == CHOOSE g : Run(g, kind, x, r, i)
<1>1. Run(g, kind, x, r, i)
  BY Runs
<1>2. After(kind, x, r, i) = g[i]
  BY DEF After
<1> HIDE DEF g
<1> QED BY <1>1, <1>2, RunsAgree

LEMMA AfterNone ==
    ASSUME NEW kind, NEW x, NEW r
    PROVE  After(kind, x, r, 0) = x
<1>1. PICK f : Run(f, kind, x, r, 0)
  BY Runs
<1>2. f[0] = x
  BY <1>1 DEF Run
<1> QED BY <1>1, <1>2, AfterRuns

\* A round more is a round at the end, or one at the beginning.
LEMMA AfterNext ==
    ASSUME NEW kind, NEW x, NEW r, NEW n \in Nat, NEW m, m = n + 1
    PROVE  After(kind, x, r, m) = Turn(kind, After(kind, x, r, n), r)
<1>1. m \in Nat /\ m \in 0..m /\ n \in 0..m /\ m # 0 /\ m - 1 = n
  OBVIOUS
<1>2. PICK f : Run(f, kind, x, r, m)
  BY <1>1, Runs
<1>3. f[m] = Turn(kind, f[m - 1], r)
  BY <1>1, <1>2 DEF Run
<1>4. f[m] = After(kind, x, r, m) /\ f[n] = After(kind, x, r, n)
  BY <1>1, <1>2, AfterRuns
<1> QED BY <1>1, <1>3, <1>4

LEMMA AfterFirst ==
    ASSUME NEW kind, NEW x, NEW r
    PROVE  \A n \in Nat : After(kind, x, r, n + 1) = After(kind, Turn(kind, x, r), r, n)
<1> DEFINE y == Turn(kind, x, r)
           T == {n \in Nat : After(kind, x, r, n + 1) = After(kind, y, r, n)}
<1> HIDE DEF y
<1>1. 0 \in T
  <2> DEFINE one == 0 + 1
  <2>1. one = 0 + 1 /\ 0 \in Nat
    OBVIOUS
  <2> HIDE DEF one
  <2>2. After(kind, x, r, 0) = x /\ After(kind, y, r, 0) = y
    BY AfterNone
  <2>3. After(kind, x, r, one) = Turn(kind, After(kind, x, r, 0), r)
    BY <2>1, AfterNext
  <2>4. After(kind, x, r, one) = After(kind, y, r, 0)
    BY <2>2, <2>3 DEF y
  <2> QED BY <2>4 DEF one
<1>2. ASSUME NEW n \in Nat, n \in T
      PROVE  n + 1 \in T
  <2> DEFINE m == n + 1
             k == m + 1
  <2>1. m \in Nat /\ m = n + 1 /\ k = m + 1
    OBVIOUS
  <2>2. After(kind, x, r, m) = After(kind, y, r, n)
    BY <1>2
  <2> HIDE DEF m, k
  <2>3. After(kind, y, r, m) = Turn(kind, After(kind, y, r, n), r)
    BY <2>1, AfterNext
  <2>4. After(kind, x, r, k) = Turn(kind, After(kind, x, r, m), r)
    BY <2>1, AfterNext
  <2>5. After(kind, x, r, k) = After(kind, y, r, m)
    BY <2>2, <2>3, <2>4
  <2> QED BY <2>1, <2>5 DEF m, k
<1> HIDE DEF T
<1>3. \A n \in Nat : n \in T
  BY <1>1, <1>2, SetInduction
<1> QED BY <1>3 DEF T, y

\* The loops of keccak_absorb, keccak_squeeze and keccak_squeezeblocks.
LEMMA AbsorbLoop ==
    ASSUME NEW x, NEW r, NEW n \in Nat
    PROVE  Loop(n, x, LAMBDA y, i : AbsorbBlock(y, r)) = After("absorb", x, r, n)
<1> DEFINE once(q) == CHOOSE y \in {AbsorbBlock(z, r) : z \in {q}} : TRUE
           P(a) == a = [i \in 0..n |-> IF i = 0 THEN x ELSE once(a[i - 1])]
           c == CHOOSE a : P(a)
<1>1. ASSUME NEW q
      PROVE  once(q) = Turn("absorb", q, r)
  <2>1. {AbsorbBlock(z, r) : z \in {q}} = {AbsorbBlock(q, r)}
    OBVIOUS
  <2>2. Turn("absorb", q, r) = AbsorbBlock(q, r)
    BY DEF Turn
  <2> QED BY <2>1, <2>2
<1>2. Loop(n, x, LAMBDA y, i : AbsorbBlock(y, r)) = c[n]
  BY DEF Loop, With
<1> HIDE DEF once
<1>3. \A a : P(a) <=> Run(a, "absorb", x, r, n)
  BY <1>1 DEF Run
<1>4. \E a : P(a)
  BY <1>3, Runs
<1> HIDE DEF P
<1>5. P(c)
  BY <1>4
<1> HIDE DEF c
<1>6. n \in 0..n
  OBVIOUS
<1>7. c[n] = After("absorb", x, r, n)
  BY <1>3, <1>5, <1>6, AfterRuns
<1> QED BY <1>2, <1>7

LEMMA SqueezeLoop ==
    ASSUME NEW x, NEW r, NEW n \in Nat
    PROVE  Loop(n, x, LAMBDA y, i : SqueezeBlock(y, r)) = After("squeeze", x, r, n)
<1> DEFINE once(q) == CHOOSE y \in {SqueezeBlock(z, r) : z \in {q}} : TRUE
           P(a) == a = [i \in 0..n |-> IF i = 0 THEN x ELSE once(a[i - 1])]
           c == CHOOSE a : P(a)
<1>1. ASSUME NEW q
      PROVE  once(q) = Turn("squeeze", q, r)
  <2>1. {SqueezeBlock(z, r) : z \in {q}} = {SqueezeBlock(q, r)}
    OBVIOUS
  <2>2. Turn("squeeze", q, r) = SqueezeBlock(q, r)
    BY DEF Turn
  <2> QED BY <2>1, <2>2
<1>2. Loop(n, x, LAMBDA y, i : SqueezeBlock(y, r)) = c[n]
  BY DEF Loop, With
<1> HIDE DEF once
<1>3. \A a : P(a) <=> Run(a, "squeeze", x, r, n)
  BY <1>1 DEF Run
<1>4. \E a : P(a)
  BY <1>3, Runs
<1> HIDE DEF P
<1>5. P(c)
  BY <1>4
<1> HIDE DEF c
<1>6. n \in 0..n
  OBVIOUS
<1>7. c[n] = After("squeeze", x, r, n)
  BY <1>3, <1>5, <1>6, AfterRuns
<1> QED BY <1>2, <1>7

LEMMA WholeLoop ==
    ASSUME NEW x, NEW r, NEW n \in Nat
    PROVE  Loop(n, x, LAMBDA y, i : WholeBlock(y, r)) = After("whole", x, r, n)
<1> DEFINE once(q) == CHOOSE y \in {WholeBlock(z, r) : z \in {q}} : TRUE
           P(a) == a = [i \in 0..n |-> IF i = 0 THEN x ELSE once(a[i - 1])]
           c == CHOOSE a : P(a)
<1>1. ASSUME NEW q
      PROVE  once(q) = Turn("whole", q, r)
  <2>1. {WholeBlock(z, r) : z \in {q}} = {WholeBlock(q, r)}
    OBVIOUS
  <2>2. Turn("whole", q, r) = WholeBlock(q, r)
    BY DEF Turn
  <2> QED BY <2>1, <2>2
<1>2. Loop(n, x, LAMBDA y, i : WholeBlock(y, r)) = c[n]
  BY DEF Loop, With
<1> HIDE DEF once
<1>3. \A a : P(a) <=> Run(a, "whole", x, r, n)
  BY <1>1 DEF Run
<1>4. \E a : P(a)
  BY <1>3, Runs
<1> HIDE DEF P
<1>5. P(c)
  BY <1>4
<1> HIDE DEF c
<1>6. n \in 0..n
  OBVIOUS
<1>7. c[n] = After("whole", x, r, n)
  BY <1>3, <1>5, <1>6, AfterRuns
<1> QED BY <1>2, <1>7

------------------------------------------------------------------------------
(* Absorbing *)

\* The loop of keccak_absorb, by its rounds.
LEMMA AbsorbedIs ==
    ASSUME NEW st, NEW r, NEW in, NEW n \in Nat
    PROVE  Absorbed(st, r, in, n) = After("absorb", [st |-> st, in |-> in], r, n)
BY AbsorbLoop, Zenon DEF Absorbed

\* No round leaves the input.
LEMMA AbsorbNone ==
    ASSUME NEW st, NEW r, NEW in
    PROVE  Absorbed(st, r, in, 0) = [st |-> st, in |-> in]
<1> DEFINE w == [st |-> st, in |-> in]
<1>1. Absorbed(st, r, in, 0) = After("absorb", w, r, 0)
  BY AbsorbedIs
<1> HIDE DEF w
<1>2. Absorbed(st, r, in, 0) = w
  BY <1>1, AfterNone
<1> QED BY <1>2 DEF w

\* The rounds of keccak_absorb after the first.
LEMMA AbsorbRounds ==
    ASSUME NEW st, NEW r, NEW in
    PROVE  \A n \in Nat :
              LET x == AbsorbBlock([st |-> st, in |-> in], r)
              IN  Absorbed(st, r, in, n + 1) = Absorbed(x.st, r, x.in, n)
<1> DEFINE w == [st |-> st, in |-> in]
           x == AbsorbBlock(w, r)
<1>1. ASSUME NEW n \in Nat
      PROVE  Absorbed(st, r, in, n + 1) = Absorbed(x.st, r, x.in, n)
  <2>1. x = [st |-> x.st, in |-> x.in]
    BY DEF AbsorbBlock
  <2>2. Turn("absorb", w, r) = x
    BY DEF Turn
  <2> DEFINE m == n + 1
  <2>3. m \in Nat
    OBVIOUS
  <2> HIDE DEF x, w
  <2>4. After("absorb", w, r, m) = After("absorb", x, r, n)
    BY <2>2, AfterFirst
  <2>5. Absorbed(x.st, r, x.in, n) = After("absorb", x, r, n)
    BY <2>1, AbsorbedIs
  <2> HIDE DEF m
  <2>6. Absorbed(st, r, in, m) = After("absorb", w, r, m)
    BY <2>3, AbsorbedIs DEF w
  <2> QED BY <2>4, <2>5, <2>6 DEF m
<1> QED BY <1>1

\* keccak_absorb stays in the block, or fills it and goes on.
LEMMA AbsorbWithin ==
    ASSUME NEW S, NEW in \in Seq(S), NEW r \in Nat \ {0}, NEW s, NEW pos \in Nat,
           pos + Len(in) < r
    PROVE  keccak_absorb(Sponge(s, pos), r, in) = Sponge(Added(s, pos, in), pos + Len(in))
<1> DEFINE st == Sponge(s, pos)
<1>1. st.s = s /\ st.pos = pos
  BY DEF Sponge
<1>2. (st.pos + Len(in)) \div r = 0
  <2> DEFINE len == pos + Len(in)
  <2>1. len \in Nat /\ len < r
    OBVIOUS
  <2> HIDE DEF len
  <2>2. len \div r = 0
    <3>1. (len + r * 0) \div r = 0
      BY <2>1, Divided
    <3> QED BY <2>1, <3>1
  <2> QED BY <1>1, <2>2 DEF len
<1> HIDE DEF st
<1>3. Absorbed(st, r, in, 0) = [st |-> st, in |-> in]
  BY AbsorbNone
<1>4. Absorbed(st, r, in, (st.pos + Len(in)) \div r) = [st |-> st, in |-> in]
  BY <1>2, <1>3
<1>5. keccak_absorb(st, r, in) = Sponge(Added(st.s, st.pos, in), st.pos + Len(in))
  BY <1>4 DEF keccak_absorb
<1> QED BY <1>1, <1>5 DEF st

LEMMA AbsorbAcross ==
    ASSUME NEW S, NEW in \in Seq(S), NEW r \in Nat \ {0}, NEW s, NEW pos \in Nat,
           pos < r, pos + Len(in) >= r
    PROVE  keccak_absorb(Sponge(s, pos), r, in)
              = keccak_absorb(Sponge(KeccakF1600_StatePermute(Added(s, pos, SubSeq(in, 1, r - pos))), 0), r,
                              SubSeq(in, r - pos + 1, Len(in)))
<1> DEFINE st == Sponge(s, pos)
           w == [st |-> st, in |-> in]
           x == AbsorbBlock(w, r)
           n == r - pos
           total == pos + Len(in)
           k == (total - r) \div r
           len == Len(x.in)
<1>1. st.s = s /\ st.pos = pos
  BY DEF Sponge
<1>2. /\ x.st = Sponge(KeccakF1600_StatePermute(Added(s, pos, SubSeq(in, 1, n))), 0)
      /\ x.in = SubSeq(in, n + 1, Len(in))
  BY <1>1 DEF AbsorbBlock
<1>3. x.st.pos = 0
  BY <1>2 DEF Sponge
<1>4. len = total - r /\ len \in Nat
  <2>1. n \in Nat /\ n >= 1 /\ n <= Len(in) /\ Len(in) \in Nat
    OBVIOUS
  <2>2. Len(SubSeq(in, n + 1, Len(in))) = Len(in) - n
    <3> HIDE DEF n
    <3> QED BY <2>1
  <2> HIDE DEF x
  <2> QED BY <1>2, <2>1, <2>2
<1> HIDE DEF x, w, len
<1>5. total \div r = k + 1 /\ k \in Nat
  <2> DEFINE d == total - r
             rest == d % r
  <2>1. d \in Nat /\ total = d + r
    OBVIOUS
  <2> HIDE DEF d, total
  <2>2. k \in Nat /\ rest \in Nat /\ rest < r /\ d = rest + r * k
    <3> DEFINE q == d \div r
    <3>1. q \in Nat /\ d = r * q + rest /\ rest \in 0..(r - 1)
      BY <2>1
    <3>2. k = q
      BY DEF d
    <3> HIDE DEF q, k, rest
    <3> QED BY <3>1, <3>2
  <2> HIDE DEF k, rest
  <2>3. total = rest + r * (k + 1)
    BY <2>1, <2>2
  <2>4. k + 1 \in Nat
    BY <2>2
  <2> DEFINE k1 == k + 1
  <2>5. (rest + r * k1) \div r = k1
    <3> HIDE DEF k1
    <3> QED BY <2>2, <2>4, Divided DEF k1
  <2> QED BY <2>2, <2>3, <2>5
<1>6. Absorbed(st, r, in, k + 1) = Absorbed(x.st, r, x.in, k)
  <2> HIDE DEF k, st
  <2> QED BY <1>5, AbsorbRounds DEF x, w
<1> DEFINE a == Absorbed(st, r, in, total \div r)
           b == Absorbed(x.st, r, x.in, (x.st.pos + Len(x.in)) \div r)
<1>7. a = b
  <2>1. x.st.pos + Len(x.in) = total - r
    <3> HIDE DEF total
    <3> QED BY <1>3, <1>4 DEF len
  <2>2. (x.st.pos + Len(x.in)) \div r = k
    BY <2>1
  <2> HIDE DEF k, total, st
  <2> QED BY <1>5, <1>6, <2>2
<1>8. keccak_absorb(st, r, in) = Sponge(Added(a.st.s, a.st.pos, a.in), a.st.pos + Len(a.in))
  <2> HIDE DEF st
  <2> QED BY <1>1 DEF keccak_absorb
<1>9. keccak_absorb(x.st, r, x.in) = Sponge(Added(b.st.s, b.st.pos, b.in), b.st.pos + Len(b.in))
  BY DEF keccak_absorb
<1> HIDE DEF a, b, n
<1>10. keccak_absorb(st, r, in) = keccak_absorb(x.st, r, x.in)
  BY <1>7, <1>8, <1>9
<1> QED BY <1>2, <1>10 DEF n

\* The bits of lane l that bytes in, from pos on, fill.
BitsAt(pos, in, l) ==
    LET first == l * LaneBytes
        bytes == {i \in first..(first + LaneBytes - 1) : i >= pos /\ i < pos + Len(in)}
    IN  UNION {{8 * (i - first) + b : b \in Bits(in[i - pos + 1])} : i \in bytes}

LEMMA AddedIs ==
    ASSUME NEW s, NEW pos, NEW in
    PROVE  Added(s, pos, in) = [i \in 1..25 |-> Xor(s[i], BitsAt(pos, in, i - 1))]
<1> DEFINE g == [i \in 1..25 |-> Xor(s[(i - 1) + 1], BitsAt(pos, in, i - 1))]
<1>1. Added(s, pos, in) = SubSeq(g, 1, 25)
  BY DEF Added, Array, BitsAt
<1>2. SubSeq(g, 1, 25) = g
  <2>1. g = [i \in 1..25 |-> g[i]] /\ 25 \in Nat
    OBVIOUS
  <2> HIDE DEF g
  <2> QED BY <2>1, ArrayOf
<1>3. g = [i \in 1..25 |-> Xor(s[i], BitsAt(pos, in, i - 1))]
  <2>1. \A i \in 1..25 : (i - 1) + 1 = i
    OBVIOUS
  <2> QED BY <2>1
<1> QED BY <1>1, <1>2, <1>3

\* The bytes of lane l, and the bits of byte i of the state.
Lane(l) == (l * LaneBytes)..(l * LaneBytes + LaneBytes - 1)

Fills(i, e, pos, in, l) ==
    /\ i >= pos /\ i < pos + Len(in)
    /\ \E x \in Bits(in[i - pos + 1]) : e = 8 * (i - l * LaneBytes) + x

\* A bit is of one of the bytes.
LEMMA BitOfByte ==
    ASSUME NEW pos, NEW in, NEW l, NEW e
    PROVE  e \in BitsAt(pos, in, l) <=> \E i \in Lane(l) : Fills(i, e, pos, in, l)
BY DEF BitsAt, Lane, Fills

LEMMA LaneBytesIs == LaneBytes \in Nat
BY LaneAssumption DEF LaneBytes

\* What two inputs fill one after the other they fill together, and neither fills what
\* the other does.
LEMMA BitsJoin ==
    ASSUME NEW S, NEW a \in Seq(S), NEW b \in Seq(S), NEW pos \in Nat, NEW l \in Nat
    PROVE  /\ BitsAt(pos, a \o b, l) = BitsAt(pos, a, l) \cup BitsAt(pos + Len(a), b, l)
           /\ BitsAt(pos, a, l) \cap BitsAt(pos + Len(a), b, l) = {}
<1> DEFINE first == l * LaneBytes
           mid == pos + Len(a)
           c == a \o b
<1>1. first \in Nat
  BY LaneBytesIs
<1>2. /\ Len(a) \in Nat /\ Len(b) \in Nat /\ Len(c) = Len(a) + Len(b)
      /\ mid \in Nat /\ pos + Len(c) = mid + Len(b)
  <2>1. Len(a) \in Nat /\ Len(b) \in Nat
    OBVIOUS
  <2>2. Len(c) = Len(a) + Len(b)
    OBVIOUS
  <2> HIDE DEF c
  <2> QED BY <2>1, <2>2
<1>3. \A i \in Lane(l) : i \in Nat
  BY <1>1, LaneBytesIs DEF Lane
<1>4. ASSUME NEW i \in Lane(l), i >= pos, i < mid
      PROVE  c[i - pos + 1] = a[i - pos + 1]
  <2> DEFINE j == i - pos + 1
  <2>1. j \in 1..Len(a)
    BY <1>2, <1>3, <1>4
  <2> HIDE DEF j
  <2>2. c[j] = a[j]
    BY <2>1
  <2> QED BY <2>2 DEF j
<1>5. ASSUME NEW i \in Lane(l), i >= mid, i < mid + Len(b)
      PROVE  c[i - pos + 1] = b[i - mid + 1]
  <2> DEFINE j == i - pos + 1
             k == i - mid + 1
  <2>1. k \in 1..Len(b) /\ j = Len(a) + k
    BY <1>2, <1>3, <1>5
  <2> HIDE DEF j, k
  <2>2. c[Len(a) + k] = b[k]
    BY <2>1
  <2> QED BY <2>1, <2>2 DEF j, k
<1> HIDE DEF c
<1> HIDE DEF mid
<1>6. ASSUME NEW e
      PROVE  e \in BitsAt(pos, c, l) <=> e \in BitsAt(pos, a, l) \/ e \in BitsAt(mid, b, l)
  <2>1. ASSUME NEW i \in Lane(l), i < mid
        PROVE  Fills(i, e, pos, c, l) <=> Fills(i, e, pos, a, l)
    <3>1. i < pos + Len(c)
      BY <1>2, <1>3, <2>1
    <3>2. CASE i >= pos
      <4>1. c[i - pos + 1] = a[i - pos + 1]
        BY <1>4, <2>1, <3>2
      <4>2. i < pos + Len(a)
        BY <2>1 DEF mid
      <4> QED BY <3>1, <4>1, <4>2 DEF Fills
    <3>3. CASE ~(i >= pos)
      BY <3>3 DEF Fills
    <3> QED BY <3>2, <3>3
  <2>2. ASSUME NEW i \in Lane(l), i >= mid
        PROVE  Fills(i, e, pos, c, l) <=> Fills(i, e, mid, b, l)
    <3>1. i >= pos /\ (i < pos + Len(c) <=> i < mid + Len(b))
      BY <1>2, <1>3, <2>2 DEF mid
    <3>2. CASE i < mid + Len(b)
      <4>1. c[i - pos + 1] = b[i - mid + 1]
        BY <1>5, <2>2, <3>2
      <4> QED BY <2>2, <3>1, <4>1 DEF Fills
    <3>3. CASE ~(i < mid + Len(b))
      BY <3>1, <3>3 DEF Fills
    <3> QED BY <3>2, <3>3
  <2>3. ASSUME NEW i \in Lane(l), Fills(i, e, pos, a, l)
        PROVE  i < mid
    BY <2>3 DEF Fills, mid
  <2>4. ASSUME NEW i \in Lane(l), Fills(i, e, mid, b, l)
        PROVE  i >= mid
    BY <2>4 DEF Fills
  <2>5. ASSUME NEW i \in Lane(l)
        PROVE  i < mid \/ i >= mid
    BY <1>2, <1>3
  <2>6. /\ e \in BitsAt(pos, c, l) <=> \E i \in Lane(l) : Fills(i, e, pos, c, l)
        /\ e \in BitsAt(pos, a, l) <=> \E i \in Lane(l) : Fills(i, e, pos, a, l)
        /\ e \in BitsAt(mid, b, l) <=> \E i \in Lane(l) : Fills(i, e, mid, b, l)
    BY BitOfByte, Zenon
  <2> QED BY <2>1, <2>2, <2>3, <2>4, <2>5, <2>6, Zenon
<1>7. ASSUME NEW e, e \in BitsAt(pos, a, l), e \in BitsAt(mid, b, l)
      PROVE  FALSE
  <2>1. PICK i \in Lane(l) : Fills(i, e, pos, a, l)
    BY <1>7, BitOfByte, Zenon
  <2>2. PICK k \in Lane(l) : Fills(k, e, mid, b, l)
    BY <1>7, BitOfByte, Zenon
  <2>3. PICK x \in 0..7 : e = 8 * (i - first) + x
    BY <2>1 DEF Bits, Fills
  <2>4. PICK y \in 0..7 : e = 8 * (k - first) + y
    BY <2>2 DEF Bits, Fills
  <2>5. i < mid
    BY <2>1 DEF Fills, mid
  <2>6. k >= mid
    BY <2>2 DEF Fills
  <2> HIDE DEF first
  <2>7. i \in Nat /\ k \in Nat /\ mid \in Nat
    BY <1>2, <1>3
  <2>8. i < k
    BY <2>5, <2>6, <2>7
  <2> HIDE DEF mid
  <2>9. 8 * (i - first) + x < 8 * (k - first) + y
    BY <1>1, <2>7, <2>8
  <2>10. 8 * (i - first) + x \in Int
    BY <1>1, <2>7
  <2> QED BY <2>3, <2>4, <2>9, <2>10
<1> QED BY <1>6, <1>7 DEF c, mid

LEMMA XorTwice ==
    ASSUME NEW s, NEW a, NEW b, a \cap b = {}
    PROVE  Xor(Xor(s, a), b) = Xor(s, a \cup b)
BY DEF Xor

\* An input is added in one piece or in two.
LEMMA AddedTwice ==
    ASSUME NEW S, NEW a \in Seq(S), NEW b \in Seq(S), NEW pos \in Nat, NEW s
    PROVE  Added(Added(s, pos, a), pos + Len(a), b) = Added(s, pos, a \o b)
<1> DEFINE mid == pos + Len(a)
           t == Added(s, pos, a)
           u == Added(t, mid, b)
           v == Added(s, pos, a \o b)
<1>1. t = [i \in 1..25 |-> Xor(s[i], BitsAt(pos, a, i - 1))]
  BY AddedIs
<1>2. u = [i \in 1..25 |-> Xor(t[i], BitsAt(mid, b, i - 1))]
  BY AddedIs
<1>3. v = [i \in 1..25 |-> Xor(s[i], BitsAt(pos, a \o b, i - 1))]
  BY AddedIs
<1>4. ASSUME NEW i \in 1..25
      PROVE  u[i] = v[i]
  <2> DEFINE l == i - 1
  <2>1. l \in Nat
    OBVIOUS
  <2>2. t[i] = Xor(s[i], BitsAt(pos, a, l))
    <3> HIDE DEF t
    <3> QED BY <1>1
  <2>3. u[i] = Xor(t[i], BitsAt(mid, b, l))
    <3> HIDE DEF t, u, mid
    <3> QED BY <1>2
  <2>4. v[i] = Xor(s[i], BitsAt(pos, a \o b, l))
    <3> HIDE DEF v
    <3> QED BY <1>3
  <2>5. /\ BitsAt(pos, a \o b, l) = BitsAt(pos, a, l) \cup BitsAt(mid, b, l)
        /\ BitsAt(pos, a, l) \cap BitsAt(mid, b, l) = {}
    <3> HIDE DEF l
    <3> QED BY <2>1, BitsJoin
  <2> HIDE DEF t, u, v, l, mid
  <2> QED BY <2>2, <2>3, <2>4, <2>5, XorTwice
<1> HIDE DEF t, u, v, mid
<1>5. u = v
  BY <1>2, <1>3, <1>4
<1> QED BY <1>5 DEF u, v, t, mid

\* v is what is left of c after n elements.
IsRest(v, c, n, d, S) == /\ n \in Nat /\ d \in Nat /\ Len(c) = n + d
                         /\ c \in Seq(S) /\ v = SubSeq(c, n + 1, Len(c))

LEMMA RestIs ==
    ASSUME NEW S, NEW c, NEW n, NEW d, NEW v, IsRest(v, c, n, d, S)
    PROVE  v \in Seq(S) /\ Len(v) = d /\ \A i \in 1..d : v[i] = c[n + i]
BY DEF IsRest

\* A cut of two sequences that falls into the second.
LEMMA CutSecond ==
    ASSUME NEW S, NEW a \in Seq(S), NEW b \in Seq(S), NEW k \in 0..Len(b)
    PROVE  /\ SubSeq(a \o b, 1, Len(a) + k) = a \o SubSeq(b, 1, k)
           /\ SubSeq(a \o b, Len(a) + k + 1, Len(a \o b)) = SubSeq(b, k + 1, Len(b))
<1> DEFINE c == a \o b
           b1 == SubSeq(b, 1, k)
           b2 == SubSeq(b, k + 1, Len(b))
           n == Len(a) + k
           u == SubSeq(c, 1, n)
           v == SubSeq(c, n + 1, Len(c))
           w == a \o b1
<1>1. Len(a) \in Nat /\ Len(b) \in Nat /\ n \in Nat
  OBVIOUS
<1>2. /\ c \in Seq(S) /\ Len(c) = Len(a) + Len(b)
      /\ \A i \in 1..(Len(a) + Len(b)) : c[i] = IF i <= Len(a) THEN a[i] ELSE b[i - Len(a)]
  BY ConcatProperties
<1>3. b1 \in Seq(S) /\ Len(b1) = k /\ \A i \in 1..k : b1[i] = b[i]
  OBVIOUS
<1>4. b2 \in Seq(S) /\ Len(b2) = Len(b) - k /\ \A i \in 1..(Len(b) - k) : b2[i] = b[k + i]
  OBVIOUS
<1> HIDE DEF c, b1, b2
<1>5. u \in Seq(S) /\ Len(u) = n /\ \A i \in 1..n : u[i] = c[i]
  BY <1>1, <1>2
<1>6. v \in Seq(S) /\ Len(v) = Len(b) - k /\ \A i \in 1..(Len(b) - k) : v[i] = c[n + i]
  <2>1. Len(c) = n + (Len(b) - k) /\ Len(b) - k \in Nat
    BY <1>1, <1>2
  <2> DEFINE d == Len(b) - k
  <2> HIDE DEF n, d
  <2>2. d \in Nat /\ Len(c) = n + d
    BY <2>1 DEF d
  <2>3. v \in Seq(S) /\ Len(v) = d /\ \A i \in 1..d : v[i] = c[n + i]
    <3>1. c \in Seq(S) /\ n \in Nat
      BY <1>1, <1>2
    <3>2. v = SubSeq(c, n + 1, Len(c))
      OBVIOUS
    <3> HIDE DEF v
    <3>3. IsRest(v, c, n, d, S)
      BY <2>2, <3>1, <3>2 DEF IsRest
    <3> QED BY <3>3, RestIs
  <2> QED BY <2>3 DEF d
<1>7. /\ w \in Seq(S) /\ Len(w) = n
      /\ \A i \in 1..n : w[i] = IF i <= Len(a) THEN a[i] ELSE b1[i - Len(a)]
  BY <1>3, ConcatProperties
<1> HIDE DEF u, v, w, n
<1>8. ASSUME NEW i \in 1..n
      PROVE  u[i] = w[i]
  <2>1. i \in 1..(Len(a) + Len(b))
    BY <1>1 DEF n
  <2>2. CASE i <= Len(a)
    BY <1>2, <1>5, <1>7, <2>1, <2>2
  <2>3. CASE ~(i <= Len(a))
    <3>1. i - Len(a) \in 1..k
      BY <1>1, <2>3 DEF n
    <3>2. b1[i - Len(a)] = b[i - Len(a)]
      BY <1>3, <3>1
    <3> QED BY <1>2, <1>5, <1>7, <2>1, <2>3, <3>2
  <2> QED BY <2>2, <2>3
<1>9. u = w
  BY <1>5, <1>7, <1>8, SeqEqual
<1>10. ASSUME NEW i \in 1..(Len(b) - k)
       PROVE  v[i] = b2[i]
  <2>1. n + i \in 1..(Len(a) + Len(b)) /\ ~(n + i <= Len(a)) /\ (n + i) - Len(a) = k + i
    BY <1>1 DEF n
  <2>2. c[n + i] = b[k + i]
    BY <1>2, <2>1
  <2> QED BY <1>4, <1>6, <2>2
<1>11. v = b2
  BY <1>4, <1>6, <1>10, SeqEqual
<1> QED BY <1>9, <1>11 DEF u, v, w, n, c, b1, b2

\* And one that falls into the first.
LEMMA CutFirst ==
    ASSUME NEW S, NEW a \in Seq(S), NEW b \in Seq(S), NEW n \in 0..Len(a)
    PROVE  /\ SubSeq(a \o b, 1, n) = SubSeq(a, 1, n)
           /\ SubSeq(a \o b, n + 1, Len(a \o b)) = SubSeq(a, n + 1, Len(a)) \o b
<1> DEFINE c == a \o b
           a1 == SubSeq(a, 1, n)
           a2 == SubSeq(a, n + 1, Len(a))
           u == SubSeq(c, 1, n)
           v == SubSeq(c, n + 1, Len(c))
           w == a2 \o b
           len == Len(a) + Len(b)
           rest == Len(a) - n
<1>1. Len(a) \in Nat /\ Len(b) \in Nat /\ n \in Nat /\ rest \in Nat
  OBVIOUS
<1>2. /\ c \in Seq(S) /\ Len(c) = len
      /\ \A i \in 1..len : c[i] = IF i <= Len(a) THEN a[i] ELSE b[i - Len(a)]
  BY ConcatProperties
<1>3. a1 \in Seq(S) /\ Len(a1) = n /\ \A i \in 1..n : a1[i] = a[i]
  OBVIOUS
<1>4. a2 \in Seq(S) /\ Len(a2) = rest /\ \A i \in 1..rest : a2[i] = a[n + i]
  OBVIOUS
<1> HIDE DEF c, a1, a2
<1>5. u \in Seq(S) /\ Len(u) = n /\ \A i \in 1..n : u[i] = c[i]
  BY <1>1, <1>2
<1>6. v \in Seq(S) /\ Len(v) = len - n /\ \A i \in 1..(len - n) : v[i] = c[n + i]
  BY <1>1, <1>2
<1>7. /\ w \in Seq(S) /\ Len(w) = rest + Len(b)
      /\ \A i \in 1..(rest + Len(b)) : w[i] = IF i <= rest THEN a2[i] ELSE b[i - rest]
  <2> HIDE DEF rest
  <2>1. a2 \in Seq(S) /\ Len(a2) = rest
    BY <1>4
  <2> QED BY <2>1, ConcatProperties
<1> HIDE DEF u, v, w
<1>8. ASSUME NEW i \in 1..n
      PROVE  u[i] = a1[i]
  <2>1. i \in 1..len /\ i <= Len(a)
    BY <1>1
  <2> QED BY <1>2, <1>3, <1>5, <2>1
<1>9. u = a1
  BY <1>3, <1>5, <1>8, SeqEqual
<1>10. ASSUME NEW i \in 1..(len - n)
       PROVE  v[i] = w[i]
  <2>1. n + i \in 1..len /\ i \in 1..(rest + Len(b)) /\ (n + i <= Len(a) <=> i <= rest)
    BY <1>1
  <2>2. (n + i) - Len(a) = i - rest
    BY <1>1
  <2>3. v[i] = c[n + i]
    BY <1>6
  <2> HIDE DEF rest, len
  <2>4. CASE i <= rest
    <3>1. i \in 1..rest
      BY <2>1, <2>4
    <3>2. c[n + i] = a[n + i]
      BY <1>2, <2>1, <2>4
    <3> QED BY <1>4, <1>7, <2>1, <2>3, <2>4, <3>1, <3>2
  <2>5. CASE ~(i <= rest)
    <3>1. c[n + i] = b[i - rest]
      BY <1>2, <2>1, <2>2, <2>5
    <3> QED BY <1>7, <2>1, <2>3, <2>5, <3>1
  <2> QED BY <2>4, <2>5
<1>11. v = w
  <2>1. Len(w) = len - n
    BY <1>1, <1>7
  <2> QED BY <1>6, <1>7, <1>10, <2>1, SeqEqual
<1> QED BY <1>9, <1>11 DEF u, v, w, c, a1, a2

\* An input of bytes of any kind.
IsInput(in) == \E S : in \in Seq(S)

\* AbsorbAcross, of an input of any bytes.
LEMMA AbsorbFills ==
    ASSUME NEW in, IsInput(in), NEW r \in Nat \ {0}, NEW s, NEW pos \in Nat, NEW n,
           n = r - pos, pos < r, pos + Len(in) >= r
    PROVE  keccak_absorb(Sponge(s, pos), r, in)
              = keccak_absorb(Sponge(KeccakF1600_StatePermute(Added(s, pos, SubSeq(in, 1, n))), 0), r,
                              SubSeq(in, n + 1, Len(in)))
<1>1. PICK S : in \in Seq(S)
  BY DEF IsInput
<1> QED BY <1>1, AbsorbAcross

\* Where the first input ends in the block, the second goes on in it.
LEMMA AbsorbTwiceWithin ==
    ASSUME NEW S, NEW a \in Seq(S), NEW b \in Seq(S), NEW r \in Nat \ {0}, NEW s,
           NEW pos \in Nat, pos + Len(a) < r
    PROVE  keccak_absorb(keccak_absorb(Sponge(s, pos), r, a), r, b)
              = keccak_absorb(Sponge(s, pos), r, a \o b)
<1> DEFINE mid == pos + Len(a)
           t == Added(s, pos, a)
           c == a \o b
           k == r - mid
           n == r - pos
           b1 == SubSeq(b, 1, k)
           b2 == SubSeq(b, k + 1, Len(b))
<1>1. keccak_absorb(Sponge(s, pos), r, a) = Sponge(t, mid)
  BY AbsorbWithin
<1>2. c \in Seq(S) /\ Len(c) = Len(a) + Len(b) /\ Len(a) \in Nat /\ Len(b) \in Nat
  BY ConcatProperties
<1>3. mid \in Nat /\ mid < r /\ pos + Len(c) = mid + Len(b) /\ pos < r /\ n = Len(a) + k /\ k \in Nat
  <2> HIDE DEF c
  <2> QED BY <1>2
<1> HIDE DEF mid, t, c, k, n
<1>4. CASE mid + Len(b) < r
  <2>1. keccak_absorb(Sponge(t, mid), r, b) = Sponge(Added(t, mid, b), mid + Len(b))
    BY <1>3, <1>4, AbsorbWithin
  <2>2. keccak_absorb(Sponge(s, pos), r, c) = Sponge(Added(s, pos, c), pos + Len(c))
    BY <1>2, <1>3, <1>4, AbsorbWithin
  <2>3. Added(t, mid, b) = Added(s, pos, c)
    BY AddedTwice DEF t, mid, c
  <2>4. keccak_absorb(Sponge(t, mid), r, b) = keccak_absorb(Sponge(s, pos), r, c)
    BY <1>3, <2>1, <2>2, <2>3
  <2> QED BY <1>1, <2>4 DEF c
<1>5. CASE mid + Len(b) >= r
  <2>0. k \in 0..Len(b)
    BY <1>2, <1>3, <1>5 DEF k
  <2>1. keccak_absorb(Sponge(t, mid), r, b)
          = keccak_absorb(Sponge(KeccakF1600_StatePermute(Added(t, mid, b1)), 0), r, b2)
    BY <1>3, <1>5, AbsorbAcross DEF k
  <2>2. keccak_absorb(Sponge(s, pos), r, c)
          = keccak_absorb(Sponge(KeccakF1600_StatePermute(Added(s, pos, SubSeq(c, 1, n))), 0), r,
                          SubSeq(c, n + 1, Len(c)))
    <3>1. IsInput(c) /\ pos + Len(c) >= r
      BY <1>2, <1>3, <1>5 DEF IsInput
    <3>2. n = r - pos /\ pos < r
      BY <1>3 DEF n
    <3> QED BY <3>1, <3>2, AbsorbFills
  <2>3. SubSeq(c, 1, n) = a \o b1
    BY <1>3, <2>0, CutSecond DEF c
  <2>4. SubSeq(c, n + 1, Len(c)) = b2
    BY <1>3, <2>0, CutSecond DEF c
  <2>5. b1 \in Seq(S)
    BY <2>0
  <2> HIDE DEF b1, b2
  <2>6. Added(t, mid, b1) = Added(s, pos, a \o b1)
    BY <2>5, AddedTwice DEF t, mid
  <2>7. keccak_absorb(Sponge(t, mid), r, b) = keccak_absorb(Sponge(s, pos), r, c)
    BY <2>1, <2>2, <2>3, <2>4, <2>6
  <2> QED BY <1>1, <2>7 DEF c
<1> QED BY <1>2, <1>3, <1>4, <1>5

\* What one call absorbs, two do.
LEMMA AbsorbTwice ==
    ASSUME NEW S, NEW b \in Seq(S), NEW r \in Nat \ {0}
    PROVE  \A m \in Nat : \A a \in Seq(S) : \A pos \in Nat : \A s :
              pos < r /\ pos + Len(a) <= m =>
                 keccak_absorb(keccak_absorb(Sponge(s, pos), r, a), r, b)
                    = keccak_absorb(Sponge(s, pos), r, a \o b)
<1> DEFINE Same(s, pos, a) ==
              keccak_absorb(keccak_absorb(Sponge(s, pos), r, a), r, b)
                 = keccak_absorb(Sponge(s, pos), r, a \o b)
           T == {m \in Nat : \A a \in Seq(S) : \A pos \in Nat : \A s :
                                pos < r /\ pos + Len(a) <= m => Same(s, pos, a)}
<1>1. ASSUME NEW a \in Seq(S), NEW pos \in Nat, NEW s, pos + Len(a) < r
      PROVE  Same(s, pos, a)
  BY <1>1, AbsorbTwiceWithin
<1>2. 0 \in T
  <2>1. ASSUME NEW a \in Seq(S), NEW pos \in Nat, NEW s, pos < r, pos + Len(a) <= 0
        PROVE  Same(s, pos, a)
    <3>1. pos + Len(a) < r
      BY <2>1
    <3> HIDE DEF Same
    <3> QED BY <1>1, <3>1
  <2> HIDE DEF Same
  <2> QED BY <2>1
<1>3. ASSUME NEW m \in Nat, m \in T
      PROVE  m + 1 \in T
  <2>1. ASSUME NEW a \in Seq(S), NEW pos \in Nat, NEW s, pos < r, pos + Len(a) <= m + 1,
               pos + Len(a) >= r
        PROVE  Same(s, pos, a)
    <3> DEFINE n == r - pos
               c == a \o b
               a1 == SubSeq(a, 1, n)
               a2 == SubSeq(a, n + 1, Len(a))
               t == KeccakF1600_StatePermute(Added(s, pos, a1))
    <3>1. n \in 0..Len(a) /\ n >= 1 /\ Len(a) \in Nat /\ Len(b) \in Nat
      BY <2>1
    <3>2. keccak_absorb(Sponge(s, pos), r, a) = keccak_absorb(Sponge(t, 0), r, a2)
      BY <2>1, AbsorbAcross
    <3>3. c \in Seq(S) /\ Len(c) = Len(a) + Len(b)
      BY ConcatProperties
    <3>4. SubSeq(c, 1, n) = a1 /\ SubSeq(c, n + 1, Len(c)) = a2 \o b
      <4> HIDE DEF n
      <4> QED BY <3>1, CutFirst
    <3>5. keccak_absorb(Sponge(s, pos), r, c) = keccak_absorb(Sponge(t, 0), r, a2 \o b)
      <4>1. pos + Len(c) >= r
        <5> HIDE DEF c
        <5> QED BY <2>1, <3>1, <3>3
      <4>2. keccak_absorb(Sponge(s, pos), r, c)
              = keccak_absorb(Sponge(KeccakF1600_StatePermute(Added(s, pos, SubSeq(c, 1, n))), 0), r,
                              SubSeq(c, n + 1, Len(c)))
        <5>1. IsInput(c)
          BY <3>3 DEF IsInput
        <5>2. n = r - pos
          OBVIOUS
        <5> HIDE DEF c, n
        <5> QED BY <2>1, <4>1, <5>1, <5>2, AbsorbFills
      <4> HIDE DEF c, n
      <4> QED BY <3>4, <4>2 DEF t
    <3>6. a2 \in Seq(S) /\ 0 + Len(a2) <= m
      <4>1. a2 \in Seq(S) /\ Len(a2) = Len(a) - n
        <5> HIDE DEF n
        <5> QED BY <3>1
      <4> HIDE DEF a2
      <4> QED BY <2>1, <3>1, <4>1
    <3> HIDE DEF a2, t
    <3>7. Same(t, 0, a2)
      <4> HIDE DEF Same
      <4> QED BY <1>3, <3>6
    <3> QED BY <3>2, <3>5, <3>7
  <2> HIDE DEF Same
  <2>2. ASSUME NEW a \in Seq(S), NEW pos \in Nat, NEW s, pos < r, pos + Len(a) <= m + 1
        PROVE  Same(s, pos, a)
    <3>1. pos + Len(a) < r \/ pos + Len(a) >= r
      OBVIOUS
    <3> QED BY <1>1, <2>1, <2>2, <3>1
  <2> QED BY <2>2
<1> HIDE DEF T
<1>4. \A m \in Nat : m \in T
  BY <1>2, <1>3, SetInduction
<1> QED BY <1>4 DEF T

------------------------------------------------------------------------------
(* Squeezing *)

\* Byte i of the state.
ByteAt(s, i) ==
    LET low == 8 * (i % LaneBytes)
    IN  Byte({b - low : b \in {c \in s[(i \div LaneBytes) + 1] : c >= low /\ c < low + 8}})

\* Extracted, byte by byte.
LEMMA ExtractedIs ==
    ASSUME NEW s, NEW pos \in Nat, NEW n \in Nat
    PROVE  Extracted(s, pos, n) = [i \in 1..n |-> ByteAt(s, pos + (i - 1))]
<1> DEFINE g == [i \in 1..n |-> ByteAt(s, pos + (i - 1))]
<1>1. Extracted(s, pos, n) = SubSeq(g, 1, n)
  BY Zenon DEF Extracted, Array, ByteAt
<1>2. g = [i \in 1..n |-> g[i]]
  OBVIOUS
<1> HIDE DEF g
<1>3. SubSeq(g, 1, n) = g
  BY <1>2, ArrayOf
<1> QED BY <1>1, <1>3 DEF g

LEMMA ExtractedSeq ==
    ASSUME NEW s, NEW pos \in Nat, NEW n \in Nat, NEW S, \A i \in 1..n : ByteAt(s, pos + (i - 1)) \in S
    PROVE  /\ Extracted(s, pos, n) \in Seq(S) /\ Len(Extracted(s, pos, n)) = n
           /\ \A i \in 1..n : Extracted(s, pos, n)[i] = ByteAt(s, pos + (i - 1))
<1> DEFINE g == [i \in 1..n |-> ByteAt(s, pos + (i - 1))]
<1>1. g \in Seq(S) /\ Len(g) = n /\ \A i \in 1..n : g[i] = ByteAt(s, pos + (i - 1))
  OBVIOUS
<1> HIDE DEF g
<1>2. Extracted(s, pos, n) = g
  BY ExtractedIs DEF g
<1> QED BY <1>1, <1>2

\* m bytes from pos on, then n, are l bytes.
Parts(pos, m, n, mid, l) ==
    pos \in Nat /\ m \in Nat /\ n \in Nat /\ mid = pos + m /\ l = m + n

\* What is out, and n more bytes.
Joined(out, s, pos, n) == out \o Extracted(s, pos, n)

\* Bytes are extracted in one piece or in two, after any others.
LEMMA ExtractedTwice ==
    ASSUME NEW s, NEW pos, NEW m, NEW n, NEW mid, NEW l, Parts(pos, m, n, mid, l),
           NEW out, IsInput(out)
    PROVE  Joined(Joined(out, s, pos, m), s, mid, n) = Joined(out, s, pos, l)
<1>0. pos \in Nat /\ m \in Nat /\ n \in Nat /\ mid = pos + m /\ l = m + n
  BY DEF Parts
<1>1. PICK S : out \in Seq(S)
  BY DEF IsInput
<1> DEFINE U == S \cup {ByteAt(s, pos + (i - 1)) : i \in 1..l}
           a == Extracted(s, pos, m)
           b == Extracted(s, mid, n)
           c == Extracted(s, pos, l)
           d == a \o b
<1>2. \A i \in 1..l : ByteAt(s, pos + (i - 1)) \in U
  OBVIOUS
<1>3. S \subseteq U
  OBVIOUS
<1> HIDE DEF U
<1>4. out \in Seq(U)
  BY <1>1, <1>3
<1>5. \A i \in 1..m : ByteAt(s, pos + (i - 1)) \in U
  <2>1. \A i \in 1..m : i \in 1..l
    BY <1>0
  <2> QED BY <1>2, <2>1
<1>6. a \in Seq(U) /\ Len(a) = m /\ \A i \in 1..m : a[i] = ByteAt(s, pos + (i - 1))
  BY <1>0, <1>5, ExtractedSeq
<1>7. \A i \in 1..n : m + i \in 1..l /\ mid + (i - 1) = pos + ((m + i) - 1)
  BY <1>0
<1>8. \A i \in 1..n : ByteAt(s, mid + (i - 1)) \in U
  BY <1>2, <1>7
<1>9. b \in Seq(U) /\ Len(b) = n /\ \A i \in 1..n : b[i] = ByteAt(s, mid + (i - 1))
  <2>1. mid \in Nat
    BY <1>0
  <2> QED BY <1>0, <1>8, <2>1, ExtractedSeq
<1>10. c \in Seq(U) /\ Len(c) = l /\ \A i \in 1..l : c[i] = ByteAt(s, pos + (i - 1))
  <2>1. l \in Nat
    BY <1>0
  <2> QED BY <1>0, <1>2, <2>1, ExtractedSeq
<1> HIDE DEF a, b, c
<1>11. /\ d \in Seq(U) /\ Len(d) = m + n
       /\ \A i \in 1..(m + n) : d[i] = IF i <= m THEN a[i] ELSE b[i - m]
  BY <1>0, <1>6, <1>9, ConcatProperties
<1> HIDE DEF d
<1>12. ASSUME NEW i \in 1..l
       PROVE  d[i] = c[i]
  <2>1. CASE i <= m
    BY <1>0, <1>6, <1>10, <1>11, <2>1
  <2>2. CASE ~(i <= m)
    <3> DEFINE j == i - m
    <3>1. j \in 1..n /\ i = m + j
      BY <1>0, <2>2
    <3>2. d[i] = b[j]
      BY <1>0, <1>11, <2>2
    <3> HIDE DEF j
    <3>3. b[j] = ByteAt(s, mid + (j - 1)) /\ mid + (j - 1) = pos + ((m + j) - 1)
      BY <1>7, <1>9, <3>1
    <3>4. b[j] = ByteAt(s, pos + (i - 1))
      BY <3>1, <3>3
    <3> QED BY <1>10, <3>2, <3>4
  <2> QED BY <2>1, <2>2
<1>13. d = c
  BY <1>0, <1>10, <1>11, <1>12, SeqEqual
<1>14. (out \o a) \o b = out \o d
  <2>1. a \in Seq(U) /\ b \in Seq(U)
    BY <1>6, <1>9
  <2> QED BY ONLY <1>4, <2>1, ConcatAssociative DEF d
<1> QED BY <1>13, <1>14 DEF a, b, c, Joined

\* What is squeezed can be squeezed after.
LEMMA ExtractedInput ==
    ASSUME NEW s, NEW pos \in Nat, NEW n \in Nat, NEW out, IsInput(out)
    PROVE  IsInput(out \o Extracted(s, pos, n))
<1>1. PICK S : out \in Seq(S)
  BY DEF IsInput
<1> DEFINE U == S \cup {ByteAt(s, pos + (i - 1)) : i \in 1..n}
           a == Extracted(s, pos, n)
<1>2. \A i \in 1..n : ByteAt(s, pos + (i - 1)) \in U
  OBVIOUS
<1>3. S \subseteq U
  OBVIOUS
<1> HIDE DEF U
<1>4. out \in Seq(U)
  BY <1>1, <1>3
<1>5. a \in Seq(U)
  BY <1>2, ExtractedSeq
<1> HIDE DEF a
<1>6. out \o a \in Seq(U)
  BY <1>4, <1>5, ConcatProperties
<1> QED BY <1>6 DEF IsInput, a

\* keccak_squeeze, by the rounds of its loop.
LEMMA SqueezeIs ==
    ASSUME NEW out, NEW outlen, NEW st, NEW r, BlocksOf(st.pos, outlen, r) \in Nat
    PROVE  LET x == After("squeeze", [out |-> out, left |-> outlen, st |-> st], r,
                          BlocksOf(st.pos, outlen, r))
           IN  keccak_squeeze(out, outlen, st, r) = [out |-> x.out, st |-> x.st]
<1> DEFINE n == BlocksOf(st.pos, outlen, r)
           w == [out |-> out, left |-> outlen, st |-> st]
           x == Loop(n, w, LAMBDA y, i : SqueezeBlock(y, r))
<1>1. keccak_squeeze(out, outlen, st, r) = [out |-> x.out, st |-> x.st]
  BY Zenon DEF keccak_squeeze
<1>2. x = After("squeeze", w, r, n)
  <2> HIDE DEF n, w
  <2>1. n \in Nat
    BY DEF n
  <2> QED BY <2>1, SqueezeLoop, Zenon
<1> HIDE DEF x
<1> QED BY <1>1, <1>2, Zenon

\* No bytes are squeezed of no blocks.
LEMMA SqueezeNone ==
    ASSUME NEW out, NEW st, NEW r
    PROVE  keccak_squeeze(out, 0, st, r) = [out |-> out, st |-> st]
<1> DEFINE w == [out |-> out, left |-> 0, st |-> st]
<1>1. BlocksOf(st.pos, 0, r) = 0
  BY DEF BlocksOf
<1>2. After("squeeze", w, r, 0) = w
  <2> HIDE DEF w
  <2> QED BY AfterNone
<1>3. LET x == After("squeeze", w, r, 0)
      IN  keccak_squeeze(out, 0, st, r) = [out |-> x.out, st |-> x.st]
  <2>1. BlocksOf(st.pos, 0, r) \in Nat
    BY <1>1
  <2> QED BY <1>1, <2>1, SqueezeIs
<1> QED BY <1>2, <1>3

\* What is squeezed is in some number of blocks, in one at least if there is any.
LEMMA BlocksNat ==
    ASSUME NEW pos \in Nat, NEW n \in Nat, NEW r \in Nat \ {0}
    PROVE  /\ BlocksOf(pos, n, r) \in Nat
           /\ n # 0 => BlocksOf(pos, n, r) - 1 \in Nat
<1> DEFINE t == (IF pos = r THEN 0 ELSE pos) + n - 1
<1>1. CASE n = 0
  BY <1>1 DEF BlocksOf
<1>2. CASE n # 0
  <2>1. t \in Nat
    BY <1>2
  <2> DEFINE q == t \div r
  <2>2. q \in Nat
    <3> HIDE DEF t
    <3> QED BY <2>1
  <2>3. BlocksOf(pos, n, r) = q + 1
    BY <1>2 DEF BlocksOf
  <2> HIDE DEF q
  <2> QED BY <2>2, <2>3
<1> QED BY <1>1, <1>2

\* The rounds of keccak_squeeze after the first.
LEMMA SqueezeRounds ==
    ASSUME NEW out, NEW l \in Nat, NEW s, NEW pos \in Nat, NEW r \in Nat \ {0}, NEW n \in Nat,
           NEW x, x = SqueezeBlock([out |-> out, left |-> l, st |-> Sponge(s, pos)], r),
           x = [out |-> x.out, left |-> x.left, st |-> x.st],
           BlocksOf(pos, l, r) = n + 1, BlocksOf(x.st.pos, x.left, r) = n
    PROVE  keccak_squeeze(out, l, Sponge(s, pos), r) = keccak_squeeze(x.out, x.left, x.st, r)
<1> DEFINE st == Sponge(s, pos)
           w == [out |-> out, left |-> l, st |-> st]
           m == n + 1
<1>1. st.pos = pos
  BY DEF Sponge
<1>2. Turn("squeeze", w, r) = x
  BY DEF Turn
<1>3. m \in Nat
  OBVIOUS
<1> HIDE DEF w
<1>4. After("squeeze", w, r, m) = After("squeeze", x, r, n)
  BY <1>2, AfterFirst
<1> HIDE DEF m, st
<1>5. LET y == After("squeeze", w, r, m)
      IN  keccak_squeeze(out, l, st, r) = [out |-> y.out, st |-> y.st]
  <2>1. BlocksOf(st.pos, l, r) = m
    BY <1>1 DEF m
  <2> QED BY <1>3, <2>1, SqueezeIs DEF w
<1>6. LET y == After("squeeze", x, r, n)
      IN  keccak_squeeze(x.out, x.left, x.st, r) = [out |-> y.out, st |-> y.st]
  BY SqueezeIs
<1> QED BY <1>4, <1>5, <1>6 DEF st

\* A block that is used up is permuted first.
LEMMA SqueezeNext ==
    ASSUME NEW out, NEW l \in Nat \ {0}, NEW s, NEW r \in Nat \ {0}
    PROVE  keccak_squeeze(out, l, Sponge(s, r), r)
              = keccak_squeeze(out, l, Sponge(KeccakF1600_StatePermute(s), 0), r)
<1> DEFINE t == KeccakF1600_StatePermute(s)
           a == Sponge(s, r)
           b == Sponge(t, 0)
           v == [out |-> out, left |-> l, st |-> a]
           w == [out |-> out, left |-> l, st |-> b]
           n == BlocksOf(0, l, r)
           k == n - 1
<1>1. a.pos = r /\ b.pos = 0 /\ a.s = s /\ b.s = t
  BY DEF Sponge
<1>2. BlocksOf(r, l, r) = n
  BY DEF BlocksOf
<1>3. Turn("squeeze", v, r) = Turn("squeeze", w, r)
  <2>1. SqueezeBlock(v, r) = SqueezeBlock(w, r)
    <3> HIDE DEF a, b
    <3> QED BY <1>1 DEF SqueezeBlock
  <2> QED BY <2>1 DEF Turn
<1>4. n \in Nat /\ k \in Nat /\ n = k + 1
  <2>1. n \in Nat /\ n - 1 \in Nat
    BY BlocksNat
  <2> HIDE DEF n
  <2> QED BY <2>1
<1> HIDE DEF v, w, k, n, a, b
<1>5. After("squeeze", v, r, k + 1) = After("squeeze", Turn("squeeze", v, r), r, k)
  BY <1>4, AfterFirst
<1>6. After("squeeze", w, r, k + 1) = After("squeeze", Turn("squeeze", w, r), r, k)
  BY <1>4, AfterFirst
<1>7. After("squeeze", v, r, n) = After("squeeze", w, r, n)
  BY <1>3, <1>4, <1>5, <1>6
<1>8. LET y == After("squeeze", v, r, n)
      IN  keccak_squeeze(out, l, a, r) = [out |-> y.out, st |-> y.st]
  <2>1. BlocksOf(a.pos, l, r) = n
    BY <1>1, <1>2
  <2> QED BY <1>4, <2>1, SqueezeIs DEF v
<1>9. LET y == After("squeeze", w, r, n)
      IN  keccak_squeeze(out, l, b, r) = [out |-> y.out, st |-> y.st]
  <2>1. BlocksOf(b.pos, l, r) = n
    BY <1>1 DEF n
  <2> QED BY <1>4, <2>1, SqueezeIs DEF w
<1>10. keccak_squeeze(out, l, a, r) = keccak_squeeze(out, l, b, r)
  BY <1>7, <1>8, <1>9
<1> QED BY <1>10 DEF a, b

\* What is out, what is left to squeeze, and the sponge.
Todo(out, l, st) == [out |-> out, left |-> l, st |-> st]

\* The n of the l bytes that a round takes from the block at pos.
Piece(l, r, pos, n, mid, rest) ==
    /\ l \in Nat /\ r \in Nat \ {0} /\ pos \in Nat /\ n \in Nat
    /\ pos < r /\ n <= l /\ n <= r - pos /\ (n = l \/ n = r - pos)
    /\ mid = pos + n /\ rest = l - n

\* A round of keccak_squeeze in a block that is not used up, and the rounds after it.
LEMMA SqueezeBlockIs ==
    ASSUME NEW out, NEW l, NEW s, NEW r, NEW pos, NEW n, NEW mid, NEW rest,
           Piece(l, r, pos, n, mid, rest)
    PROVE  SqueezeBlock(Todo(out, l, Sponge(s, pos)), r)
              = Todo(out \o Extracted(s, pos, n), rest, Sponge(s, mid))
<1> DEFINE st == Sponge(s, pos)
           w == Todo(out, l, st)
<1>1. st.s = s /\ st.pos = pos /\ pos # r
  BY DEF Sponge, Piece
<1>2. (IF l < r - pos THEN l ELSE r - pos) = n /\ mid = pos + n /\ rest = l - n
  BY DEF Piece
<1>3. w.out = out /\ w.left = l /\ w.st = st
  BY DEF Todo
<1> HIDE DEF st, w
<1>4. SqueezeBlock(w, r) = Todo(out \o Extracted(s, pos, n), rest, Sponge(s, mid))
  BY <1>1, <1>2, <1>3 DEF SqueezeBlock, Todo
<1> QED BY <1>4 DEF w, st

LEMMA SqueezeOn ==
    ASSUME NEW out, NEW l, NEW s, NEW r, NEW pos, NEW n, NEW mid, NEW rest,
           Piece(l, r, pos, n, mid, rest), BlocksOf(pos, l, r) = BlocksOf(mid, rest, r) + 1
    PROVE  keccak_squeeze(out, l, Sponge(s, pos), r)
              = keccak_squeeze(out \o Extracted(s, pos, n), rest, Sponge(s, mid), r)
<1> DEFINE y == Todo(out \o Extracted(s, pos, n), rest, Sponge(s, mid))
           k == BlocksOf(mid, rest, r)
<1>1. SqueezeBlock(Todo(out, l, Sponge(s, pos)), r) = y
  BY SqueezeBlockIs
<1>2. y.out = out \o Extracted(s, pos, n) /\ y.left = rest /\ y.st = Sponge(s, mid) /\ y.st.pos = mid
  BY DEF Sponge, Todo
<1>3. y = [out |-> y.out, left |-> y.left, st |-> y.st]
  BY DEF Todo
<1>4. l \in Nat /\ r \in Nat \ {0} /\ pos \in Nat /\ mid \in Nat /\ rest \in Nat
  BY DEF Piece
<1>5. k \in Nat
  BY <1>4, BlocksNat
<1> HIDE DEF y, k
<1>6. BlocksOf(pos, l, r) = k + 1 /\ BlocksOf(y.st.pos, y.left, r) = k
  BY <1>2 DEF k
<1>7. y = SqueezeBlock([out |-> out, left |-> l, st |-> Sponge(s, pos)], r)
  BY <1>1 DEF Todo
<1>8. keccak_squeeze(out, l, Sponge(s, pos), r) = keccak_squeeze(y.out, y.left, y.st, r)
  BY <1>3, <1>4, <1>5, <1>6, <1>7, SqueezeRounds
<1> QED BY <1>2, <1>8

\* What keccak_squeeze leaves.
Squeezed(out, st) == [out |-> out, st |-> st]

\* keccak_squeeze stays in the block, or uses it up and goes on.
LEMMA SqueezeWithin ==
    ASSUME NEW out, NEW l \in Nat \ {0}, NEW s, NEW r \in Nat \ {0}, NEW pos \in Nat,
           NEW mid, mid = pos + l, mid <= r
    PROVE  keccak_squeeze(out, l, Sponge(s, pos), r)
              = Squeezed(out \o Extracted(s, pos, l), Sponge(s, mid))
<1> DEFINE none == 0
           a == out \o Extracted(s, pos, l)
           t == pos + l - 1
<1>1. Piece(l, r, pos, l, mid, none)
  BY DEF Piece
<1>2. BlocksOf(mid, none, r) = 0
  BY DEF BlocksOf
<1>3. BlocksOf(pos, l, r) = BlocksOf(mid, none, r) + 1
  <2>1. t \in Nat /\ t < r /\ pos # r /\ l # 0
    OBVIOUS
  <2>2. BlocksOf(pos, l, r) = (t \div r) + 1
    BY <2>1 DEF BlocksOf
  <2> HIDE DEF t
  <2>3. t \div r = 0
    <3>1. (t + r * 0) \div r = 0
      BY <2>1, Divided
    <3> QED BY <2>1, <3>1
  <2> QED BY <1>2, <2>2, <2>3
<1>4. keccak_squeeze(a, none, Sponge(s, mid), r) = Squeezed(a, Sponge(s, mid))
  <2> HIDE DEF a
  <2> QED BY SqueezeNone DEF Squeezed
<1> HIDE DEF none
<1>5. keccak_squeeze(out, l, Sponge(s, pos), r) = keccak_squeeze(a, none, Sponge(s, mid), r)
  BY <1>1, <1>3, SqueezeOn
<1> QED BY <1>4, <1>5

LEMMA SqueezeAcross ==
    ASSUME NEW out, NEW l \in Nat, NEW s, NEW r \in Nat \ {0}, NEW pos \in Nat, pos < r,
           NEW n, n = r - pos, l >= n, NEW e, e = l - n
    PROVE  keccak_squeeze(out, l, Sponge(s, pos), r)
              = keccak_squeeze(out \o Extracted(s, pos, n), e, Sponge(s, r), r)
<1> DEFINE k == BlocksOf(r, e, r)
<1>1. Piece(l, r, pos, n, r, e) /\ n \in Nat /\ n >= 1 /\ e \in Nat /\ r = pos + n
  BY DEF Piece
<1>2. k \in Nat
  BY <1>1, BlocksNat
<1>3. BlocksOf(pos, l, r) = k + 1
  <2> DEFINE t == pos + l - 1
             q == t \div r
  <2>1. t \in Nat /\ pos # r /\ l # 0
    BY <1>1
  <2>2. BlocksOf(pos, l, r) = q + 1
    BY <2>1 DEF BlocksOf
  <2>3. CASE e = 0
    <3>1. t = r - 1
      BY <1>1, <2>3
    <3>2. t < r
      BY <3>1
    <3> HIDE DEF t
    <3>3. (t + r * 0) \div r = 0
      BY <2>1, <3>2, Divided
    <3>4. q = 0
      BY <2>1, <3>3
    <3>5. k = 0
      BY <2>3 DEF BlocksOf
    <3> QED BY <2>2, <3>4, <3>5
  <2>4. CASE e # 0
    <3> DEFINE u == e - 1
               h == u \div r
               rest == u % r
    <3>1. u \in Nat /\ t = u + r
      BY <1>1, <2>4
    <3>2. k = h + 1
      BY <2>4 DEF BlocksOf
    <3> HIDE DEF u, t, k
    <3>3. h \in Nat /\ u = r * h + rest /\ rest \in 0..(r - 1)
      BY <3>1
    <3> HIDE DEF h, rest
    <3>4. k \in Nat /\ t = rest + r * k /\ rest \in Nat /\ rest < r
      BY <3>1, <3>2, <3>3
    <3>5. (rest + r * k) \div r = k
      BY <3>4, Divided
    <3>6. q = k
      BY <3>4, <3>5
    <3> HIDE DEF q
    <3> QED BY <2>2, <3>6
  <2> QED BY <2>3, <2>4
<1> QED BY <1>1, <1>3, SqueezeOn

\* Squeezing l bytes, then k, is squeezing l + k.
TwiceIs(out, l, k, s, pos, r, sum) ==
    LET f == keccak_squeeze(out, l, Sponge(s, pos), r)
    IN  keccak_squeeze(f.out, k, f.st, r) = keccak_squeeze(out, sum, Sponge(s, pos), r)

\* So it is where one of the two is none.
LEMMA TwiceTrivial ==
    ASSUME NEW out, NEW l \in Nat, NEW k \in Nat, NEW s, NEW pos \in Nat, NEW r \in Nat \ {0},
           NEW sum, sum = l + k, l = 0 \/ k = 0
    PROVE  TwiceIs(out, l, k, s, pos, r, sum)
<1> DEFINE st == Sponge(s, pos)
           f == keccak_squeeze(out, l, st, r)
<1>1. CASE l = 0
  <2>1. f = [out |-> out, st |-> st] /\ sum = k
    <3> HIDE DEF st
    <3> QED BY <1>1, SqueezeNone
  <2>2. f.out = out /\ f.st = st
    <3> HIDE DEF f
    <3> QED BY <2>1
  <2> HIDE DEF f
  <2>3. keccak_squeeze(f.out, k, f.st, r) = keccak_squeeze(out, sum, st, r)
    BY <2>1, <2>2
  <2> QED BY <2>3 DEF TwiceIs, f, st
<1>2. CASE k = 0
  <2>1. f = [out |-> f.out, st |-> f.st]
    BY DEF keccak_squeeze
  <2>2. sum = l
    BY <1>2
  <2>3. keccak_squeeze(f.out, k, f.st, r) = [out |-> f.out, st |-> f.st]
    <3> HIDE DEF f
    <3> QED BY <1>2, SqueezeNone
  <2> HIDE DEF f
  <2>4. keccak_squeeze(f.out, k, f.st, r) = f
    BY <2>1, <2>3
  <2>5. f = keccak_squeeze(out, sum, st, r)
    BY <2>2 DEF f
  <2> QED BY <2>4, <2>5 DEF TwiceIs, f, st
<1> QED BY <1>1, <1>2

\* Where the first bytes end in the block, the others go on in it.
LEMMA TwiceWithin ==
    ASSUME NEW out, IsInput(out), NEW l \in Nat \ {0}, NEW k \in Nat \ {0}, NEW s,
           NEW pos \in Nat, NEW r \in Nat \ {0}, NEW sum, sum = l + k, pos + l < r
    PROVE  TwiceIs(out, l, k, s, pos, r, sum)
<1> DEFINE mid == pos + l
           a == out \o Extracted(s, pos, l)
           f == keccak_squeeze(out, l, Sponge(s, pos), r)
<1>1. /\ mid \in Nat /\ mid < r /\ mid <= r /\ pos < r /\ mid = pos + l
      /\ sum \in Nat \ {0} /\ mid + k = pos + sum
  OBVIOUS
<1> HIDE DEF mid
<1>2. f = Squeezed(a, Sponge(s, mid))
  BY <1>1, SqueezeWithin
<1> HIDE DEF f
<1>3. f.out = a /\ f.st = Sponge(s, mid)
  <2> HIDE DEF a
  <2> QED BY <1>2 DEF Squeezed
<1> HIDE DEF a
<1>4. CASE mid + k < r
  <2> DEFINE end == mid + k
  <2>1. end <= r /\ end = pos + sum /\ end = mid + k
    BY <1>1, <1>4
  <2> HIDE DEF end
  <2>2. keccak_squeeze(a, k, Sponge(s, mid), r) = Squeezed(a \o Extracted(s, mid, k), Sponge(s, end))
    BY <1>1, <2>1, SqueezeWithin
  <2>3. keccak_squeeze(out, sum, Sponge(s, pos), r) = Squeezed(out \o Extracted(s, pos, sum), Sponge(s, end))
    BY <1>1, <2>1, SqueezeWithin
  <2>4. a \o Extracted(s, mid, k) = out \o Extracted(s, pos, sum)
    <3>1. Parts(pos, l, k, mid, sum)
      BY <1>1 DEF Parts
    <3>2. Joined(Joined(out, s, pos, l), s, mid, k) = Joined(out, s, pos, sum)
      BY <3>1, ExtractedTwice
    <3> QED BY <3>2 DEF a, Joined
  <2>5. keccak_squeeze(a, k, Sponge(s, mid), r) = keccak_squeeze(out, sum, Sponge(s, pos), r)
    BY <2>2, <2>3, <2>4
  <2> QED BY <1>3, <2>5 DEF TwiceIs, f
<1>5. CASE ~(mid + k < r)
  <2> DEFINE p == r - mid
             n == r - pos
             e == k - p
  <2>1. /\ p = r - mid /\ p \in Nat /\ k >= p /\ e = k - p
        /\ n = r - pos /\ n \in Nat /\ sum >= n /\ e = sum - n /\ n = l + p
    BY <1>1, <1>5
  <2> HIDE DEF p, n, e
  <2>2. keccak_squeeze(a, k, Sponge(s, mid), r)
           = keccak_squeeze(a \o Extracted(s, mid, p), e, Sponge(s, r), r)
    <3>1. k \in Nat
      OBVIOUS
    <3> QED BY <1>1, <2>1, <3>1, SqueezeAcross
  <2>3. keccak_squeeze(out, sum, Sponge(s, pos), r)
           = keccak_squeeze(out \o Extracted(s, pos, n), e, Sponge(s, r), r)
    <3>1. sum \in Nat
      OBVIOUS
    <3> QED BY <1>1, <2>1, <3>1, SqueezeAcross
  <2>4. a \o Extracted(s, mid, p) = out \o Extracted(s, pos, n)
    <3>1. Parts(pos, l, p, mid, n)
      BY <1>1, <2>1 DEF Parts
    <3>2. Joined(Joined(out, s, pos, l), s, mid, p) = Joined(out, s, pos, n)
      BY <3>1, ExtractedTwice
    <3> QED BY <3>2 DEF a, Joined
  <2>5. keccak_squeeze(a, k, Sponge(s, mid), r) = keccak_squeeze(out, sum, Sponge(s, pos), r)
    BY <2>2, <2>3, <2>4
  <2> QED BY <1>3, <2>5 DEF TwiceIs, f
<1> QED BY <1>4, <1>5

\* Where they use the block up, the others go on where the rest of them ends.
LEMMA TwiceAcross ==
    ASSUME NEW out, IsInput(out), NEW l \in Nat, NEW k \in Nat, NEW s,
           NEW pos \in Nat, NEW r \in Nat \ {0}, NEW sum, sum = l + k, pos < r, pos + l >= r,
           NEW m \in Nat, l <= m + 1,
           \A o : \A l1 \in 0..m : \A t : \A sum1 :
              IsInput(o) /\ sum1 = l1 + k => TwiceIs(o, l1, k, t, r, r, sum1)
    PROVE  TwiceIs(out, l, k, s, pos, r, sum)
<1> DEFINE n == r - pos
           e == l - n
           d == sum - n
           a == out \o Extracted(s, pos, n)
<1>1. /\ n = r - pos /\ n \in Nat /\ l >= n /\ sum >= n /\ sum \in Nat /\ e \in 0..m /\ d = e + k
      /\ e = l - n /\ d = sum - n
  OBVIOUS
<1> HIDE DEF n, e, d
<1>2. keccak_squeeze(out, l, Sponge(s, pos), r) = keccak_squeeze(a, e, Sponge(s, r), r)
  BY <1>1, SqueezeAcross
<1>3. keccak_squeeze(out, sum, Sponge(s, pos), r) = keccak_squeeze(a, d, Sponge(s, r), r)
  BY <1>1, SqueezeAcross
<1>4. IsInput(a)
  BY <1>1, ExtractedInput
<1> HIDE DEF a
<1>5. TwiceIs(a, e, k, s, r, r, d)
  BY <1>1, <1>4
<1> QED BY <1>2, <1>3, <1>5 DEF TwiceIs

\* By induction over the first bytes: squeezing in two calls is squeezing in one.
LEMMA SqueezeTwice ==
    ASSUME NEW k \in Nat, NEW r \in Nat \ {0}
    PROVE  \A m \in Nat : \A out : \A l \in 0..m : \A s : \A pos \in 0..r : \A sum :
              IsInput(out) /\ sum = l + k => TwiceIs(out, l, k, s, pos, r, sum)
<1> DEFINE T == {m \in Nat : \A out : \A l \in 0..m : \A s : \A pos \in 0..r : \A sum :
                                IsInput(out) /\ sum = l + k => TwiceIs(out, l, k, s, pos, r, sum)}
<1>1. 0 \in T
  <2>1. ASSUME NEW out, NEW l \in 0..0, NEW s, NEW pos \in 0..r, NEW sum, sum = l + k
        PROVE  TwiceIs(out, l, k, s, pos, r, sum)
    <3>1. l = 0 /\ l \in Nat /\ pos \in Nat
      OBVIOUS
    <3> QED BY <2>1, <3>1, TwiceTrivial
  <2> QED BY <2>1
<1>2. ASSUME NEW m \in Nat, m \in T
      PROVE  m + 1 \in T
  <2>0. \A o : \A l1 \in 0..m : \A t : \A sum1 :
           IsInput(o) /\ sum1 = l1 + k => TwiceIs(o, l1, k, t, r, r, sum1)
    <3>1. r \in 0..r
      OBVIOUS
    <3> QED BY <1>2, <3>1
  <2>1. ASSUME NEW out, IsInput(out), NEW l \in 0..(m + 1), NEW s, NEW pos \in Nat, pos < r,
               NEW sum, sum = l + k
        PROVE  TwiceIs(out, l, k, s, pos, r, sum)
    <3>0. l \in Nat /\ l <= m + 1
      OBVIOUS
    <3>1. CASE l = 0 \/ k = 0
      BY <2>1, <3>0, <3>1, TwiceTrivial
    <3>2. CASE l # 0 /\ k # 0 /\ pos + l < r
      <4>1. l \in Nat \ {0} /\ k \in Nat \ {0}
        BY <3>0, <3>2
      <4> QED BY <2>1, <3>2, <4>1, TwiceWithin
    <3>3. CASE pos + l >= r
      BY <2>0, <2>1, <3>0, <3>3, TwiceAcross
    <3> QED BY <3>0, <3>1, <3>2, <3>3
  <2>2. ASSUME NEW out, IsInput(out), NEW l \in 0..(m + 1), NEW s, NEW sum, sum = l + k
        PROVE  TwiceIs(out, l, k, s, r, r, sum)
    <3>0. l \in Nat
      OBVIOUS
    <3>1. CASE l = 0 \/ k = 0
      BY <2>2, <3>0, <3>1, TwiceTrivial
    <3>2. CASE l # 0 /\ k # 0
      <4> DEFINE t == KeccakF1600_StatePermute(s)
                 z == 0
      <4>1. l \in Nat \ {0} /\ sum \in Nat \ {0} /\ z \in Nat /\ z < r
        BY <2>2, <3>2
      <4>2. keccak_squeeze(out, l, Sponge(s, r), r) = keccak_squeeze(out, l, Sponge(t, z), r)
        BY <4>1, SqueezeNext
      <4>3. keccak_squeeze(out, sum, Sponge(s, r), r) = keccak_squeeze(out, sum, Sponge(t, z), r)
        BY <4>1, SqueezeNext
      <4> HIDE DEF t, z
      <4>4. TwiceIs(out, l, k, t, z, r, sum)
        BY <2>1, <2>2, <4>1
      <4> QED BY <4>2, <4>3, <4>4 DEF TwiceIs
    <3> QED BY <3>1, <3>2
  <2>3. ASSUME NEW out, IsInput(out), NEW l \in 0..(m + 1), NEW s, NEW pos \in 0..r, NEW sum,
               sum = l + k
        PROVE  TwiceIs(out, l, k, s, pos, r, sum)
    <3>1. pos = r \/ (pos \in Nat /\ pos < r)
      OBVIOUS
    <3> QED BY <2>1, <2>2, <2>3, <3>1
  <2> QED BY <2>3
<1> HIDE DEF T
<1>3. \A m \in Nat : m \in T
  BY <1>1, <1>2, SetInduction
<1> QED BY <1>3 DEF T

\* shake's whole blocks are what keccak_squeeze gives of them.
LEMMA SqueezeWhole ==
    ASSUME NEW r \in Nat \ {0}
    PROVE  \A k \in Nat : \A out : \A s :
              keccak_squeezeblocks(out, k, Sponge(s, r), r) = keccak_squeeze(out, r * k, Sponge(s, r), r)
<1> DEFINE w(out, s) == [out |-> out, st |-> Sponge(s, r)]
           T == {k \in Nat : \A out : \A s :
                                After("whole", w(out, s), r, k)
                                   = keccak_squeeze(out, r * k, Sponge(s, r), r)}
<1>1. 0 \in T
  <2>1. ASSUME NEW out, NEW s
        PROVE  After("whole", w(out, s), r, 0) = keccak_squeeze(out, r * 0, Sponge(s, r), r)
    <3> DEFINE x == w(out, s)
               z == r * 0
    <3>1. z = 0
      OBVIOUS
    <3>2. keccak_squeeze(out, z, Sponge(s, r), r) = x
      <4> HIDE DEF z
      <4> QED BY <3>1, SqueezeNone
    <3> HIDE DEF z, x
    <3>3. After("whole", x, r, 0) = x
      BY AfterNone
    <3> QED BY <3>2, <3>3 DEF x, z
  <2> HIDE DEF w
  <2> QED BY <2>1
<1>2. ASSUME NEW k \in Nat, k \in T
      PROVE  k + 1 \in T
  <2>1. ASSUME NEW out, NEW s
        PROVE  After("whole", w(out, s), r, k + 1) = keccak_squeeze(out, r * (k + 1), Sponge(s, r), r)
    <3> DEFINE x == w(out, s)
               t == KeccakF1600_StatePermute(s)
               o == out \o Extracted(t, 0, r)
               y == w(o, t)
               all == r * (k + 1)
               rest == r * k
               z == 0
    <3>1. Turn("whole", x, r) = y
      <4> DEFINE st == Sponge(s, r)
      <4>1. st.s = s /\ st.pos = r /\ x.out = out /\ x.st = st
        BY DEF Sponge
      <4>2. Turn("whole", x, r) = WholeBlock(x, r)
        BY DEF Turn
      <4> HIDE DEF x, st
      <4>3. WholeBlock(x, r) = [out |-> out \o Extracted(t, 0, r), st |-> Sponge(t, r)]
        <5> DEFINE v(q) == [out |-> out \o Extracted(q, 0, r), st |-> Sponge(q, r)]
        <5>1. WholeBlock(x, r) =
                 CHOOSE h \in {[out |-> x.out \o Extracted(q, 0, r), st |-> Sponge(q, x.st.pos)] :
                                  q \in {KeccakF1600_StatePermute(x.st.s)}} : TRUE
          BY Zenon DEF WholeBlock, With
        <5>2. {[out |-> x.out \o Extracted(q, 0, r), st |-> Sponge(q, x.st.pos)] :
                  q \in {KeccakF1600_StatePermute(x.st.s)}} = {v(t)}
          BY <4>1
        <5> HIDE DEF v
        <5>3. WholeBlock(x, r) = v(t)
          BY <5>1, <5>2
        <5> QED BY <5>3 DEF v
      <4> QED BY <4>2, <4>3
    <3>2. After("whole", x, r, k + 1) = After("whole", y, r, k)
      <4> HIDE DEF x, y
      <4> QED BY <3>1, AfterFirst
    <3>3. After("whole", y, r, k) = keccak_squeeze(o, rest, Sponge(t, r), r)
      <4> HIDE DEF w, o, t
      <4> QED BY <1>2
    <3>4. rest \in Nat /\ all = rest + r
      OBVIOUS
    <3> HIDE DEF rest, all
    <3>5. all \in Nat \ {0} /\ all \in Nat /\ all >= r /\ z \in Nat /\ z < r /\ r = r - z /\ rest = all - r
      BY <3>4
    <3>6. keccak_squeeze(out, all, Sponge(s, r), r) = keccak_squeeze(out, all, Sponge(t, z), r)
      BY <3>5, SqueezeNext
    <3> HIDE DEF t
    <3>7. keccak_squeeze(out, all, Sponge(t, z), r) = keccak_squeeze(o, rest, Sponge(t, r), r)
      <4>1. o = out \o Extracted(t, z, r)
        OBVIOUS
      <4> HIDE DEF z, o
      <4> QED BY <3>5, <4>1, SqueezeAcross
    <3> HIDE DEF x, y, o, z
    <3> QED BY <3>2, <3>3, <3>6, <3>7 DEF x, all
  <2> HIDE DEF w
  <2>2. k + 1 \in Nat
    OBVIOUS
  <2> QED BY <2>1, <2>2
<1> HIDE DEF T
<1>3. \A k \in Nat : k \in T
  BY <1>1, <1>2, SetInduction
<1>4. ASSUME NEW k \in Nat, NEW out, NEW s
      PROVE  keccak_squeezeblocks(out, k, Sponge(s, r), r) = keccak_squeeze(out, r * k, Sponge(s, r), r)
  <2> DEFINE x == w(out, s)
  <2>1. keccak_squeezeblocks(out, k, Sponge(s, r), r) = Loop(k, x, LAMBDA y, i : WholeBlock(y, r))
    BY Zenon DEF keccak_squeezeblocks
  <2> HIDE DEF x
  <2>2. Loop(k, x, LAMBDA y, i : WholeBlock(y, r)) = After("whole", x, r, k)
    BY WholeLoop
  <2>3. keccak_squeezeblocks(out, k, Sponge(s, r), r) = After("whole", x, r, k)
    BY <2>1, <2>2, Zenon
  <2>4. After("whole", x, r, k) = keccak_squeeze(out, r * k, Sponge(s, r), r)
    BY <1>3 DEF T, x
  <2> QED BY <2>3, <2>4
<1> QED BY <1>4

\* The blocks of keccak_absorb_once begin at the first byte of the state.
LEMMA AbsorbFromStart ==
    ASSUME NEW S, NEW in \in Seq(S), NEW r \in Nat \ {0}, NEW s, NEW n \in Nat
    PROVE  LET x == Absorbed(Sponge(s, 0), r, in, n) IN x.st.pos = 0 /\ x.in \in Seq(S)
<1> DEFINE w == [st |-> Sponge(s, 0), in |-> in]
           T == {i \in Nat : /\ After("absorb", w, r, i).st.pos = 0
                             /\ After("absorb", w, r, i).in \in Seq(S)}
<1>1. 0 \in T
  <2>1. w.st.pos = 0 /\ w.in \in Seq(S)
    BY DEF Sponge
  <2> HIDE DEF w
  <2>2. After("absorb", w, r, 0) = w
    BY AfterNone
  <2> QED BY <2>1, <2>2
<1>2. ASSUME NEW i \in Nat, i \in T
      PROVE  i + 1 \in T
  <2> HIDE DEF w
  <2> DEFINE a == After("absorb", w, r, i)
             b == After("absorb", w, r, i + 1)
  <2>1. b = Turn("absorb", a, r)
    <3> DEFINE j == i + 1
    <3>1. j = i + 1
      OBVIOUS
    <3> HIDE DEF j
    <3>2. After("absorb", w, r, j) = Turn("absorb", After("absorb", w, r, i), r)
      BY <3>1, AfterNext
    <3> QED BY <3>1, <3>2
  <2>2. a.st.pos = 0 /\ a.in \in Seq(S)
    BY <1>2
  <2> HIDE DEF a, b
  <2>3. b = AbsorbBlock(a, r)
    BY <2>1 DEF Turn
  <2>4. b.st.pos = 0 /\ b.in = SubSeq(a.in, (r - a.st.pos) + 1, Len(a.in))
    BY <2>3 DEF AbsorbBlock, Sponge
  <2>5. b.in = SubSeq(a.in, r + 1, Len(a.in))
    BY <2>2, <2>4
  <2>6. b.in \in Seq(S)
    BY <2>2, <2>5
  <2> QED BY <2>4, <2>6 DEF b
<1> HIDE DEF T, w
<1>3. \A i \in Nat : i \in T
  BY <1>1, <1>2, SetInduction
<1>4. Absorbed(Sponge(s, 0), r, in, n) = After("absorb", w, r, n)
  BY AbsorbedIs DEF w
<1> QED BY <1>3, <1>4 DEF T

\* keccak_absorb_once is keccak_absorb and the padding.
LEMMA AbsorbOnce ==
    ASSUME NEW S, NEW in \in Seq(S), NEW r \in Nat \ {0}, NEW s, NEW p
    PROVE  LET a == keccak_absorb(Sponge(s, 0), r, in)
           IN  keccak_absorb_once(s, r, in, p) = Padded(a.s, a.pos, r, p)
<1> DEFINE st == Sponge(s, 0)
           len == Len(in)
           n == len \div r
           x == Absorbed(st, r, in, n)
           a == keccak_absorb(st, r, in)
<1>1. st.pos = 0 /\ len \in Nat /\ st.pos + len = len
  BY DEF Sponge
<1>2. n \in Nat
  <2> HIDE DEF len
  <2> QED BY <1>1
<1>3. x.st.pos = 0 /\ x.in \in Seq(S)
  <2> HIDE DEF n
  <2> QED BY <1>2, AbsorbFromStart
<1>4. a = Sponge(Added(x.st.s, x.st.pos, x.in), x.st.pos + Len(x.in))
  <2> HIDE DEF st
  <2>1. (st.pos + Len(in)) \div r = n
    BY <1>1
  <2> HIDE DEF n
  <2> QED BY <2>1 DEF keccak_absorb
<1>5. keccak_absorb_once(s, r, in, p) = Padded(Added(x.st.s, 0, x.in), Len(x.in), r, p)
  BY DEF keccak_absorb_once
<1> HIDE DEF x
<1>6. x.st.pos + Len(x.in) = Len(x.in)
  BY <1>3
<1>7. a.s = Added(x.st.s, 0, x.in) /\ a.pos = Len(x.in)
  <2> HIDE DEF a
  <2> QED BY <1>3, <1>4, <1>6 DEF Sponge
<1> QED BY <1>5, <1>7

\* shake_absorb_once is shake_absorb and shake_finalize.
LEMMA ShakeAbsorbOnce ==
    ASSUME NEW S, NEW in \in Seq(S), NEW r \in Nat \ {0}
    PROVE  shake_absorb_once(r, in) = shake_finalize(keccak_absorb(shake_init, r, in), r)
<1> DEFINE p == 31
           a == keccak_absorb(Sponge(keccak_init, 0), r, in)
<1>1. shake_absorb_once(r, in) = Sponge(keccak_absorb_once(keccak_init, r, in, p), r)
  BY Zenon DEF shake_absorb_once
<1>2. shake_finalize(keccak_absorb(shake_init, r, in), r) = Sponge(Padded(a.s, a.pos, r, p), r)
  BY Zenon DEF shake_finalize, keccak_finalize, shake_init
<1> HIDE DEF p
<1>3. keccak_absorb_once(keccak_init, r, in, p) = Padded(a.s, a.pos, r, p)
  BY AbsorbOnce
<1> QED BY <1>1, <1>2, <1>3

\* An output that has no bytes yet.
LEMMA EmptyInput == IsInput(<<>>)
<1>1. <<>> \in Seq({})
  OBVIOUS
<1> QED BY <1>1 DEF IsInput

\* shake, with the whole blocks and the rest in one.
LEMMA ShakeIs ==
    ASSUME NEW in, NEW r \in Nat \ {0}, NEW n \in Nat
    PROVE  shake(r, n, in) = keccak_squeeze(<<>>, n, shake_absorb_once(r, in), r).out
<1> DEFINE t == keccak_absorb_once(keccak_init, r, in, 31)
           q == n \div r
           l == r * q
           k == n % r
           out == <<>>
           blocks == keccak_squeezeblocks(out, q, Sponge(t, r), r)
<1>1. shake_absorb_once(r, in) = Sponge(t, r)
  BY DEF shake_absorb_once
<1>2. shake(r, n, in) = keccak_squeeze(blocks.out, k, blocks.st, r).out
  BY <1>1 DEF shake
<1>3. q \in Nat /\ k \in Nat /\ n = l + k /\ l \in Nat
  <2>1. q \in Nat /\ k \in Nat /\ n = r * q + k
    OBVIOUS
  <2> HIDE DEF q, k
  <2> QED BY <2>1
<1>4. IsInput(out)
  BY EmptyInput
<1> HIDE DEF t, q, k, out
<1>5. blocks = keccak_squeeze(out, l, Sponge(t, r), r)
  BY <1>3, SqueezeWhole
<1> HIDE DEF l, blocks
<1>6. TwiceIs(out, l, k, t, r, r, n)
  <2>1. l \in 0..l /\ r \in 0..r
    BY <1>3
  <2> QED BY <1>3, <1>4, <2>1, SqueezeTwice
<1>7. keccak_squeeze(blocks.out, k, blocks.st, r) = keccak_squeeze(out, n, Sponge(t, r), r)
  BY <1>5, <1>6 DEF TwiceIs
<1> QED BY <1>1, <1>2, <1>7 DEF out

\* Of any rate, input and cut: the incremental functions give what the one-shot ones give.
THEOREM IncrementalIsOneShot ==
    ASSUME NEW S, NEW in \in Seq(S), NEW r \in Nat \ {0}, NEW cut \in 0..Len(in),
           NEW outlen \in Nat, cut <= outlen
    PROVE  InTwo(r, cut, outlen, in) = shake(r, outlen, in)
<1> DEFINE a == SubSeq(in, 1, cut)
           b == SubSeq(in, cut + 1, Len(in))
           absorbed == keccak_absorb(keccak_absorb(shake_init, r, a), r, b)
           st == shake_finalize(absorbed, r)
           t == Padded(absorbed.s, absorbed.pos, r, 31)
           out == <<>>
           f == keccak_squeeze(out, cut, st, r)
           k == outlen - cut
<1>1. InTwo(r, cut, outlen, in) = keccak_squeeze(f.out, k, f.st, r).out
  BY DEF InTwo
<1>2. st = Sponge(t, r)
  BY DEF shake_finalize, keccak_finalize
<1>3. a \in Seq(S) /\ b \in Seq(S) /\ Len(a) \in Nat
  OBVIOUS
<1>4. a \o b = in
  <2>1. SubSeq(in, 1, cut) \o SubSeq(in, cut + 1, Len(in)) = SubSeq(in, 1, Len(in))
    <3>1. 1 \in 1..(Len(in) + 1) /\ cut \in (1 - 1)..Len(in) /\ Len(in) \in cut..Len(in)
      OBVIOUS
    <3> QED BY <3>1, ConcatAdjacentSubSeq
  <2>2. SubSeq(in, 1, Len(in)) = in
    BY SubSeqFull
  <2> QED BY <2>1, <2>2
<1> HIDE DEF a, b
<1>5. absorbed = keccak_absorb(shake_init, r, in)
  <2> DEFINE z == 0
             m == z + Len(a)
  <2>1. m \in Nat /\ z \in Nat /\ z < r /\ z + Len(a) <= m
    BY <1>3
  <2> HIDE DEF z, m
  <2>2. keccak_absorb(keccak_absorb(Sponge(keccak_init, z), r, a), r, b)
           = keccak_absorb(Sponge(keccak_init, z), r, a \o b)
    BY <1>3, <2>1, AbsorbTwice
  <2> QED BY <1>4, <2>2 DEF shake_init, z
<1>6. st = shake_absorb_once(r, in)
  <2> HIDE DEF absorbed
  <2> QED BY <1>5, ShakeAbsorbOnce
<1>7. IsInput(out) /\ cut \in Nat /\ k \in Nat /\ outlen = cut + k /\ cut \in 0..cut /\ r \in 0..r
  BY EmptyInput
<1> HIDE DEF t, out, k, absorbed
<1>8. TwiceIs(out, cut, k, t, r, r, outlen)
  BY <1>7, SqueezeTwice
<1>9. keccak_squeeze(f.out, k, f.st, r) = keccak_squeeze(out, outlen, st, r)
  <2> HIDE DEF st
  <2> QED BY <1>2, <1>8 DEF TwiceIs
<1>10. shake(r, outlen, in) = keccak_squeeze(out, outlen, st, r).out
  <2> HIDE DEF st
  <2> QED BY <1>6, ShakeIs DEF out
<1> HIDE DEF f, st
<1> QED BY <1>1, <1>9, <1>10

\* fips202.c: the incremental and the one-shot functions agree at every cut next to the
\* end of a block.
THEOREM SpongeAlwaysIncremental == Samples => []SpongeIncremental
<1>1. ASSUME NEW r \in Nat \ {0}, sample \in {0, 1, r - 1, r, r + 1}
      PROVE  InTwo(r, sample, r + 2, Input(2 * r)) = shake(r, r + 2, Input(2 * r))
  <2> DEFINE in == Input(2 * r)
             n == 2 * r
             outlen == r + 2
  <2>1. n \in Nat /\ outlen \in Nat /\ sample \in 0..n /\ sample <= outlen
    BY <1>1
  <2> HIDE DEF n
  <2>2. in \in Seq(Int) /\ Len(in) = n
    BY <2>1 DEF Input, n
  <2> HIDE DEF in, outlen
  <2>3. sample \in 0..Len(in)
    BY <2>1, <2>2
  <2>4. InTwo(r, sample, outlen, in) = shake(r, outlen, in)
    BY <2>1, <2>2, <2>3, IncrementalIsOneShot
  <2> QED BY <2>4 DEF in, outlen
<1>2. SHAKE128_RATE \in Nat \ {0} /\ SHAKE256_RATE \in Nat \ {0}
  BY LaneAssumption DEF SHAKE128_RATE, SHAKE256_RATE
<1>3. SpongeIncremental
  BY <1>1, <1>2 DEF SpongeIncremental
<1> QED BY <1>3, PTL

===============================================================================
