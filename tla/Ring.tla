---------------------------------- MODULE Ring ----------------------------------
(***************************************************************************)
(* Kyber's arithmetic (src/engine/solver: reduce.c, ntt.c, poly.c,         *)
(* polyvec.c, cbd.c), as built with KYBER_K = 4: polynomials of N          *)
(* coefficients modulo Q and X^N + 1, 256 in the code.                     *)
(*                                                                         *)
(* A polynomial is the sequence of its coefficients, an int16_t each;      *)
(* bytes are 0..255.  Int16 is the conversion to int16_t; (x << n) is      *)
(* x * 2^n and (x >> n) is x \div 2^n, also of negative x.                 *)
(***************************************************************************)
EXTENDS Arrays

LOCAL INSTANCE SequencesExt

CONSTANTS N, K

ASSUME DegreeAssumption == N \in {8, 16, 32, 64, 128, 256}
ASSUME RankAssumption == K \in Nat \ {0}

Q == 3329
MONT == -1044
QINV == -3327

POLYBYTES == 12 * (N \div 8)
POLYCOMPRESSEDBYTES == 5 * (N \div 8)
BLOCKBYTES == 11 * (N \div 8)   \* of one compressed polynomial of a vector

Int16(x) == ((x + 32768) % 65536) - 32768

------------------------------------------------------------------------------
(* Reductions *)

montgomery_reduce(a) ==
    LET t == Int16(Int16(a) * QINV)
    IN  Int16((a - t * Q) \div 65536)

\* Mutant: the quotient is rounded down.
barrett_reduce_down(a) ==
    LET v == (67108864 + (Q \div 2)) \div Q
    IN  Int16(a - Int16(((v * a) \div 67108864) * Q))

\* 67108864 is 2^26.
barrett_reduce(a) ==
    LET v == (67108864 + (Q \div 2)) \div Q
        t == Int16((v * a + 33554432) \div 67108864)
    IN  Int16(a - Int16(t * Q))

fqmul(a, b) == montgomery_reduce(a * b)

------------------------------------------------------------------------------
(* The number-theoretic transform *)

\* Of N < 256 coefficients it uses the first N \div 2.
zetas ==
 << -1044,  -758,  -359, -1517,  1493,  1422,   287,   202,
     -171,   622,  1577,   182,   962, -1202, -1474,  1468,
      573, -1325,   264,   383,  -829,  1458, -1602,  -130,
     -681,  1017,   732,   608, -1542,   411,  -205, -1571,
     1223,   652,  -552,  1015, -1293,  1491,  -282, -1544,
      516,    -8,  -320,  -666, -1618, -1162,   126,  1469,
     -853,   -90,  -271,   830,   107, -1421,  -247,  -951,
     -398,   961, -1508,  -725,   448, -1065,   677, -1275,
    -1103,   430,   555,   843, -1251,   871,  1550,   105,
      422,   587,   177,  -235,  -291,  -460,  1574,  1653,
     -246,   778,  1159,  -147,  -777,  1483,  -602,  1119,
    -1590,   644,  -872,   349,   418,   329,  -156,   -75,
      817,  1097,   603,   610,  1322, -1285, -1465,   384,
    -1215,  -136,  1218, -1335,  -874,   220, -1187, -1659,
    -1185, -1530, -1278,   794, -1510,  -854,  -870,   478,
     -108,  -308,   996,   991,   958, -1460,  1522,  1628 >>

\* One pass of the loop over len; block start \div (2 * len) takes one zeta.
Layer(r, len) ==
    Array(N, LAMBDA j :
       LET zeta == zetas[(N \div (2 * len)) + (j \div (2 * len)) + 1]
       IN  IF j % (2 * len) < len THEN Int16(r[j + 1] + fqmul(zeta, r[j + len + 1]))
           ELSE Int16(r[j - len + 1] - fqmul(zeta, r[j + 1])))

InverseLayer(r, len) ==
    Array(N, LAMBDA j :
       LET zeta == zetas[(N \div len) - (j \div (2 * len))]
       IN  IF j % (2 * len) < len THEN barrett_reduce(Int16(r[j + 1] + r[j + len + 1]))
           ELSE fqmul(zeta, Int16(r[j + 1] - r[j - len + 1])))

\* N \div 2, ..., 2
Lengths == LET n == CHOOSE i \in 1..7 : 2^(i + 1) = N IN [i \in 1..n |-> N \div 2^i]

ntt(r) == FoldLeft(Layer, r, Lengths)

\* Mutant: the transform ends at polynomials of degree 1, not at numbers.
F_numbers == CHOOSE f \in 0..(Q - 1) : (f * N - MONT * MONT) % Q = 0

\* 1441 when N is 256: MONT^2 / (N \div 2)
F == CHOOSE f \in 0..(Q - 1) : (f * (N \div 2) - MONT * MONT) % Q = 0

invntt(r) ==
    LET s == FoldLeft(InverseLayer, r, Reverse(Lengths))
    IN  Array(N, LAMBDA j : fqmul(s[j + 1], F))

basemul(a, b, zeta) ==
    << Int16(fqmul(fqmul(a[2], b[2]), zeta) + fqmul(a[1], b[1])),
       Int16(fqmul(a[1], b[2]) + fqmul(a[2], b[1])) >>

poly_basemul_montgomery(a, b) ==
    LET Pair(r, i) == <<r[2 * i + 1], r[2 * i + 2]>>
        Zeta(i) == LET z == zetas[(N \div 4) + (i \div 2) + 1] IN IF i % 2 = 0 THEN z ELSE -z
        products == Array(N \div 2, LAMBDA i : basemul(Pair(a, i), Pair(b, i), Zeta(i)))
    IN  Array(N, LAMBDA j : products[(j \div 2) + 1][(j % 2) + 1])

------------------------------------------------------------------------------
(* Polynomials and vectors *)

poly_reduce(r) == Array(N, LAMBDA j : barrett_reduce(r[j + 1]))
poly_tomont(r) == Array(N, LAMBDA j : montgomery_reduce(r[j + 1] * ((MONT * MONT) % Q)))
poly_add(a, b) == Array(N, LAMBDA j : Int16(a[j + 1] + b[j + 1]))
poly_sub(a, b) == Array(N, LAMBDA j : Int16(a[j + 1] - b[j + 1]))
poly_ntt(r) == poly_reduce(ntt(r))

Vector(Element(_)) == Array(K, Element)

polyvec_ntt(r) == Vector(LAMBDA i : poly_ntt(r[i + 1]))
polyvec_invntt_tomont(r) == Vector(LAMBDA i : invntt(r[i + 1]))
polyvec_reduce(r) == Vector(LAMBDA i : poly_reduce(r[i + 1]))
polyvec_add(a, b) == Vector(LAMBDA i : poly_add(a[i + 1], b[i + 1]))

polyvec_basemul_acc_montgomery(a, b) ==
    LET products == Vector(LAMBDA i : poly_basemul_montgomery(a[i + 1], b[i + 1]))
    IN  poly_reduce(FoldLeft(poly_add, Head(products), Tail(products)))

\* The difference of two bits and the next two, for each half of a byte.
cbd2(buf) ==
    Array(N, LAMBDA i :
       LET h == (buf[(i \div 2) + 1] \div 16^(i % 2)) % 16
           Bit(k) == (h \div 2^k) % 2
       IN  Bit(0) + Bit(1) - Bit(2) - Bit(3))

------------------------------------------------------------------------------
(* Compression *)

Standard(x) == IF x < 0 THEN Int16(x + Q) ELSE x

\* (x * y) >> s of a wider integer; x and y below 2^23.
MulShift(x, y, s) ==
    LET a == x \div 2^11   b == x % 2^11
        c == y \div 2^11   d == y % 2^11
    IN  (a * c + (a * d + b * c + (b * d) \div 2^11) \div 2^11) \div 2^(s - 22)

\* Five bits of a coefficient: uint32_t may lose bits the mask leaves out.
Compressed5(x) == MulShift(Standard(x) * 2^5 + 1664, 40318, 27) % 2^5
Decompressed5(t) == (t * Q + 16) \div 2^5

\* Mutant: the quotient is rounded down.
Compressed11_down(x) == MulShift(Standard(x) * 2^11, 645084, 31) % 2^11

Compressed11(x) == MulShift(Standard(x) * 2^11 + 1664, 645084, 31) % 2^11
Decompressed11(t) == (t * Q + 1024) \div 2^11

\* One bit: is the coefficient, negative or not, nearer to Q / 2 than to 0?
Decided(x) == (((2 * x + 1665) * 80635) \div 2^28) % 2

------------------------------------------------------------------------------
(* Bytes; an or of bits that do not meet is a sum *)

AsBytes(s) == [i \in DOMAIN s |-> s[i] % 256]

\* Blocks of n elements of s, each made into the sequence Of(block).
Blockwise(s, n, Of(_)) ==
    FlattenSeq([i \in 1..(Len(s) \div n) |-> Of(SubSeq(s, n * (i - 1) + 1, n * i))])

Pack5(t) ==
    AsBytes(<< t[1] + t[2] * 2^5,
               t[2] \div 2^3 + t[3] * 2^2 + t[4] * 2^7,
               t[4] \div 2 + t[5] * 2^4,
               t[5] \div 2^4 + t[6] * 2 + t[7] * 2^6,
               t[7] \div 2^2 + t[8] * 2^3 >>)

Unpack5(a) ==
    LET t == << a[1],
                a[1] \div 2^5 + a[2] * 2^3,
                a[2] \div 2^2,
                a[2] \div 2^7 + a[3] * 2,
                a[3] \div 2^4 + a[4] * 2^4,
                a[4] \div 2,
                a[4] \div 2^6 + a[5] * 2^2,
                a[5] \div 2^3 >>
    IN  [i \in 1..8 |-> t[i] % 2^5]

Pack11(t) ==
    AsBytes(<< t[1],
               t[1] \div 2^8 + t[2] * 2^3,
               t[2] \div 2^5 + t[3] * 2^6,
               t[3] \div 2^2,
               t[3] \div 2^10 + t[4] * 2,
               t[4] \div 2^7 + t[5] * 2^4,
               t[5] \div 2^4 + t[6] * 2^7,
               t[6] \div 2,
               t[6] \div 2^9 + t[7] * 2^2,
               t[7] \div 2^6 + t[8] * 2^5,
               t[8] \div 2^3 >>)

Unpack11(a) ==
    LET t == << a[1] + a[2] * 2^8,
                a[2] \div 2^3 + a[3] * 2^5,
                a[3] \div 2^6 + a[4] * 2^2 + a[5] * 2^10,
                a[5] \div 2 + a[6] * 2^7,
                a[6] \div 2^4 + a[7] * 2^4,
                a[7] \div 2^7 + a[8] * 2 + a[9] * 2^9,
                a[9] \div 2^2 + a[10] * 2^6,
                a[10] \div 2^5 + a[11] * 2^3 >>
    IN  [i \in 1..8 |-> t[i] % 2^11]

Pack12(t) == AsBytes(<< t[1], t[1] \div 2^8 + t[2] * 2^4, t[2] \div 2^4 >>)

\* Mutant: the first number keeps the bits of the second.
Unpack12_unmasked(a) == << a[1] + a[2] * 2^8, (a[2] \div 2^4 + a[3] * 2^4) % 2^12 >>

Unpack12(a) == << (a[1] + a[2] * 2^8) % 2^12, (a[2] \div 2^4 + a[3] * 2^4) % 2^12 >>

poly_compress(r) ==
    Blockwise(r, 8, LAMBDA b : Pack5([i \in 1..8 |-> Compressed5(b[i])]))
poly_decompress(a) ==
    Blockwise(a, 5, LAMBDA b : [i \in 1..8 |-> Decompressed5(Unpack5(b)[i])])

BlockOf(a, size, i) == SubSeq(a, size * i + 1, size * (i + 1))

polyvec_compress(v) ==
    FlattenSeq(Vector(LAMBDA i :
       Blockwise(v[i + 1], 8, LAMBDA b : Pack11([j \in 1..8 |-> Compressed11(b[j])]))))
polyvec_decompress(a) ==
    Vector(LAMBDA i :
       Blockwise(BlockOf(a, BLOCKBYTES, i), 11,
                 LAMBDA b : [j \in 1..8 |-> Decompressed11(Unpack11(b)[j])]))

poly_tobytes(r) == Blockwise(r, 2, LAMBDA b : Pack12([i \in 1..2 |-> Standard(b[i])]))
poly_frombytes(a) == Blockwise(a, 3, Unpack12)

polyvec_tobytes(v) == FlattenSeq(Vector(LAMBDA i : poly_tobytes(v[i + 1])))
polyvec_frombytes(a) == Vector(LAMBDA i : poly_frombytes(BlockOf(a, POLYBYTES, i)))

poly_frommsg(msg) ==
    Array(N, LAMBDA i : IF (msg[(i \div 8) + 1] \div 2^(i % 8)) % 2 = 1 THEN (Q + 1) \div 2 ELSE 0)
poly_tomsg(r) ==
    Array(N \div 8, LAMBDA i :
       FoldLeft(LAMBDA n, j : n + Decided(r[8 * i + j + 1]) * 2^j, 0, [j \in 1..8 |-> j - 1]))

===============================================================================
