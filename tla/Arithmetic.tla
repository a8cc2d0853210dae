------------------------------- MODULE Arithmetic -------------------------------
(***************************************************************************)
(* What the operators of Ring and Sponge compute, for every sample: a      *)
(* coefficient, a length, or the index of an input made from it.           *)
(***************************************************************************)
EXTENDS Ring, Sponge

VARIABLE sample

Centered == -((Q - 1) \div 2)..((Q - 1) \div 2)

------------------------------------------------------------------------------
(* Reductions *)

Congruent(a, b) == (a - b) % Q = 0

\* What an int16_t is multiplied by before it is reduced.
Factors == {MONT, 1441, (MONT * MONT) % Q, -1659, 1653, 1 - Q, Q}

\* reduce.c: barrett_reduce gives the centred representative of every int16_t,
\* montgomery_reduce of a product a * c a representative of a * c / 2^16 below
\* Q.  An int16_t or int32_t that wraps inside, or a rounding off by one, would
\* give another residue for some of them.
ReductionsCongruent ==
    LET a == Int16(sample)
    IN  /\ barrett_reduce(a) \in Centered
        /\ Congruent(barrett_reduce(a), a)
        /\ \A c \in Factors :
              /\ montgomery_reduce(a * c) \in (1 - Q)..(Q - 1)
              /\ Congruent(montgomery_reduce(a * c) * 65536, a * c)

------------------------------------------------------------------------------
(* The transform *)

\* Of the products of X^i and X^(k - i), X^N is -1.
Negacyclic(a, b) ==
    Array(N, LAMBDA k :
       LET Term(i) == IF i <= k THEN a[i + 1] * b[k - i + 1] ELSE -(a[i + 1] * b[k - i + 1 + N])
           sum[i \in 0..N, n \in 0..N] ==   \* of n terms from i on
              IF n = 1 THEN Term(i) ELSE sum[i, n \div 2] + sum[i + n \div 2, n - n \div 2]
       IN  sum[0, N])

Residues(a) == Array(N, LAMBDA j : a[j + 1] % Q)

\* All coefficients extreme for s = 0, spread over Centered for others.
Spread(s) == Array(N, LAMBDA j : ((s * (j + 1) * (j + 1)) % Q) - ((Q - 1) \div 2))

\* ntt.c, poly.c: the inverse transform of the pointwise product of the
\* transforms of two polynomials is their product modulo X^N + 1.  It takes
\* every zeta at its place and its sign, and no int16_t wrapping in a layer.
NttMultiplies ==
    sample < 16 =>
        With(<<Spread(sample), Spread(sample + 1)>>, LAMBDA p :
           Residues(invntt(poly_basemul_montgomery(poly_ntt(p[1]), poly_ntt(p[2]))))
              = Residues(Negacyclic(p[1], p[2])))

------------------------------------------------------------------------------
(* Compression and packing *)

Rounded(x, d) == (((x % Q) * 2^d + (Q \div 2)) \div Q) % 2^d
Near(a, b, error) == \E e \in (-error)..error : Congruent(a, b + e)

\* poly.c, polyvec.c: the multiplications and shifts that stand for a division
\* by Q give, for every reduced coefficient, the quotient the commented formulas
\* give; decompression comes back as near as the scheme counts on, and a bit of
\* the message is read right whenever the noise is less than a quarter of Q.
CompressionRounds ==
    LET x == Int16(sample)
    IN  x \in Centered =>
           /\ Compressed5(x) = Rounded(x, 5)
           /\ Compressed11(x) = Rounded(x, 11)
           /\ Near(Decompressed5(Compressed5(x)), x, 52)
           /\ Near(Decompressed11(Compressed11(x)), x, 1)
           /\ Decided(x) = Rounded(x, 1)
           /\ (Decided(x) = 1) <=> (4 * x > Q \/ 4 * x < -Q)

\* Bit n of a sequence of numbers of d bits each, from 0 on.
BitOf(s, d, n) == (s[(n \div d) + 1] \div 2^(n % d)) % 2

\* n numbers of d bits that differ in each bit over the samples.
Numbers(n, d) == [i \in 1..n |-> (sample * (2 * i - 1) + 77 * i) % 2^d]

SameBits(s, d, bytes) ==
    \A n \in 0..(d * Len(s) - 1) : BitOf(s, d, n) = BitOf(bytes, 8, n)

\* poly.c, polyvec.c: packed numbers are their bits in order, none lost or
\* doubled where a number crosses a byte, and unpacking gives them back.
PackingInverts ==
    sample < 2^11 =>
        /\ SameBits(Numbers(8, 5), 5, Pack5(Numbers(8, 5)))
        /\ SameBits(Numbers(8, 11), 11, Pack11(Numbers(8, 11)))
        /\ SameBits(Numbers(2, 12), 12, Pack12(Numbers(2, 12)))
        /\ Unpack5(Pack5(Numbers(8, 5))) = Numbers(8, 5)
        /\ Unpack11(Pack11(Numbers(8, 11))) = Numbers(8, 11)
        /\ Unpack12(Pack12(Numbers(2, 12))) = Numbers(2, 12)

------------------------------------------------------------------------------
(* The sponge *)

\* n bytes.
Input(n) == [i \in 1..n |-> (7 * i) % 256]

\* The first cut bytes of the input and of the output apart from the others.
InTwo(r, cut, outlen, in) ==
    LET half == keccak_absorb(shake_init, r, SubSeq(in, 1, cut))
        absorbed == keccak_absorb(half, r, SubSeq(in, cut + 1, Len(in)))
        first == keccak_squeeze(<<>>, cut, shake_finalize(absorbed, r), r)
    IN  keccak_squeeze(first.out, outlen - cut, first.st, r).out

\* fips202.c: the incremental functions give what the one-shot ones give
\* wherever the input and the output are cut, also next to the end of a block,
\* where pos is about to be the rate.
SpongeIncremental ==
    \A r \in {SHAKE128_RATE, SHAKE256_RATE} :
       sample \in {0, 1, r - 1, r, r + 1} =>
          LET in == Input(2 * r)
          IN  InTwo(r, sample, r + 2, in) = shake(r, r + 2, in)

------------------------------------------------------------------------------

\* From sample 0 every 16-bit sample.
Resample == sample' \in {2 * sample, 2 * sample + 1} \cap 1..65535

Samples == sample = 0 /\ [][Resample]_sample

===============================================================================
