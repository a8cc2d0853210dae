--------------------------------- MODULE Sponge ---------------------------------
(***************************************************************************)
(* The Keccak sponge and the functions Kyber takes from it                 *)
(* (src/engine/solver/fips202.c, symmetric-shake.c), on sequences of       *)
(* bytes.  A lane is the set of its bits that are 1.                       *)
(*                                                                         *)
(* Lanes have W bits, the code's are of 64, and every length follows: the  *)
(* rates, the 32 bytes of a seed, the 256 coefficients of a polynomial.    *)
(***************************************************************************)
EXTENDS Arrays

LOCAL INSTANCE SequencesExt
LOCAL INSTANCE FiniteSetsExt

CONSTANTS W,        \* bits of a lane
          NROUNDS

ASSUME LaneAssumption == W \in {8, 16, 32, 64}
ASSUME RoundsAssumption == NROUNDS \in 1..24

SHAKE128_RATE == (21 * W) \div 8
SHAKE256_RATE == (17 * W) \div 8
SHA3_256_RATE == SHAKE256_RATE
SHA3_512_RATE == (9 * W) \div 8
SYMBYTES == W \div 2

------------------------------------------------------------------------------
(* The permutation *)

KeccakF_RoundConstants ==
    << {0}, {1, 7, 15}, {1, 3, 7, 15, 63}, {15, 31, 63}, {0, 1, 3, 7, 15}, {0, 31},
       {0, 7, 15, 31, 63}, {0, 3, 15, 63}, {1, 3, 7}, {3, 7}, {0, 3, 15, 31},
       {1, 3, 31}, {0, 1, 3, 7, 15, 31}, {0, 1, 3, 7, 63}, {0, 3, 7, 15, 63},
       {0, 1, 15, 63}, {1, 15, 63}, {7, 63}, {1, 3, 15}, {1, 3, 31, 63},
       {0, 7, 15, 31, 63}, {7, 15, 63}, {0, 31}, {3, 15, 31, 63} >>

\* Of lane x + 5 * y.
Rotation == << 0,  1, 62, 28, 27,   36, 44,  6, 55, 20,    3, 10, 43, 25, 39,
              41, 45, 15, 21,  8,   18,  2, 61, 56, 14 >>

Xor(a, b) == (a \ b) \cup (b \ a)
ROL(a, n) == {(i + n) % W : i \in a}

\* theta; rho and pi; chi and iota.
Round(s, constant) ==
    LET C == Array(5, LAMBDA x : Xor(Xor(Xor(s[x + 1], s[x + 6]), Xor(s[x + 11], s[x + 16])),
                                     s[x + 21]))
        D == Array(5, LAMBDA x : Xor(C[1 + ((x + 4) % 5)], ROL(C[1 + ((x + 1) % 5)], 1)))
        \* lane x + 5 * y goes to y + 5 * ((2 * x + 3 * y) % 5)
        B == Array(25, LAMBDA i :
                LET y == i % 5
                    x == (3 * ((i \div 5) + 2 * y)) % 5
                    from == x + 5 * y + 1
                IN  ROL(Xor(s[from], D[x + 1]), Rotation[from]))
        E == Array(25, LAMBDA i :
                LET row == 5 * (i \div 5)
                IN  Xor(B[i + 1], B[row + ((i + 2) % 5) + 1] \ B[row + ((i + 1) % 5) + 1]))
    IN  [E EXCEPT ![1] = Xor(@, {b \in constant : b < W})]

KeccakF1600_StatePermute(s) ==
    Loop(NROUNDS, s, LAMBDA t, i : Round(t, KeccakF_RoundConstants[i]))

------------------------------------------------------------------------------
(* The sponge *)

Bits(byte) == {b \in 0..7 : (byte \div 2^b) % 2 = 1}
Byte(bits) == FoldLeft(LAMBDA n, b : n + (IF b \in bits THEN 2^b ELSE 0), 0, [i \in 1..8 |-> i - 1])

LaneBytes == W \div 8

keccak_init == [i \in 1..25 |-> {}]

\* in is added to the bytes of the state from pos on.
Added(s, pos, in) ==
    Array(25, LAMBDA l :
       LET first == l * LaneBytes
           bytes == {i \in first..(first + LaneBytes - 1) : i >= pos /\ i < pos + Len(in)}
       IN  Xor(s[l + 1], UNION {{8 * (i - first) + b : b \in Bits(in[i - pos + 1])} : i \in bytes}))

\* Bytes pos to pos + n - 1 of the state.
Extracted(s, pos, n) ==
    Array(n, LAMBDA k :
       LET i == pos + k
           low == 8 * (i % LaneBytes)
       IN  Byte({b - low : b \in {c \in s[(i \div LaneBytes) + 1] : c >= low /\ c < low + 8}}))

Sponge(s, pos) == [s |-> s, pos |-> pos]

\* A block is filled with the first bytes of the input, and permuted.
AbsorbBlock(x, r) ==
    LET n == r - x.st.pos
    IN  [st |-> Sponge(KeccakF1600_StatePermute(Added(x.st.s, x.st.pos, SubSeq(x.in, 1, n))), 0),
         in |-> SubSeq(x.in, n + 1, Len(x.in))]

\* The sponge and the input that is left after n blocks.
Absorbed(st, r, in, n) == Loop(n, [st |-> st, in |-> in], LAMBDA x, i : AbsorbBlock(x, r))

\* Mutant: a block that is just full is not permuted.
keccak_absorb_late(st, r, in) ==
    LET total == st.pos + Len(in)
        x == Absorbed(st, r, in, IF total = 0 THEN 0 ELSE (total - 1) \div r)
    IN  Sponge(Added(x.st.s, x.st.pos, x.in), x.st.pos + Len(x.in))

keccak_absorb(st, r, in) ==
    LET x == Absorbed(st, r, in, (st.pos + Len(in)) \div r)
    IN  Sponge(Added(x.st.s, x.st.pos, x.in), x.st.pos + Len(x.in))

\* The domain p, and the last bit of the rate.
Padded(s, pos, r, p) == Added(Added(s, pos, <<p>>), r - 1, <<128>>)

keccak_finalize(st, r, p) == Sponge(Padded(st.s, st.pos, r, p), r)

\* What is left of a block, or of the next one.
SqueezeBlock(x, r) ==
    LET s == IF x.st.pos = r THEN KeccakF1600_StatePermute(x.st.s) ELSE x.st.s
        pos == IF x.st.pos = r THEN 0 ELSE x.st.pos
        n == IF x.left < r - pos THEN x.left ELSE r - pos
    IN  [out |-> x.out \o Extracted(s, pos, n), left |-> x.left - n, st |-> Sponge(s, pos + n)]

\* Blocks that outlen bytes from pos on are in.
BlocksOf(pos, outlen, r) ==
    IF outlen = 0 THEN 0 ELSE (((IF pos = r THEN 0 ELSE pos) + outlen - 1) \div r) + 1

keccak_squeeze(out, outlen, st, r) ==
    LET x == Loop(BlocksOf(st.pos, outlen, r), [out |-> out, left |-> outlen, st |-> st],
                  LAMBDA y, i : SqueezeBlock(y, r))
    IN  [out |-> x.out, st |-> x.st]

keccak_absorb_once(s, r, in, p) ==
    LET x == Absorbed(Sponge(s, 0), r, in, Len(in) \div r)
    IN  Padded(Added(x.st.s, 0, x.in), Len(x.in), r, p)

WholeBlock(x, r) ==
    With(KeccakF1600_StatePermute(x.st.s),
         LAMBDA s : [out |-> x.out \o Extracted(s, 0, r), st |-> Sponge(s, x.st.pos)])

keccak_squeezeblocks(out, nblocks, st, r) ==
    Loop(nblocks, [out |-> out, st |-> st], LAMBDA x, i : WholeBlock(x, r))

------------------------------------------------------------------------------
(* SHAKE and SHA3 *)

shake_init == Sponge(keccak_init, 0)
shake_absorb(st, r, in) == keccak_absorb(st, r, in)
shake_finalize(st, r) == keccak_finalize(st, r, 31)
shake_absorb_once(r, in) == Sponge(keccak_absorb_once(keccak_init, r, in, 31), r)

shake128_squeezeblocks(nblocks, st) == keccak_squeezeblocks(<<>>, nblocks, st, SHAKE128_RATE)

\* Whole blocks, then the rest.
shake(r, outlen, in) ==
    LET blocks == keccak_squeezeblocks(<<>>, outlen \div r, shake_absorb_once(r, in), r)
    IN  keccak_squeeze(blocks.out, outlen % r, blocks.st, r).out

shake256(outlen, in) == shake(SHAKE256_RATE, outlen, in)

sha3(r, n, in) == Extracted(KeccakF1600_StatePermute(keccak_absorb_once(keccak_init, r, in, 6)), 0, n)
sha3_256(in) == sha3(SHA3_256_RATE, SYMBYTES, in)
sha3_512(in) == sha3(SHA3_512_RATE, 2 * SYMBYTES, in)

kyber_shake128_absorb(seed, x, y) == shake_absorb_once(SHAKE128_RATE, seed \o <<x, y>>)
kyber_shake256_prf(outlen, key, nonce) == shake256(outlen, Append(key, nonce))

hash_h(in) == sha3_256(in)
hash_g(in) == sha3_512(in)
kdf(in) == shake256(SYMBYTES, in)

===============================================================================
