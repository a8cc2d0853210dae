---------------------------------- MODULE Kem ----------------------------------
(***************************************************************************)
(* The key encapsulation Kyber (src/engine/solver: indcpa.c, kem.c,        *)
(* verify.c), over Ring and Sponge.  polynomial.c makes a key pair and a   *)
(* ciphertext when a volume is created, and decapsulates when it is        *)
(* opened (VolumeKeys).                                                    *)
(*                                                                         *)
(* Keys, ciphertexts and secrets are sequences of bytes, cut at the        *)
(* offsets the code cuts them at.                                          *)
(***************************************************************************)
EXTENDS Ring, Sponge

LOCAL INSTANCE SequencesExt

ASSUME ScaleAssumption == N = 4 * W

POLYVECBYTES == K * POLYBYTES
POLYVECCOMPRESSEDBYTES == K * BLOCKBYTES
PUBLICKEYBYTES == POLYVECBYTES + SYMBYTES
SECRETKEYBYTES == POLYVECBYTES + PUBLICKEYBYTES + 2 * SYMBYTES

\* Bytes from an offset on.
Slice(s, offset, n) == SubSeq(s, offset + 1, offset + n)

------------------------------------------------------------------------------
(* indcpa.c *)

\* At most len coefficients.
rej_uniform(len, buf) ==
    LET accepted == SelectSeq(Blockwise(buf, 3, Unpack12), LAMBDA val : val < Q)
    IN  IF Len(accepted) <= len THEN accepted ELSE SubSeq(accepted, 1, len)

GEN_MATRIX_NBLOCKS == ((12 * N * 2^12) \div (8 * Q) + SHAKE128_RATE) \div SHAKE128_RATE

\* Mutant: the buffer is read before the next block is in it.
RECURSIVE Filled_early(_, _, _)
Filled_early(coeffs, buf, state) ==
    LET more == shake128_squeezeblocks(1, state)
    IN  IF Len(coeffs) = N THEN coeffs
        ELSE Filled_early(coeffs \o rej_uniform(N - Len(coeffs), buf), more.out, more.st)

\* The loop that squeezes a block more while coefficients are missing.
RECURSIVE Filled(_, _, _)
Filled(coeffs, buf, state) ==
    LET off == Len(buf) % 3
        more == shake128_squeezeblocks(1, state)
        next == SubSeq(buf, Len(buf) - off + 1, Len(buf)) \o more.out
    IN  IF Len(coeffs) = N THEN coeffs
        ELSE Filled(coeffs \o rej_uniform(N - Len(coeffs), next), next, more.st)

Uniform(seed, x, y) ==
    LET blocks == shake128_squeezeblocks(GEN_MATRIX_NBLOCKS, kyber_shake128_absorb(seed, x, y))
    IN  Filled(rej_uniform(N, blocks.out), blocks.out, blocks.st)

\* Mutant: the rows and columns of A in both.
gen_matrix_straight(seed, transposed) == Vector(LAMBDA i : Vector(LAMBDA j : Uniform(seed, j, i)))

gen_matrix(seed, transposed) ==
    Vector(LAMBDA i : Vector(LAMBDA j :
       IF transposed THEN Uniform(seed, i, j) ELSE Uniform(seed, j, i)))

poly_getnoise(seed, nonce) == cbd2(kyber_shake256_prf(N \div 2, seed, nonce))

Noise(seed, nonce) == Vector(LAMBDA i : poly_getnoise(seed, nonce + i))

indcpa_keypair(random) ==
    LET buf == hash_g(random)
        publicseed == Slice(buf, 0, SYMBYTES)
        noiseseed == Slice(buf, SYMBYTES, SYMBYTES)
        a == gen_matrix(publicseed, FALSE)
        skpv == polyvec_ntt(Noise(noiseseed, 0))
        e == polyvec_ntt(Noise(noiseseed, K))
        product == Vector(LAMBDA i : poly_tomont(polyvec_basemul_acc_montgomery(a[i + 1], skpv)))
        pkpv == polyvec_reduce(polyvec_add(product, e))
    IN  [pk |-> polyvec_tobytes(pkpv) \o publicseed, sk |-> polyvec_tobytes(skpv)]

indcpa_enc(m, pk, coins) ==
    LET pkpv == polyvec_frombytes(Slice(pk, 0, POLYVECBYTES))
        seed == Slice(pk, POLYVECBYTES, SYMBYTES)
        at == gen_matrix(seed, TRUE)
        sp == polyvec_ntt(Noise(coins, 0))
        ep == Noise(coins, K)
        epp == poly_getnoise(coins, 2 * K)
        b == polyvec_invntt_tomont(Vector(LAMBDA i : polyvec_basemul_acc_montgomery(at[i + 1], sp)))
        v == invntt(polyvec_basemul_acc_montgomery(pkpv, sp))
    IN  polyvec_compress(polyvec_reduce(polyvec_add(b, ep)))
        \o poly_compress(poly_reduce(poly_add(poly_add(v, epp), poly_frommsg(m))))

indcpa_dec(c, sk) ==
    LET b == polyvec_decompress(Slice(c, 0, POLYVECCOMPRESSEDBYTES))
        v == poly_decompress(Slice(c, POLYVECCOMPRESSEDBYTES, POLYCOMPRESSEDBYTES))
        skpv == polyvec_frombytes(sk)
        mp == invntt(polyvec_basemul_acc_montgomery(skpv, polyvec_ntt(b)))
    IN  poly_tomsg(poly_reduce(poly_sub(v, mp)))

------------------------------------------------------------------------------
(* verify.c, kem.c *)

verify(a, b) == IF a = b THEN 0 ELSE 1
cmov(r, x, b) == IF b = 1 THEN x ELSE r

\* random, z: what the two calls of randombytes give.
crypto_kem_keypair(random, z) ==
    LET pair == indcpa_keypair(random)
    IN  [pk |-> pair.pk, sk |-> pair.sk \o pair.pk \o hash_h(pair.pk) \o z]

\* Pre-key and coins.
PreKey(m, pkhash) == LET kr == hash_g(m \o pkhash)
                     IN  [key |-> Slice(kr, 0, SYMBYTES), coins |-> Slice(kr, SYMBYTES, SYMBYTES)]

crypto_kem_enc(pk, random) ==
    LET m == hash_h(random)
        kr == PreKey(m, hash_h(pk))
        ct == indcpa_enc(m, pk, kr.coins)
    IN  [ct |-> ct, ss |-> kdf(kr.key \o hash_h(ct))]

\* Mutant: the answer does not depend on the comparison.
crypto_kem_dec_accepts(ct, sk) ==
    LET kr == PreKey(indcpa_dec(ct, sk), Slice(sk, SECRETKEYBYTES - 2 * SYMBYTES, SYMBYTES))
    IN  kdf(kr.key \o hash_h(ct))

crypto_kem_dec(ct, sk) ==
    LET pk == Slice(sk, POLYVECBYTES, PUBLICKEYBYTES)
        m == indcpa_dec(ct, sk)
        kr == PreKey(m, Slice(sk, SECRETKEYBYTES - 2 * SYMBYTES, SYMBYTES))
        fail == verify(ct, indcpa_enc(m, pk, kr.coins))
        z == Slice(sk, SECRETKEYBYTES - SYMBYTES, SYMBYTES)
    IN  kdf(cmov(kr.key, z, fail) \o hash_h(ct))

===============================================================================
