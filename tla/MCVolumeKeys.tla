------------------------------ MODULE MCVolumeKeys ------------------------------
(* The keys of a volume at the scale of the code, and beside its first state the  *)
(* samples of the pure functions.                                                 *)
EXTENDS VolumeKeys, KemSamples, TLC

\* Of 174 three entries of the matrix need a block more than GEN_MATRIX_NBLOCKS.
MCSeed == [i \in 1..SYMBYTES |-> 174]

Bytes(x) == [i \in 1..SYMBYTES |-> (x + 31 * i) % 256]

MCRandom ==
    {[salt |-> "salt", header_nonce |-> "header", wrap_nonce |-> "wrap",
      d |-> Bytes(3), z |-> Bytes(4), m |-> Bytes(5), x |-> "x448", eph |-> "ephemeral"]}

\* No sample is taken while there are keys.
None == 65536

MCSymmetry == Permutations(Password)

MCInit == Init /\ sample = None

MCNext == \/ sample = None /\ Next /\ UNCHANGED sample
          \/ sample = None /\ file = NoFile /\ sample' = 0 /\ UNCHANGED vars
          \/ sample # None /\ Resample /\ UNCHANGED vars

-------------------------------------------------------------------------------

\* kem.c: what was encapsulated for the keys of this instance is decapsulated with
\* them, as the proof about refusals assumes.  Of a ciphertext with one byte changed,
\* so little that it decrypts to the same message, the receiver takes a secret of its
\* own, made from z and the ciphertext that came ("On failure, ss will contain a
\* pseudo-random value").
ImplicitRejection ==
    /\ sample = 0 => KyberDecapsulates(Random)
    /\ sample \in {0, POLYVECCOMPRESSEDBYTES} =>
          \A pair \in {kem_keypair(Seed, Seed)} :
          \A sent \in {kem_enc(pair.pk, Seed)} :
             LET damaged == [sent.ct EXCEPT ![sample + 1] = (@ + 1) % 256]
             IN  \A ss \in {kem_dec(damaged, pair.sk)} :
                    /\ ss = kdf(Seed \o hash_h(damaged))
                    /\ ss # sent.ss

===============================================================================
