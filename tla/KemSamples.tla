------------------------------- MODULE KemSamples -------------------------------
(***************************************************************************)
(* What the operators of Kem compute, for the first samples: an entry of   *)
(* the matrix.                                                             *)
(***************************************************************************)
EXTENDS Arithmetic, Kem

LOCAL INSTANCE SequencesExt

CONSTANT Seed

ASSUME SeedAssumption == Seed \in [1..SYMBYTES -> 0..255]

------------------------------------------------------------------------------
(* The matrix *)

\* Numbers of 12 bits from the stream, two from three bytes.
Candidates(stream) ==
    [c \in 1..(2 * (Len(stream) \div 3)) |->
       LET at == 3 * ((c - 1) \div 2) + 1
       IN  IF c % 2 = 1 THEN stream[at] + 256 * (stream[at + 1] % 16)
           ELSE (stream[at + 1] \div 16) + 16 * stream[at + 2]]

\* indcpa.c: entry i, j of the matrix is the first N candidates below Q of one
\* stream, no byte of it skipped or read twice, also where three blocks were not
\* enough and the buffer is filled again.
MatrixIsRejectionSampling ==
    sample < K * K =>
        LET i == sample \div K
            j == sample % K
            stream == shake(SHAKE128_RATE, 6 * SHAKE128_RATE, Seed \o <<j, i>>)
            accepted == SelectSeq(Candidates(stream), LAMBDA val : val < Q)
        IN  Uniform(Seed, j, i) = SubSeq(accepted, 1, N)

===============================================================================
