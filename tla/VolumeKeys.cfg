\* Lanes of 64 bits, 24 rounds, 256 coefficients and rank 4, as the code is built.
\* Nothing follows the last samples.
CONSTANTS
    W = 64
    NROUNDS = 24
    N = 256
    K = 4
    Seed <- MCSeed
    kem_keypair <- crypto_kem_keypair
    kem_enc <- crypto_kem_enc
    kem_dec <- crypto_kem_dec
    Password = {p, q}
    Random <- MCRandom
    METADATA = 2
    TOTAL = 3
INIT MCInit
NEXT MCNext
SYMMETRY MCSymmetry
CHECK_DEADLOCK FALSE
INVARIANTS
    TypeOK
    OpensTruly
    RefusedForCause
    ReductionsCongruent
    NttMultiplies
    CompressionRounds
    PackingInverts
    SpongeIncremental
    MatrixIsRejectionSampling
    ImplicitRejection
