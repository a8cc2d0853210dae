--------------------------- MODULE VolumeKeysProofs ---------------------------
(***************************************************************************)
(* Proofs about VolumeKeys, for any passwords, random bytes and sizes.     *)
(*                                                                         *)
(* Inv says what each step of volume_create hands to the next, as a        *)
(* function of the random bytes, the password and what failed silently;    *)
(* and that a header found in the file, whatever was cut short, is the     *)
(* one of such a creation.  OpensTruly follows without anything being      *)
(* assumed of Kyber.  That a good volume is not refused needs that Kyber   *)
(* decapsulates what it encapsulated.                                      *)
(***************************************************************************)
EXTENDS VolumeKeys, SequenceTheorems, TLAPS

------------------------------------------------------------------------------
(* What a creation makes of the random bytes r, when the failures s went unnoticed *)

Pair(r) == kem_keypair(r.d, r.z)
X448Pk(r, s) == IF "x448" \in s THEN "stack_pk" ELSE r.x
X448Sk(r, s) == IF "x448" \in s THEN "stack_sk" ELSE r.x

Encapsulated(r, s) == hybrid_encapsulate(Pair(r).pk, X448Pk(r, s), r.m, r.eph)
Secret(r, s) == Encapsulated(r, s).shared_secret

WrapCt(r, password, s) ==
    IF "wrap" \in s THEN Arbitrary
    ELSE Wrapped(<<Pair(r).sk, X448Sk(r, s)>>, MasterKey(password, r.salt, TRUE),
                 r.wrap_nonce, TRUE)

Fields4(r, password, s) ==
    Fields(r.wrap_nonce, WrapCt(r, password, s), Pair(r).pk, X448Pk(r, s),
           Encapsulated(r, s).kem_ct, VOLUME_VERSION)

Header4(r, password, s) ==
    Box("aes256gcm", MasterKey(password, r.salt, TRUE), r.header_nonce, "HEADER",
        <<KRAKKEN4_MAGIC>> \o Fields4(r, password, s))

Header3(r, password, version) ==
    LET key == MasterKey(password, r.salt, FALSE)
    IN  Box("xchacha20poly1305", HeaderKey(key), r.header_nonce, "",
            Fields(r.wrap_nonce, Wrapped(<<Pair(r).sk, r.x>>, key, r.wrap_nonce, FALSE),
                   Pair(r).pk, r.x, Encapsulated(r, {}).kem_ct, version))

------------------------------------------------------------------------------
(* The inductive invariant *)

\* The locals of volume_create.
MakingOK ==
    /\ making.pc \in {"idle", "keypair", "wrap", "encapsulate", "header", "sectors"}
    /\ making.pc # "idle" => volume = Closed /\ made.version = VOLUME_VERSION
    /\ making.pc \in {"keypair", "wrap", "encapsulate", "header"} =>
          /\ making.r \in Random /\ "header" \notin made.silent
          /\ file.salt = making.r.salt /\ file.nonce = making.r.header_nonce
          /\ file.header = Arbitrary /\ file.sectors = 0
          /\ making.master_key = MasterKey(made.password, making.r.salt, TRUE)
    /\ making.pc = "keypair" => made.silent = {}
    /\ making.pc = "wrap" =>
          /\ "wrap" \notin made.silent
          /\ making.hybrid_sk = <<Pair(making.r).sk, X448Sk(making.r, made.silent)>>
    /\ making.pc = "encapsulate" =>
          making.wrap_ct = WrapCt(making.r, made.password, made.silent)
    /\ making.pc \in {"wrap", "encapsulate"} =>
          /\ making.kyber_pk = Pair(making.r).pk
          /\ making.x448_pk = X448Pk(making.r, made.silent)
    /\ making.pc = "header" =>
          /\ making.file_key = Secret(making.r, made.silent)
          /\ making.fields = Fields4(making.r, made.password, made.silent)
    /\ making.pc = "sectors" =>
          /\ file.sectors > 0 => file.key = making.file_key
          /\ made.silent = {} => file.header # Arbitrary

\* The header in the file is the one a creation made of r.
HeaderOf(r) ==
    /\ file.salt = r.salt /\ file.nonce = r.header_nonce /\ "header" \notin made.silent
    /\ \/ /\ file.header = Header4(r, made.password, made.silent)
          /\ made.version = VOLUME_VERSION
          /\ making.pc = "sectors" => making.file_key = Secret(r, made.silent)
          /\ file.sectors > 0 => file.key = Secret(r, made.silent)
       \/ /\ file.header = Header3(r, made.password, made.version)
          /\ made.version \in {1, 2, 3} /\ made.silent = {}
          /\ making.pc = "idle" /\ file.key = Secret(r, {})

FileOK ==
    /\ DOMAIN file = {"salt", "nonce", "header", "key", "sectors"}
    /\ file.sectors \in 0..TOTAL
    /\ file.header # Arbitrary => \E r \in Random : HeaderOf(r)

\* What volume_create answered.
AnswerOK ==
    /\ DOMAIN made = {"password", "version", "answer", "silent"}
    /\ made.silent \subseteq {"x448", "wrap", "header"}
    /\ made.answer \in {"none", "ok", "failed"}
    /\ making.pc = "idle" => made.answer # "none"
    /\ made.answer = "ok" => /\ making.pc = "idle" /\ file.sectors = TOTAL
                             /\ made.silent = {} => file.header # Arbitrary

VolumeOK ==
    /\ volume.state \in {"closed", "open", "refused"}
    /\ "file_key" \in DOMAIN volume <=> volume.state = "open"

Inv == MakingOK /\ FileOK /\ AnswerOK /\ VolumeOK /\ OpensTruly

------------------------------------------------------------------------------
(* The headers *)

LEMMA Prefixed ==
    ASSUME NEW a, NEW b, NEW c, NEW d, NEW e, NEW f
    PROVE  LET t == <<KRAKKEN4_MAGIC>> \o Fields(a, b, c, d, e, f)
           IN  /\ Len(t) = 7 /\ t[1] = KRAKKEN4_MAGIC
               /\ t[2] = a /\ t[3] = b /\ t[4] = c /\ t[5] = d /\ t[6] = e /\ t[7] = f
<1> DEFINE S == {KRAKKEN4_MAGIC, a, b, c, d, e, f}
           m == <<KRAKKEN4_MAGIC>>
           s == <<a, b, c, d, e, f>>
<1>1. m \in Seq(S) /\ s \in Seq(S) /\ Len(m) = 1 /\ Len(s) = 6
  OBVIOUS
<1>2. /\ m[1] = KRAKKEN4_MAGIC
      /\ s[1] = a /\ s[2] = b /\ s[3] = c /\ s[4] = d /\ s[5] = e /\ s[6] = f
  OBVIOUS
<1> HIDE DEF m, s, S
<1>3. /\ Len(m \o s) = 7
      /\ \A i \in 1..(Len(m) + Len(s)) :
            (m \o s)[i] = IF i <= Len(m) THEN m[i] ELSE s[i - Len(m)]
  <2>1. /\ Len(m \o s) = Len(m) + Len(s)
        /\ \A i \in 1..(Len(m) + Len(s)) :
              (m \o s)[i] = IF i <= Len(m) THEN m[i] ELSE s[i - Len(m)]
    BY <1>1, ConcatProperties
  <2> QED
    BY <1>1, <2>1
<1>4. /\ (m \o s)[1] = m[1] /\ (m \o s)[2] = s[1] /\ (m \o s)[3] = s[2] /\ (m \o s)[4] = s[3]
      /\ (m \o s)[5] = s[4] /\ (m \o s)[6] = s[5] /\ (m \o s)[7] = s[6]
  BY <1>1, <1>3
<1>5. LET t == m \o s
      IN  /\ Len(t) = 7 /\ t[1] = KRAKKEN4_MAGIC
          /\ t[2] = a /\ t[3] = b /\ t[4] = c /\ t[5] = d /\ t[6] = e /\ t[7] = f
  BY <1>2, <1>3, <1>4
<1> QED
  BY <1>5 DEF m, s, Fields

\* The key of a password, in either format, is of no other password.
LEMMA MasterKeyInjective ==
    ASSUME NEW p, NEW q, NEW salt, NEW v \in BOOLEAN,
           MasterKey(p, salt, v) = MasterKey(q, salt, v)
    PROVE  p = q
BY DEF MasterKey, Argon2

\* What is read of a header.
IsHeader4(h, r, p, s) ==
    /\ h # Arbitrary /\ h.alg = "aes256gcm" /\ h.key = MasterKey(p, r.salt, TRUE)
    /\ h.nonce = r.header_nonce /\ h.aad = "HEADER" /\ Len(h.plain) = 7
    /\ h.plain[1] = KRAKKEN4_MAGIC /\ h.plain[2] = r.wrap_nonce
    /\ h.plain[3] = WrapCt(r, p, s) /\ h.plain[6] = Encapsulated(r, s).kem_ct
    /\ h.plain[7] = 4

IsHeader3(h, r, p, version) ==
    LET key == MasterKey(p, r.salt, FALSE)
    IN  /\ h # Arbitrary /\ h.alg = "xchacha20poly1305" /\ h.key = HeaderKey(key)
        /\ h.nonce = r.header_nonce /\ h.aad = "" /\ Len(h.plain) = 6
        /\ h.plain[1] = r.wrap_nonce
        /\ h.plain[2] = Wrapped(<<Pair(r).sk, r.x>>, key, r.wrap_nonce, FALSE)
        /\ h.plain[5] = Encapsulated(r, {}).kem_ct /\ h.plain[6] = version

LEMMA Header4Is ==
    ASSUME NEW r, NEW p, NEW s, NEW h, h = Header4(r, p, s)
    PROVE  IsHeader4(h, r, p, s)
BY Prefixed DEF IsHeader4, Header4, Box, Arbitrary, Fields4, VOLUME_VERSION

LEMMA Header3Is ==
    ASSUME NEW r, NEW p, NEW version, NEW h, h = Header3(r, p, version)
    PROVE  IsHeader3(h, r, p, version)
BY DEF IsHeader3, Header3, Box, Arbitrary, Fields

\* Where the two halves of an X448 pair do not belong together, the two sides of
\* the exchange do not agree, whatever Kyber does.
LEMMA SecretNeedsX448 ==
    ASSUME NEW r, NEW s, NEW sk,
           hybrid_decapsulate(Encapsulated(r, s).kem_ct, <<sk, X448Sk(r, s)>>) = Secret(r, s)
    PROVE  "x448" \notin s
<1> SUFFICES ASSUME "x448" \in s
             PROVE  FALSE
  OBVIOUS
<1>1. X448Sk(r, s) = "stack_sk" /\ X448Pk(r, s) = "stack_pk"
  BY DEF X448Sk, X448Pk
<1>2. X448("stack_sk", r.eph) = X448(r.eph, "stack_pk")
  BY <1>1 DEF hybrid_decapsulate, Encapsulated, hybrid_encapsulate, Secret, Hash
<1> QED
  BY <1>2 DEF X448

LEMMA SecretRecovered ==
    ASSUME KyberDecapsulates(Random), NEW r \in Random
    PROVE  hybrid_decapsulate(Encapsulated(r, {}).kem_ct, <<Pair(r).sk, r.x>>) = Secret(r, {})
<1>1. kem_dec(kem_enc(Pair(r).pk, r.m).ct, Pair(r).sk) = kem_enc(Pair(r).pk, r.m).ss
  BY DEF KyberDecapsulates, Pair
<1>2. X448(r.x, r.eph) = X448(r.eph, r.x)
  BY DEF X448
<1> QED
  BY <1>1, <1>2 DEF hybrid_decapsulate, Encapsulated, hybrid_encapsulate, Secret, X448Pk

------------------------------------------------------------------------------
(* The invariant is established, and kept by what makes a volume *)

LEMMA InitInv ==
    Init => Inv
<1> SUFFICES ASSUME Init PROVE Inv
  OBVIOUS
<1>1. MakingOK
  BY DEF Init, MakingOK, Idle
<1>2. FileOK
  <2>1. /\ DOMAIN file = {"salt", "nonce", "header", "key", "sectors"}
        /\ file.sectors = 0 /\ file.header = Arbitrary
    BY DEF Init, NoFile
  <2> QED
    BY <2>1, SectorsAssumption DEF FileOK
<1>3. AnswerOK
  BY DEF Init, AnswerOK, Made, Idle
<1>4. VolumeOK /\ OpensTruly
  BY DEF Init, VolumeOK, OpensTruly, Closed
<1> QED
  BY <1>1, <1>2, <1>3, <1>4 DEF Inv

\* While nothing is open the last two conjuncts say nothing.
LEMMA ClosedSuffices ==
    ASSUME volume' = Closed
    PROVE  VolumeOK' /\ OpensTruly'
BY DEF VolumeOK, OpensTruly, Closed

LEMMA EarlierReleaseInv ==
    ASSUME Inv, NEW p \in Password, NEW r \in Random, EarlierRelease(p, r)
    PROVE  Inv'
<1>1. PICK version \in {1, 2, 3} :
         /\ file' = [salt |-> r.salt, nonce |-> r.header_nonce,
                     header |-> Header3(r, p, version),
                     key |-> Secret(r, {}), sectors |-> TOTAL]
         /\ made' = [Made(p, version) EXCEPT !.answer = "ok"]
  BY DEF EarlierRelease, Header3, Secret, Encapsulated, Pair, X448Pk
<1>2. /\ made'.password = p /\ made'.version = version /\ made'.answer = "ok"
      /\ made'.silent = {} /\ DOMAIN made' = {"password", "version", "answer", "silent"}
  BY <1>1 DEF Made
<1>3. making' = making /\ making.pc = "idle" /\ volume' = volume /\ volume = Closed
  BY DEF EarlierRelease, Running
<1>4. MakingOK'
  BY <1>3 DEF MakingOK
<1>5. FileOK'
  <2>1. HeaderOf(r)'
    BY <1>1, <1>2, <1>3 DEF HeaderOf
  <2> QED
    BY <1>1, <2>1, SectorsAssumption DEF FileOK
<1>6. AnswerOK'
  <2>1. Header3(r, p, version) # Arbitrary
    BY DEF Header3, Box, Arbitrary
  <2> QED
    BY <1>1, <1>2, <1>3, <2>1 DEF AnswerOK
<1> QED
  BY <1>3, <1>4, <1>5, <1>6, ClosedSuffices DEF Inv

LEMMA volume_createInv ==
    ASSUME Inv, NEW p \in Password, NEW r \in Random, volume_create(p, r)
    PROVE  Inv'
<1>1. /\ file'.salt = r.salt /\ file'.nonce = r.header_nonce /\ file'.header = Arbitrary
      /\ file'.sectors = 0 /\ DOMAIN file' = {"salt", "nonce", "header", "key", "sectors"}
  BY DEF volume_create, NoFile
<1>2. volume' = volume /\ volume = Closed
  BY DEF volume_create
<1>3. FileOK'
  BY <1>1, SectorsAssumption DEF FileOK
<1>4. CASE /\ making' = [pc |-> "keypair", r |-> r, master_key |-> MasterKey(p, r.salt, TRUE)]
           /\ made' = Made(p, VOLUME_VERSION)
  <2>1. /\ made'.password = p /\ made'.version = VOLUME_VERSION /\ made'.silent = {}
        /\ made'.answer = "none" /\ DOMAIN made' = {"password", "version", "answer", "silent"}
    BY <1>4 DEF Made
  <2>2. making'.pc = "keypair" /\ making'.r = r /\ making'.master_key = MasterKey(p, r.salt, TRUE)
    BY <1>4
  <2>3. MakingOK'
    BY <1>1, <1>2, <2>1, <2>2 DEF MakingOK
  <2>4. AnswerOK'
    BY <2>1, <2>2 DEF AnswerOK
  <2> QED
    BY <1>2, <1>3, <2>3, <2>4, ClosedSuffices DEF Inv
<1>5. CASE /\ making' = Idle
           /\ made' = [Made(p, VOLUME_VERSION) EXCEPT !.answer = "failed"]
  <2>1. /\ made'.silent = {} /\ made'.answer = "failed"
        /\ DOMAIN made' = {"password", "version", "answer", "silent"}
    BY <1>5 DEF Made
  <2>2. making'.pc = "idle"
    BY <1>5 DEF Idle
  <2>3. MakingOK'
    BY <2>2 DEF MakingOK
  <2>4. AnswerOK'
    BY <2>1, <2>2 DEF AnswerOK
  <2> QED
    BY <1>2, <1>3, <2>3, <2>4, ClosedSuffices DEF Inv
<1> QED
  BY <1>4, <1>5 DEF volume_create

LEMMA generate_hybrid_keypairInv ==
    ASSUME Inv, generate_hybrid_keypair
    PROVE  Inv'
<1> DEFINE r == making.r
           s == made'.silent
<1>1. making.pc = "keypair" /\ file' = file /\ volume' = volume /\ volume = Closed
  BY DEF generate_hybrid_keypair, Running, Inv, MakingOK
<1>2. /\ r \in Random /\ made.silent = {} /\ file.salt = r.salt /\ file.nonce = r.header_nonce
      /\ file.header = Arbitrary /\ file.sectors = 0 /\ made.version = VOLUME_VERSION
      /\ making.master_key = MasterKey(made.password, r.salt, TRUE)
  BY <1>1 DEF Inv, MakingOK
<1>3. /\ made'.password = made.password /\ made'.version = made.version
      /\ made'.answer = made.answer /\ s \subseteq {"x448"} /\ DOMAIN made' = DOMAIN made
      /\ making' = [pc |-> "wrap", r |-> r, master_key |-> making.master_key,
                    kyber_pk |-> Pair(r).pk, x448_pk |-> X448Pk(r, s),
                    hybrid_sk |-> <<Pair(r).sk, X448Sk(r, s)>>]
  <2>1. DOMAIN made = {"password", "version", "answer", "silent"}
    BY DEF Inv, AnswerOK
  <2> QED
    BY <1>2, <2>1 DEF generate_hybrid_keypair, Pair, X448Pk, X448Sk
<1>4. MakingOK'
  <2> HIDE DEF r, s
  <2>1. /\ making'.pc = "wrap" /\ making'.r = r /\ making'.master_key = making.master_key
        /\ making'.kyber_pk = Pair(r).pk /\ making'.x448_pk = X448Pk(r, s)
        /\ making'.hybrid_sk = <<Pair(r).sk, X448Sk(r, s)>>
    BY <1>3
  <2> QED
    BY <1>1, <1>2, <1>3, <2>1 DEF MakingOK, s
<1>5. FileOK'
  BY <1>1, <1>2 DEF FileOK, Inv
<1>6. AnswerOK'
  BY <1>1, <1>3 DEF AnswerOK, Inv
<1> QED
  BY <1>1, <1>4, <1>5, <1>6, ClosedSuffices DEF Inv

LEMMA wrap_hybrid_skInv ==
    ASSUME Inv, wrap_hybrid_sk
    PROVE  Inv'
<1> DEFINE r == making.r
           s == made'.silent
<1>1. making.pc = "wrap" /\ file' = file /\ volume' = volume /\ volume = Closed
  BY DEF wrap_hybrid_sk, Running, Inv, MakingOK
<1>2. /\ r \in Random /\ file.salt = r.salt /\ file.nonce = r.header_nonce
      /\ "header" \notin made.silent /\ "wrap" \notin made.silent
      /\ file.header = Arbitrary /\ file.sectors = 0 /\ made.version = VOLUME_VERSION
      /\ making.master_key = MasterKey(made.password, r.salt, TRUE)
      /\ making.hybrid_sk = <<Pair(r).sk, X448Sk(r, made.silent)>>
      /\ making.kyber_pk = Pair(r).pk /\ making.x448_pk = X448Pk(r, made.silent)
  BY <1>1 DEF Inv, MakingOK
<1>3. /\ made'.password = made.password /\ made'.version = made.version
      /\ made'.answer = made.answer /\ DOMAIN made' = DOMAIN made
      /\ s \subseteq {"x448", "wrap", "header"} /\ "header" \notin s
      /\ "x448" \in s <=> "x448" \in made.silent
      /\ making' = [pc |-> "encapsulate", r |-> r, master_key |-> making.master_key,
                    kyber_pk |-> making.kyber_pk, x448_pk |-> making.x448_pk,
                    wrap_ct |-> WrapCt(r, made.password, s)]
  <2>1. /\ DOMAIN made = {"password", "version", "answer", "silent"}
        /\ made.silent \subseteq {"x448", "wrap", "header"}
    BY DEF Inv, AnswerOK
  <2>2. CASE made' = made
    BY <1>2, <2>1, <2>2 DEF wrap_hybrid_sk, WrapCt, Arbitrary, Wrapped, Box
  <2>3. CASE made' = [made EXCEPT !.silent = @ \cup {"wrap"}]
    BY <1>2, <2>1, <2>3 DEF wrap_hybrid_sk, WrapCt, Arbitrary, Wrapped, Box
  <2> QED
    BY <2>2, <2>3 DEF wrap_hybrid_sk
<1>4. MakingOK'
  <2>1. X448Pk(r, s) = X448Pk(r, made.silent)
    BY <1>3 DEF X448Pk
  <2> HIDE DEF r, s
  <2>2. /\ making'.pc = "encapsulate" /\ making'.r = r
        /\ making'.master_key = making.master_key
        /\ making'.kyber_pk = making.kyber_pk /\ making'.x448_pk = making.x448_pk
        /\ making'.wrap_ct = WrapCt(r, made.password, s)
    BY <1>3
  <2> QED
    BY <1>1, <1>2, <1>3, <2>1, <2>2 DEF MakingOK, s
<1>5. FileOK'
  BY <1>1, <1>2 DEF FileOK, Inv
<1>6. AnswerOK'
  BY <1>1, <1>3 DEF AnswerOK, Inv
<1> QED
  BY <1>1, <1>4, <1>5, <1>6, ClosedSuffices DEF Inv

\* A failure, noticed: volume_create answers -1 and leaves what is in the file.
LEMMA FailedIs ==
    ASSUME Inv, Failed
    PROVE  /\ making'.pc = "idle" /\ made'.answer = "failed"
           /\ DOMAIN made' = {"password", "version", "answer", "silent"}
           /\ made'.silent = made.silent /\ made'.version = made.version
           /\ made'.password = made.password
BY DEF Inv, AnswerOK, Failed, Idle

LEMMA FailedInv ==
    ASSUME Inv, Failed, volume' = Closed, FileOK'
    PROVE  Inv'
<1>1. MakingOK'
  BY FailedIs DEF MakingOK
<1>2. AnswerOK'
  BY FailedIs DEF AnswerOK, Inv
<1> QED
  BY <1>1, <1>2, ClosedSuffices DEF Inv

LEMMA FailedKeepsHeader ==
    ASSUME Inv, Failed, file' = file, NEW r, HeaderOf(r)
    PROVE  HeaderOf(r)'
BY FailedIs DEF HeaderOf

LEMMA encapsulate_file_keyInv ==
    ASSUME Inv, encapsulate_file_key
    PROVE  Inv'
<1> DEFINE r == making.r
           s == made.silent
<1>1. making.pc = "encapsulate" /\ file' = file /\ volume' = volume /\ volume = Closed
  BY DEF encapsulate_file_key, Running, Inv, MakingOK
<1>2. /\ r \in Random /\ file.salt = r.salt /\ file.nonce = r.header_nonce
      /\ "header" \notin s
      /\ file.header = Arbitrary /\ file.sectors = 0 /\ made.version = VOLUME_VERSION
      /\ making.master_key = MasterKey(made.password, r.salt, TRUE)
      /\ making.wrap_ct = WrapCt(r, made.password, s)
      /\ making.kyber_pk = Pair(r).pk /\ making.x448_pk = X448Pk(r, s)
  BY <1>1 DEF Inv, MakingOK
<1>3. FileOK'
  BY <1>1, <1>2 DEF FileOK, Inv
<1>4. CASE /\ making' = [pc |-> "header", r |-> r, master_key |-> making.master_key,
                         file_key |-> Secret(r, s), fields |-> Fields4(r, made.password, s)]
           /\ made' = made
  <2> HIDE DEF r, s
  <2>1. /\ making'.pc = "header" /\ making'.r = r
        /\ making'.master_key = making.master_key
        /\ making'.file_key = Secret(r, s) /\ making'.fields = Fields4(r, made.password, s)
    BY <1>4
  <2>2. MakingOK'
    BY <1>1, <1>2, <1>4, <2>1 DEF MakingOK, s
  <2>3. AnswerOK'
    BY <1>1, <1>4, <2>1 DEF AnswerOK, Inv
  <2> QED
    BY <1>1, <1>3, <2>2, <2>3, ClosedSuffices DEF Inv
<1>5. CASE Failed
  BY <1>1, <1>3, <1>5, FailedInv
<1> QED
  BY <1>2, <1>4, <1>5
     DEF encapsulate_file_key, Secret, Encapsulated, Fields4

LEMMA write_headerInv ==
    ASSUME Inv, write_header
    PROVE  Inv'
<1> DEFINE s == made.silent
<1>1. making.pc = "header" /\ volume' = volume /\ volume = Closed
  BY DEF write_header, Running, Inv, MakingOK
<1> PICK r \in Random : r = making.r
  BY <1>1 DEF Inv, MakingOK
<1>2. /\ r = making.r /\ file.salt = r.salt /\ file.nonce = r.header_nonce
      /\ "header" \notin s
      /\ file.header = Arbitrary /\ file.sectors = 0 /\ made.version = VOLUME_VERSION
      /\ making.master_key = MasterKey(made.password, r.salt, TRUE)
      /\ making.file_key = Secret(r, s) /\ making.fields = Fields4(r, made.password, s)
  BY <1>1 DEF Inv, MakingOK
<1>3. DOMAIN file = {"salt", "nonce", "header", "key", "sectors"}
  BY DEF Inv, FileOK
<1>4. /\ DOMAIN made = {"password", "version", "answer", "silent"}
      /\ s \subseteq {"x448", "wrap", "header"} /\ made.answer # "ok"
      /\ made.answer \in {"none", "ok", "failed"}
  BY <1>1 DEF Inv, AnswerOK
<1>5. CASE /\ making' = [pc |-> "sectors", file_key |-> making.file_key]
           /\ file' = [file EXCEPT !.header = Header4(r, made.password, s)]
           /\ made' = made
  <2> HIDE DEF s
  <2>1. making'.pc = "sectors" /\ making'.file_key = Secret(r, s)
    BY <1>2, <1>5
  <2>2. /\ DOMAIN file' = DOMAIN file /\ file'.salt = r.salt /\ file'.nonce = r.header_nonce
        /\ file'.sectors = 0 /\ file'.header = Header4(r, made.password, s)
    BY <1>2, <1>3, <1>5
  <2>3. Header4(r, made.password, s) # Arbitrary
    BY DEF Header4, Box, Arbitrary
  <2>4. MakingOK'
    BY <1>1, <1>2, <1>5, <2>1, <2>2, <2>3 DEF MakingOK
  <2>5. HeaderOf(r)'
    BY <1>2, <1>5, <2>1, <2>2 DEF HeaderOf, s
  <2>6. FileOK'
    BY <1>2, <1>3, <2>2, <2>5, SectorsAssumption DEF FileOK
  <2>7. AnswerOK'
    BY <1>4, <1>5, <2>1 DEF AnswerOK, s
  <2> QED
    BY <1>1, <2>4, <2>6, <2>7, ClosedSuffices DEF Inv
<1>6. CASE /\ making' = [pc |-> "sectors", file_key |-> making.file_key]
           /\ made' = [made EXCEPT !.silent = @ \cup {"header"}]
           /\ file' = file
  <2>1. making'.pc = "sectors"
    BY <1>6
  <2>2. /\ DOMAIN made' = DOMAIN made /\ made'.silent = s \cup {"header"}
        /\ made'.answer = made.answer /\ made'.version = made.version
    BY <1>4, <1>6
  <2> HIDE DEF s
  <2>3. MakingOK'
    BY <1>1, <1>2, <1>6, <2>1, <2>2 DEF MakingOK
  <2>4. FileOK'
    BY <1>2, <1>3, <1>6, SectorsAssumption DEF FileOK
  <2>5. AnswerOK'
    BY <1>4, <2>1, <2>2 DEF AnswerOK
  <2> QED
    BY <1>1, <2>3, <2>4, <2>5, ClosedSuffices DEF Inv
<1>7. CASE Failed /\ file' = file
  <2>1. FileOK'
    BY <1>2, <1>3, <1>7, SectorsAssumption DEF FileOK
  <2> QED
    BY <1>1, <1>7, <2>1, FailedInv
<1> QED
  BY <1>2, <1>5, <1>6, <1>7 DEF write_header, Header4

LEMMA encrypt_sectorInv ==
    ASSUME Inv, encrypt_sector
    PROVE  Inv'
<1>1. /\ making.pc = "sectors" /\ volume' = volume /\ volume = Closed
      /\ file.sectors < TOTAL /\ made.version = VOLUME_VERSION
  BY DEF encrypt_sector, Running, Inv, MakingOK
<1>2. /\ file.sectors > 0 => file.key = making.file_key
      /\ made.silent = {} => file.header # Arbitrary
  BY <1>1 DEF Inv, MakingOK
<1>3. /\ DOMAIN file = {"salt", "nonce", "header", "key", "sectors"}
      /\ file.sectors \in 0..TOTAL
      /\ file.header # Arbitrary => \E r \in Random : HeaderOf(r)
  BY DEF Inv, FileOK
<1>4. CASE /\ file' = [file EXCEPT !.key = making.file_key, !.sectors = @ + 1]
           /\ making' = making /\ made' = made
  <2>1. /\ DOMAIN file' = DOMAIN file /\ file'.salt = file.salt /\ file'.nonce = file.nonce
        /\ file'.header = file.header /\ file'.key = making.file_key
        /\ file'.sectors = file.sectors + 1
    BY <1>3, <1>4
  <2>2. MakingOK'
    BY <1>1, <1>2, <1>4, <2>1 DEF MakingOK
  <2>3. ASSUME NEW r \in Random, HeaderOf(r)
        PROVE  HeaderOf(r)'
    BY <1>1, <1>4, <2>1, <2>3 DEF HeaderOf
  <2>4. FileOK'
    BY <1>1, <1>3, <2>1, <2>3, SectorsAssumption DEF FileOK
  <2>5. AnswerOK'
    BY <1>1, <1>4 DEF AnswerOK, Inv
  <2> QED
    BY <1>1, <2>2, <2>4, <2>5, ClosedSuffices DEF Inv
<1>5. CASE Failed /\ file' = file
  <2>1. FileOK'
    BY <1>3, <1>5, FailedKeepsHeader DEF FileOK, Inv
  <2> QED
    BY <1>1, <1>5, <2>1, FailedInv
<1> QED
  BY <1>4, <1>5 DEF encrypt_sector

LEMMA volume_createdInv ==
    ASSUME Inv, volume_created
    PROVE  Inv'
<1>1. /\ making.pc = "sectors" /\ volume' = volume /\ volume = Closed /\ file' = file
      /\ file.sectors = TOTAL
  BY DEF volume_created, Running, Inv, MakingOK
<1>2. CASE making' = Idle /\ made' = [made EXCEPT !.answer = "ok"]
  <2>1. made.silent = {} => file.header # Arbitrary
    BY <1>1 DEF Inv, MakingOK
  <2>2. /\ DOMAIN made = {"password", "version", "answer", "silent"}
        /\ made.silent \subseteq {"x448", "wrap", "header"}
    BY DEF Inv, AnswerOK
  <2>3. /\ making'.pc = "idle" /\ DOMAIN made' = DOMAIN made /\ made'.answer = "ok"
        /\ made'.silent = made.silent /\ made'.version = made.version
        /\ made'.password = made.password
    BY <1>2, <2>2 DEF Idle
  <2>4. MakingOK'
    BY <2>3 DEF MakingOK
  <2>5. ASSUME NEW r \in Random, HeaderOf(r)
        PROVE  HeaderOf(r)'
    BY <1>1, <2>3, <2>5 DEF HeaderOf
  <2>6. FileOK'
    BY <1>1, <2>5 DEF FileOK, Inv
  <2>7. AnswerOK'
    BY <1>1, <2>1, <2>2, <2>3 DEF AnswerOK
  <2> QED
    BY <1>1, <2>4, <2>6, <2>7, ClosedSuffices DEF Inv
<1>3. CASE Failed
  <2>1. FileOK'
    BY <1>1, <1>3, FailedKeepsHeader DEF FileOK, Inv
  <2> QED
    BY <1>1, <1>3, <2>1, FailedInv
<1> QED
  BY <1>2, <1>3 DEF volume_created

LEMMA CrashInv ==
    ASSUME Inv, Crash
    PROVE  Inv'
<1>1. /\ making.pc # "idle" /\ volume' = volume /\ volume = Closed
      /\ made.version = VOLUME_VERSION
  BY DEF Crash, Running, Inv, MakingOK
<1>2. PICK header \in {Arbitrary, file.header}, sectors \in 0..file.sectors :
         file' = [file EXCEPT !.header = header, !.sectors = sectors]
  BY DEF Crash
<1>3. /\ DOMAIN file = {"salt", "nonce", "header", "key", "sectors"}
      /\ file.sectors \in 0..TOTAL
      /\ file.header # Arbitrary => \E r \in Random : HeaderOf(r)
  BY DEF Inv, FileOK
<1>4. /\ DOMAIN file' = DOMAIN file /\ file'.salt = file.salt /\ file'.nonce = file.nonce
      /\ file'.key = file.key /\ file'.header \in {Arbitrary, file.header}
      /\ file'.sectors \in 0..file.sectors
  BY <1>2, <1>3
<1>5. Failed
  BY DEF Crash, Failed
<1>6. making'.pc = "idle" /\ made'.silent = made.silent /\ made'.version = made.version
      /\ made'.password = made.password
  BY <1>5, FailedIs
<1>7. ASSUME NEW r \in Random, HeaderOf(r), file'.header = file.header
      PROVE  HeaderOf(r)'
  BY <1>1, <1>3, <1>4, <1>6, <1>7, SectorsAssumption DEF HeaderOf
<1>8. FileOK'
  BY <1>3, <1>4, <1>7, SectorsAssumption DEF FileOK
<1> QED
  BY <1>1, <1>5, <1>8, FailedInv

------------------------------------------------------------------------------
(* What volume_open finds *)

LEMMA V4IsOfItsPassword ==
    ASSUME Inv, NEW p, is_v4(MasterKey(p, file.salt, TRUE))
    PROVE  /\ p = made.password /\ made.version = VOLUME_VERSION
           /\ \E r \in Random : /\ HeaderOf(r)
                               /\ IsHeader4(file.header, r, made.password, made.silent)
<1>1. /\ file.header # Arbitrary /\ file.header.alg = "aes256gcm"
      /\ file.header.key = MasterKey(p, file.salt, TRUE)
  BY DEF is_v4, Opens
<1>2. PICK r \in Random : HeaderOf(r)
  BY <1>1 DEF Inv, FileOK
<1>3. ASSUME file.header = Header3(r, made.password, made.version)
      PROVE  FALSE
  <2>1. IsHeader3(file.header, r, made.password, made.version)
    BY <1>3, Header3Is
  <2> QED
    BY <1>1, <2>1 DEF IsHeader3
<1>4. /\ file.header = Header4(r, made.password, made.silent) /\ file.salt = r.salt
      /\ made.version = VOLUME_VERSION
  BY <1>2, <1>3 DEF HeaderOf
<1>5. IsHeader4(file.header, r, made.password, made.silent)
  BY <1>4, Header4Is
<1>6. MasterKey(made.password, r.salt, TRUE) = MasterKey(p, r.salt, TRUE)
  BY <1>1, <1>4, <1>5 DEF IsHeader4
<1>7. p = made.password
  BY <1>6, MasterKeyInjective
<1> QED
  BY <1>2, <1>4, <1>5, <1>7

LEMMA V3IsOfItsPassword ==
    ASSUME Inv, NEW p, is_v3(MasterKey(p, file.salt, FALSE))
    PROVE  /\ p = made.password /\ made.silent = {}
           /\ \E r \in Random : /\ HeaderOf(r)
                               /\ IsHeader3(file.header, r, made.password, made.version)
<1>1. /\ file.header # Arbitrary /\ file.header.alg = "xchacha20poly1305"
      /\ file.header.key = HeaderKey(MasterKey(p, file.salt, FALSE))
  BY DEF is_v3, Opens
<1>2. PICK r \in Random : HeaderOf(r)
  BY <1>1 DEF Inv, FileOK
<1>3. ASSUME file.header = Header4(r, made.password, made.silent)
      PROVE  FALSE
  <2>1. IsHeader4(file.header, r, made.password, made.silent)
    BY <1>3, Header4Is
  <2> QED
    BY <1>1, <2>1 DEF IsHeader4
<1>4. /\ file.header = Header3(r, made.password, made.version) /\ file.salt = r.salt
      /\ made.silent = {}
  BY <1>2, <1>3 DEF HeaderOf
<1>5. IsHeader3(file.header, r, made.password, made.version)
  BY <1>4, Header3Is
<1>6. HeaderKey(MasterKey(made.password, r.salt, FALSE)) = HeaderKey(MasterKey(p, r.salt, FALSE))
  BY <1>1, <1>4, <1>5 DEF IsHeader3
<1>7. p = made.password
  BY <1>6, MasterKeyInjective DEF HeaderKey
<1> QED
  BY <1>2, <1>4, <1>5, <1>7

\* What a key that was found, or was not, says of the file.
Found4(key) ==
    /\ file.header.plain[7] = 4
    /\ Unwraps(file.header.plain[3], key, file.header.plain[2], TRUE)
    /\ file.sectors >= METADATA
    /\ file.key = hybrid_decapsulate(file.header.plain[6], file.header.plain[3].plain)

Found3(key) ==
    /\ file.header.plain[6] \in {2, 3}
    /\ Unwraps(file.header.plain[2], key, file.header.plain[1], FALSE)
    /\ file.sectors >= METADATA
    /\ file.key = hybrid_decapsulate(file.header.plain[5], file.header.plain[2].plain)

\* What was wrapped is unwrapped with the key and the nonce it was wrapped with.
LEMMA WrappedUnwraps4 ==
    ASSUME NEW sk, NEW k, NEW n
    PROVE  Unwraps(Wrapped(sk, k, n, TRUE), k, n, TRUE)
BY DEF Wrapped, Box, Unwraps, Opens, Arbitrary

LEMMA WrappedUnwraps3 ==
    ASSUME NEW sk, NEW k, NEW n
    PROVE  Unwraps(Wrapped(sk, k, n, FALSE), k, n, FALSE)
BY DEF Wrapped, Box, Unwraps, Opens, Arbitrary

LEMMA UnlockedV4 ==
    ASSUME NEW key
    PROVE  Unlocked(key, TRUE) = IF Found4(key) THEN {file.key} ELSE {}
<1> DEFINE h == file.header
           x == hybrid_decapsulate(h.plain[6], h.plain[3].plain)
           p == /\ h.plain[7] = 4
                /\ Unwraps(h.plain[3], key, h.plain[2], TRUE)
                /\ file.sectors >= METADATA
<1>1. Unlocked(key, TRUE) = IF p THEN {k \in {x} : file.key = k} ELSE {}
  BY DEF Unlocked, Readable
<1>2. Found4(key) <=> p /\ file.key = x
  BY DEF Found4
<1> HIDE DEF h, x, p
<1>3. {k \in {x} : file.key = k} = IF file.key = x THEN {file.key} ELSE {}
  OBVIOUS
<1>4. CASE p
  BY <1>1, <1>2, <1>3, <1>4
<1>5. CASE ~p
  BY <1>1, <1>2, <1>5
<1> QED
  BY <1>4, <1>5

LEMMA UnlockedV3 ==
    ASSUME NEW key
    PROVE  Unlocked(key, FALSE) = IF Found3(key) THEN {file.key} ELSE {}
<1> DEFINE h == file.header
           x == hybrid_decapsulate(h.plain[5], h.plain[2].plain)
           p == /\ h.plain[6] \in {2, 3}
                /\ Unwraps(h.plain[2], key, h.plain[1], FALSE)
                /\ file.sectors >= METADATA
<1>1. Unlocked(key, FALSE) = IF p THEN {k \in {x} : file.key = k} ELSE {}
  BY DEF Unlocked, Readable
<1>2. Found3(key) <=> p /\ file.key = x
  BY DEF Found3
<1> HIDE DEF h, x, p
<1>3. {k \in {x} : file.key = k} = IF file.key = x THEN {file.key} ELSE {}
  OBVIOUS
<1>4. CASE p
  BY <1>1, <1>2, <1>3, <1>4
<1>5. CASE ~p
  BY <1>1, <1>2, <1>5
<1> QED
  BY <1>4, <1>5

LEMMA V4Unlocked ==
    ASSUME Inv, NEW p, is_v4(MasterKey(p, file.salt, TRUE)),
           NEW k \in Unlocked(MasterKey(p, file.salt, TRUE), TRUE)
    PROVE  made.silent = {}
<1> DEFINE s == made.silent
           h == file.header
<1>1. PICK r \in Random : HeaderOf(r) /\ IsHeader4(h, r, made.password, s)
  BY V4IsOfItsPassword
<1>2. /\ Unwraps(h.plain[3], MasterKey(p, file.salt, TRUE), h.plain[2], TRUE)
      /\ file.sectors >= METADATA
      /\ file.key = hybrid_decapsulate(h.plain[6], h.plain[3].plain)
  <2>1. Found4(MasterKey(p, file.salt, TRUE))
    BY UnlockedV4
  <2> QED
    BY <2>1 DEF Found4
<1>3. h.plain[3] = WrapCt(r, made.password, s) /\ h.plain[6] = Encapsulated(r, s).kem_ct
  BY <1>1 DEF IsHeader4
<1>4. "wrap" \notin s
  BY <1>2, <1>3 DEF Unwraps, Opens, WrapCt
<1>5. WrapCt(r, made.password, s).plain = <<Pair(r).sk, X448Sk(r, s)>>
  BY <1>4 DEF WrapCt, Wrapped, Box
<1>6. file.sectors > 0
  BY <1>2, SectorsAssumption DEF Inv, FileOK
<1>7. file.key = Secret(r, s)
  <2>1. ASSUME h = Header3(r, made.password, made.version)
        PROVE  FALSE
    <3>1. IsHeader3(h, r, made.password, made.version)
      BY <2>1, Header3Is
    <3> QED
      BY <1>1, <3>1 DEF IsHeader3, IsHeader4
  <2> QED
    BY <1>1, <1>6, <2>1 DEF HeaderOf
<1>8. "x448" \notin s
  <2>1. hybrid_decapsulate(Encapsulated(r, s).kem_ct, <<Pair(r).sk, X448Sk(r, s)>>) = Secret(r, s)
    BY <1>2, <1>3, <1>5, <1>7
  <2> QED
    BY <2>1, SecretNeedsX448
<1>9. "header" \notin s /\ s \subseteq {"x448", "wrap", "header"}
  BY <1>1 DEF HeaderOf, Inv, AnswerOK
<1> QED
  BY <1>4, <1>8, <1>9

\* The outcomes of volume_open: a refusal, or a key that one of the formats gave.
LEMMA Outcomes ==
    ASSUME NEW p, volume_open(p)
    PROVE  LET key4 == MasterKey(p, file.salt, TRUE)
               key3 == MasterKey(p, file.salt, FALSE)
           IN  \/ \E starved \in BOOLEAN :
                     /\ volume' = Context("refused", p, starved)
                     /\ \/ starved
                        \/ is_v4(key4) /\ Unlocked(key4, TRUE) = {}
                        \/ ~is_v4(key4) /\ ~is_v3(key3)
                        \/ ~is_v4(key4) /\ is_v3(key3) /\ Unlocked(key3, FALSE) = {}
               \/ \E k, master_key :
                     /\ volume' = [state |-> "open", password |-> p, master_key |-> master_key,
                                   file_key |-> k]
                     /\ \/ is_v4(key4) /\ k \in Unlocked(key4, TRUE)
                        \/ is_v3(key3) /\ k \in Unlocked(key3, FALSE)
<1> DEFINE key4 == MasterKey(p, file.salt, TRUE)
           key3 == MasterKey(p, file.salt, FALSE)
<1> DEFINE master_key(v4) == IF v4 THEN key4 ELSE key3
           Keys(v4, derived3, allocated) ==
               IF allocated /\ (v4 \/ (derived3 /\ is_v3(key3)))
               THEN Unlocked(master_key(v4), v4) ELSE {}
<1>0. PICK derived4 \in BOOLEAN, derived3 \in BOOLEAN, allocated \in BOOLEAN :
         LET v4 == derived4 /\ is_v4(key4)
         IN  /\ v4 => derived3
             /\ \E keys \in {Keys(v4, derived3, allocated)} :
                  volume' = IF keys = {}
                   THEN Context("refused", p, ~(derived4 /\ derived3 /\ allocated))
                   ELSE [state |-> "open", password |-> p, master_key |-> master_key(v4),
                         file_key |-> CHOOSE key \in keys : TRUE]
  BY DEF volume_open
<1>1. PICK keys :
         LET v4 == derived4 /\ is_v4(key4)
         IN  /\ v4 => derived3
             /\ keys = Keys(v4, derived3, allocated)
             /\ volume' = IF keys = {}
                   THEN Context("refused", p, ~(derived4 /\ derived3 /\ allocated))
                   ELSE [state |-> "open", password |-> p, master_key |-> master_key(v4),
                         file_key |-> CHOOSE key \in keys : TRUE]
  <2> HIDE DEF key4, key3, Keys, master_key
  <2> QED
    BY <1>0
<1> HIDE DEF key4, key3
<1>2. CASE derived4 /\ is_v4(key4)
  <2>1. /\ keys = IF allocated THEN Unlocked(key4, TRUE) ELSE {}
        /\ volume' = IF keys = {}
              THEN Context("refused", p, ~(derived4 /\ derived3 /\ allocated))
              ELSE [state |-> "open", password |-> p, master_key |-> key4,
                    file_key |-> CHOOSE key \in keys : TRUE]
    BY <1>1, <1>2
  <2>2. CASE keys = {}
    BY <1>1, <1>2, <2>1, <2>2 DEF key4, key3
  <2>3. CASE keys # {}
    BY <1>2, <2>1, <2>3 DEF key4, key3
  <2> QED
    BY <2>2, <2>3
<1>3. CASE ~(derived4 /\ is_v4(key4))
  <2>1. /\ keys = IF allocated /\ derived3 /\ is_v3(key3) THEN Unlocked(key3, FALSE) ELSE {}
        /\ volume' = IF keys = {}
              THEN Context("refused", p, ~(derived4 /\ derived3 /\ allocated))
              ELSE [state |-> "open", password |-> p, master_key |-> key3,
                    file_key |-> CHOOSE key \in keys : TRUE]
    BY <1>1, <1>3
  <2>2. CASE keys = {}
    BY <1>1, <1>3, <2>1, <2>2 DEF key4, key3
  <2>3. CASE keys # {}
    BY <1>3, <2>1, <2>3 DEF key4, key3
  <2> QED
    BY <2>2, <2>3
<1> QED
  BY <1>2, <1>3

LEMMA OpenTruly ==
    ASSUME Inv, NEW p, volume_open(p)
    PROVE  OpensTruly'
<1> DEFINE key4 == MasterKey(p, file.salt, TRUE)
           key3 == MasterKey(p, file.salt, FALSE)
<1>1. file' = file /\ made' = made
  BY DEF volume_open
<1>2. ASSUME NEW k, is_v4(key4), k \in Unlocked(key4, TRUE)
      PROVE  p = made.password /\ file.sectors >= METADATA /\ k = file.key /\ made.silent = {}
  <2>0. Unlocked(key4, TRUE) = IF Found4(key4) THEN {file.key} ELSE {}
    BY UnlockedV4
  <2>1. Found4(key4) /\ k = file.key
    BY <1>2, <2>0
  <2>2. file.sectors >= METADATA
    BY <2>1 DEF Found4
  <2>3. p = made.password
    BY <1>2, V4IsOfItsPassword
  <2>4. made.silent = {}
    BY <1>2, V4Unlocked
  <2> QED
    BY <1>2, <2>1, <2>2, <2>3, <2>4
<1>3. ASSUME NEW k, is_v3(key3), k \in Unlocked(key3, FALSE)
      PROVE  p = made.password /\ file.sectors >= METADATA /\ k = file.key /\ made.silent = {}
  <2>0. Unlocked(key3, FALSE) = IF Found3(key3) THEN {file.key} ELSE {}
    BY UnlockedV3
  <2>1. Found3(key3) /\ k = file.key
    BY <1>3, <2>0
  <2>2. file.sectors >= METADATA
    BY <2>1 DEF Found3
  <2> QED
    BY <1>3, <2>1, <2>2, V3IsOfItsPassword
<1>4. CASE \E starved \in BOOLEAN : volume' = Context("refused", p, starved)
  BY <1>4 DEF Context, OpensTruly
<1>5. CASE \E k, master_key :
              /\ volume' = [state |-> "open", password |-> p, master_key |-> master_key,
                            file_key |-> k]
              /\ \/ is_v4(key4) /\ k \in Unlocked(key4, TRUE)
                 \/ is_v3(key3) /\ k \in Unlocked(key3, FALSE)
  <2>1. PICK k, master_key :
          /\ volume' = [state |-> "open", password |-> p, master_key |-> master_key,
                        file_key |-> k]
          /\ \/ is_v4(key4) /\ k \in Unlocked(key4, TRUE)
             \/ is_v3(key3) /\ k \in Unlocked(key3, FALSE)
    BY <1>5
  <2>2. p = made.password /\ file.sectors >= METADATA /\ k = file.key /\ made.silent = {}
    BY <1>2, <1>3, <2>1
  <2>3. volume'.password = p /\ volume'.file_key = k
    BY <2>1
  <2> QED
    BY <1>1, <2>2, <2>3 DEF OpensTruly
<1> QED
  BY <1>4, <1>5, Outcomes

LEMMA volume_openInv ==
    ASSUME Inv, NEW p, volume_open(p)
    PROVE  Inv'
<1>1. making' = making /\ making.pc = "idle" /\ file' = file /\ made' = made
  BY DEF volume_open, Running
<1>2. VolumeOK'
  <2>1. CASE \E starved \in BOOLEAN : volume' = Context("refused", p, starved)
    BY <2>1 DEF Context, VolumeOK
  <2>2. CASE \E k, master_key :
                volume' = [state |-> "open", password |-> p, master_key |-> master_key,
                           file_key |-> k]
    BY <2>2 DEF VolumeOK
  <2> QED
    BY <2>1, <2>2, Outcomes
<1>3. MakingOK'
  BY <1>1 DEF MakingOK
<1>4. FileOK'
  BY <1>1 DEF Inv, FileOK, HeaderOf
<1>5. AnswerOK'
  BY <1>1 DEF Inv, AnswerOK
<1> QED
  BY <1>2, <1>3, <1>4, <1>5, OpenTruly DEF Inv

LEMMA volume_closeInv ==
    ASSUME Inv, volume_close
    PROVE  Inv'
<1>1. making' = making /\ making.pc = "idle" /\ file' = file /\ made' = made /\ volume' = Closed
  BY DEF volume_close, Inv, MakingOK
<1>2. MakingOK'
  BY <1>1 DEF MakingOK
<1>3. FileOK'
  BY <1>1 DEF Inv, FileOK, HeaderOf
<1>4. AnswerOK'
  BY <1>1 DEF Inv, AnswerOK
<1> QED
  BY <1>1, <1>2, <1>3, <1>4, ClosedSuffices DEF Inv

LEMMA StepInv ==
    Inv /\ [Next]_vars => Inv'
<1> SUFFICES ASSUME Inv, [Next]_vars
             PROVE  Inv'
  OBVIOUS
<1>1. CASE UNCHANGED vars
  <2>1. file' = file /\ making' = making /\ made' = made /\ volume' = volume
    BY <1>1 DEF vars
  <2>2. MakingOK' /\ AnswerOK'
    BY <2>1 DEF Inv, MakingOK, AnswerOK
  <2>3. FileOK'
    BY <2>1 DEF Inv, FileOK, HeaderOf
  <2>4. VolumeOK'
    BY <2>1 DEF Inv, VolumeOK
  <2>5. OpensTruly'
    BY <2>1 DEF Inv, OpensTruly
  <2> QED
    BY <2>2, <2>3, <2>4, <2>5 DEF Inv
<1>2. CASE \E p \in Password, r \in Random : EarlierRelease(p, r) \/ volume_create(p, r)
  BY <1>2, EarlierReleaseInv, volume_createInv
<1>3. CASE generate_hybrid_keypair \/ wrap_hybrid_sk \/ encapsulate_file_key
  BY <1>3, generate_hybrid_keypairInv, wrap_hybrid_skInv, encapsulate_file_keyInv
<1>4. CASE write_header \/ encrypt_sector \/ volume_created \/ Crash
  BY <1>4, write_headerInv, encrypt_sectorInv, volume_createdInv, CrashInv
<1>5. CASE (\E p \in Password : volume_open(p)) \/ volume_close
  BY <1>5, volume_openInv, volume_closeInv
<1> QED
  BY <1>1, <1>2, <1>3, <1>4, <1>5 DEF Next

LEMMA Invariance ==
    Spec => []Inv
BY InitInv, StepInv, PTL DEF Spec

------------------------------------------------------------------------------
(* The properties that need nothing of Kyber *)

LEMMA InvTyped ==
    Inv => TypeOK
<1> SUFFICES ASSUME Inv PROVE TypeOK
  OBVIOUS
<1>1. file.header # Arbitrary =>
         Len(file.header.plain) = IF file.header.alg = "aes256gcm" THEN 7 ELSE 6
  <2> SUFFICES ASSUME file.header # Arbitrary
               PROVE  Len(file.header.plain) = IF file.header.alg = "aes256gcm" THEN 7 ELSE 6
    OBVIOUS
  <2>1. PICK r \in Random : HeaderOf(r)
    BY DEF Inv, FileOK
  <2>2. CASE file.header = Header4(r, made.password, made.silent)
    <3>1. IsHeader4(file.header, r, made.password, made.silent)
      BY <2>2, Header4Is
    <3> QED
      BY <3>1 DEF IsHeader4
  <2>3. CASE file.header = Header3(r, made.password, made.version)
    <3>1. IsHeader3(file.header, r, made.password, made.version)
      BY <2>3, Header3Is
    <3> QED
      BY <3>1 DEF IsHeader3
  <2> QED
    BY <2>1, <2>2, <2>3 DEF HeaderOf
<1> QED
  BY <1>1 DEF Inv, TypeOK, MakingOK, FileOK, AnswerOK, VolumeOK

\* A header in the file always has the fields of its format, however its making
\* ended (write_header, Crash), and only an open volume has keys (volume_open).
THEOREM TypeCorrect == Spec => []TypeOK
BY Invariance, InvTyped, PTL

\* volume_open never opens a volume with another password than its own, with less
\* than its metadata, or with a key its sectors were not encrypted with: whatever
\* went unnoticed in volume_create, wherever it died, and whatever Kyber computes.
THEOREM OpensOnlyTruly == Spec => []OpensTruly
<1>1. Inv => OpensTruly
  BY DEF Inv
<1> QED
  BY <1>1, Invariance, PTL

------------------------------------------------------------------------------
(* The property that needs Kyber to decapsulate *)

\* What volume_create made, with nothing gone unnoticed, opens with its password.
LEMMA MadeIsFound ==
    ASSUME Inv, KyberDecapsulates(Random), making.pc = "idle", made.answer # "failed",
           made.silent = {}, made.version # 1,
           NEW p, p = made.password
    PROVE  LET key4 == MasterKey(p, file.salt, TRUE)
               key3 == MasterKey(p, file.salt, FALSE)
           IN  \/ is_v4(key4) /\ Found4(key4)
               \/ ~is_v4(key4) /\ is_v3(key3) /\ Found3(key3)
<1> DEFINE key4 == MasterKey(p, file.salt, TRUE)
           key3 == MasterKey(p, file.salt, FALSE)
           h == file.header
<1>1. h # Arbitrary /\ file.sectors >= METADATA /\ file.sectors > 0
  BY SectorsAssumption DEF Inv, AnswerOK
<1>2. PICK r \in Random : HeaderOf(r)
  BY <1>1 DEF Inv, FileOK
<1>3. file.salt = r.salt /\ file.nonce = r.header_nonce
  BY <1>2 DEF HeaderOf
<1>4. CASE h = Header4(r, p, {}) /\ file.key = Secret(r, {})
  <2> DEFINE sk == <<Pair(r).sk, r.x>>
  <2>1. IsHeader4(h, r, p, {})
    BY <1>4, Header4Is
  <2>2. is_v4(key4)
    BY <1>3, <2>1 DEF IsHeader4, is_v4, Opens
  <2>3. WrapCt(r, p, {}) = Wrapped(sk, key4, r.wrap_nonce, TRUE)
    BY <1>3 DEF WrapCt, X448Sk
  <2>4. h.plain[2] = r.wrap_nonce
    BY <2>1 DEF IsHeader4
  <2>5. h.plain[3] = WrapCt(r, p, {}) /\ h.plain[6] = Encapsulated(r, {}).kem_ct
    BY <2>1 DEF IsHeader4
  <2>6. h.plain[7] = 4
    BY <2>1 DEF IsHeader4
  <2> HIDE DEF sk
  <2>7. Unwraps(h.plain[3], key4, r.wrap_nonce, TRUE) /\ h.plain[3].plain = sk
    <3> HIDE DEF key4
    <3>1. h.plain[3] = Wrapped(sk, key4, r.wrap_nonce, TRUE)
      BY <2>3, <2>5
    <3>2. Unwraps(h.plain[3], key4, r.wrap_nonce, TRUE)
      BY <3>1, WrappedUnwraps4
    <3>3. h.plain[3].plain = sk
      BY <3>1 DEF Wrapped, Box
    <3> QED
      BY <3>2, <3>3
  <2>8. file.key = hybrid_decapsulate(h.plain[6], h.plain[3].plain)
    BY <1>4, <2>5, <2>7, SecretRecovered DEF sk
  <2> QED
    BY <1>1, <2>2, <2>4, <2>6, <2>7, <2>8 DEF Found4
<1>5. CASE /\ h = Header3(r, p, made.version) /\ file.key = Secret(r, {})
           /\ made.version \in {1, 2, 3}
  <2> DEFINE sk == <<Pair(r).sk, r.x>>
  <2>1. IsHeader3(h, r, p, made.version)
    BY <1>5, Header3Is
  <2>2. ~is_v4(key4)
    BY <2>1 DEF IsHeader3, is_v4, Opens
  <2>3. is_v3(key3)
    BY <1>3, <2>1 DEF IsHeader3, is_v3, Opens
  <2>4. h.plain[1] = r.wrap_nonce
    BY <2>1 DEF IsHeader3
  <2>5. h.plain[2] = Wrapped(sk, key3, r.wrap_nonce, FALSE)
    BY <1>3, <2>1 DEF IsHeader3
  <2>6. h.plain[5] = Encapsulated(r, {}).kem_ct
    BY <2>1 DEF IsHeader3
  <2>7. h.plain[6] \in {2, 3}
    BY <1>5, <2>1 DEF IsHeader3
  <2> HIDE DEF sk
  <2>8. Unwraps(h.plain[2], key3, r.wrap_nonce, FALSE) /\ h.plain[2].plain = sk
    <3> HIDE DEF key3
    <3>1. h.plain[2] = Wrapped(sk, key3, r.wrap_nonce, FALSE)
      BY <2>5
    <3>2. Unwraps(h.plain[2], key3, r.wrap_nonce, FALSE)
      BY <3>1, WrappedUnwraps3
    <3>3. h.plain[2].plain = sk
      <4> DEFINE n == r.wrap_nonce
                 w == Wrapped(sk, key3, n, FALSE)
      <4>1. w.plain = sk
        BY DEF Wrapped, Box
      <4>2. h.plain[2] = w
        BY <3>1
      <4> HIDE DEF w
      <4> QED
        BY <4>1, <4>2
    <3> QED
      BY <3>2, <3>3
  <2>9. file.key = hybrid_decapsulate(h.plain[5], h.plain[2].plain)
    BY <1>5, <2>6, <2>8, SecretRecovered DEF sk
  <2> QED
    BY <1>1, <2>2, <2>3, <2>4, <2>7, <2>8, <2>9 DEF Found3
<1> QED
  BY <1>1, <1>2, <1>4, <1>5 DEF HeaderOf

LEMMA OpenRefusesForCause ==
    ASSUME KyberDecapsulates(Random), Inv, NEW p, volume_open(p)
    PROVE  RefusedForCause'
<1> DEFINE key4 == MasterKey(p, file.salt, TRUE)
           key3 == MasterKey(p, file.salt, FALSE)
<1>1. making.pc = "idle" /\ made' = made
  BY DEF volume_open, Running
<1>2. CASE \E k, master_key :
              volume' = [state |-> "open", password |-> p, master_key |-> master_key,
                         file_key |-> k]
  BY <1>2 DEF RefusedForCause
<1>3. CASE \E starved \in BOOLEAN :
              /\ volume' = Context("refused", p, starved)
              /\ \/ starved
                 \/ is_v4(key4) /\ Unlocked(key4, TRUE) = {}
                 \/ ~is_v4(key4) /\ ~is_v3(key3)
                 \/ ~is_v4(key4) /\ is_v3(key3) /\ Unlocked(key3, FALSE) = {}
  <2>1. PICK starved \in BOOLEAN :
          /\ volume' = Context("refused", p, starved)
          /\ \/ starved
             \/ is_v4(key4) /\ Unlocked(key4, TRUE) = {}
             \/ ~is_v4(key4) /\ ~is_v3(key3)
             \/ ~is_v4(key4) /\ is_v3(key3) /\ Unlocked(key3, FALSE) = {}
    BY <1>3
  <2>2. volume'.password = p /\ volume'.starved = starved
    BY <2>1 DEF Context
  <2>3. CASE /\ ~starved /\ made.answer # "failed" /\ made.silent = {} /\ made.version # 1
             /\ p = made.password
    <3>1. \/ is_v4(key4) /\ Found4(key4)
          \/ ~is_v4(key4) /\ is_v3(key3) /\ Found3(key3)
      BY <1>1, <2>3, MadeIsFound
    <3>2. /\ Unlocked(key4, TRUE) = IF Found4(key4) THEN {file.key} ELSE {}
          /\ Unlocked(key3, FALSE) = IF Found3(key3) THEN {file.key} ELSE {}
      BY UnlockedV4, UnlockedV3
    <3> QED
      BY <2>1, <2>3, <3>1, <3>2
  <2> QED
    BY <1>1, <2>2, <2>3 DEF RefusedForCause
<1> QED
  BY <1>2, <1>3, Outcomes

LEMMA StepRefuses ==
    ASSUME KyberDecapsulates(Random)
    PROVE  Inv /\ RefusedForCause /\ [Next]_vars => RefusedForCause'
<1> SUFFICES ASSUME Inv, RefusedForCause, [Next]_vars
             PROVE  RefusedForCause'
  OBVIOUS
<1>1. CASE \E p \in Password : volume_open(p)
  BY <1>1, OpenRefusesForCause
<1>2. CASE UNCHANGED vars
  BY <1>2 DEF vars, RefusedForCause
<1>3. ASSUME volume' = Closed
      PROVE  RefusedForCause'
  BY <1>3 DEF RefusedForCause, Closed
<1>4. CASE \E p \in Password, r \in Random : EarlierRelease(p, r) \/ volume_create(p, r)
  BY <1>3, <1>4 DEF EarlierRelease, volume_create
<1>5. CASE \/ generate_hybrid_keypair \/ wrap_hybrid_sk \/ encapsulate_file_key
           \/ write_header \/ encrypt_sector \/ volume_created \/ Crash
  <2>1. volume' = volume /\ making.pc # "idle"
    BY <1>5 DEF generate_hybrid_keypair, wrap_hybrid_sk, encapsulate_file_key, write_header,
                encrypt_sector, volume_created, Crash, Running
  <2>2. volume = Closed
    BY <2>1 DEF Inv, MakingOK
  <2> QED
    BY <1>3, <2>1, <2>2
<1>6. CASE volume_close
  BY <1>3, <1>6 DEF volume_close
<1> QED
  BY <1>1, <1>2, <1>4, <1>5, <1>6 DEF Next

\* volume_open refuses a volume volume_create made for one of panel.c's three causes
\* only, provided Kyber decapsulates what it encapsulated for the key pairs that
\* the random bytes give.
THEOREM RefusesOnlyForCause ==
    ASSUME KyberDecapsulates(Random)
    PROVE  Spec => []RefusedForCause
<1>1. Init => RefusedForCause
  <2>1. Init => volume = Closed
    BY DEF Init
  <2> QED
    BY <2>1 DEF RefusedForCause, Closed
<1>2. Inv /\ RefusedForCause /\ [Next]_vars => RefusedForCause'
  BY StepRefuses
<1> QED
  BY <1>1, <1>2, Invariance, PTL DEF Spec

==============================================================================
