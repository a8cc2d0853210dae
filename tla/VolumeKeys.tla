------------------------------- MODULE VolumeKeys -------------------------------
(***************************************************************************)
(* The keys of a volume (src/engine: functions.c, polynomial.c): how       *)
(* volume_create hides the key of the sectors in the header, and how       *)
(* volume_open finds it again from the password.                           *)
(*                                                                         *)
(* Kyber is a parameter: what its three functions compute is in Kem.  The  *)
(* rest of the cryptography is a library's and ideal: Argon2, BLAKE2b and  *)
(* X448 give a record or a set of their inputs, and a box opens with what  *)
(* sealed it only.  A step that fails does so for want of memory, of       *)
(* entropy or of room on the disk.                                         *)
(*                                                                         *)
(*   file      salt, header and sectors of the volume file                 *)
(*   making    the locals of volume_create while it runs                   *)
(*   made      what is known of the file: the password, what volume_create *)
(*             answered, what failed without changing the answer           *)
(*   volume    the context volume_open fills                               *)
(***************************************************************************)
EXTENDS Integers, Sequences

CONSTANTS kem_keypair(_, _),   \* the functions crypto_kem_* of Kyber
          kem_enc(_, _),
          kem_dec(_, _),
          Password,
          Random,       \* what random_bytes and randombytes give one creation
          METADATA,     \* sectors of the VFS header and file table
          TOTAL         \* sectors of the volume

ASSUME RandomAssumption ==
    \A r \in Random : DOMAIN r = {"salt", "header_nonce", "wrap_nonce", "d", "z", "m", "x", "eph"}
ASSUME SectorsAssumption == METADATA \in Nat \ {0} /\ TOTAL \in Nat /\ METADATA <= TOTAL

\* What RefusedForCause needs of Kyber: what was encapsulated for a key pair is
\* decapsulated with it.  For other random bytes than these it may fail, with
\* the probability Kyber is designed for.
KyberDecapsulates(R) ==
    \A r \in R :
       LET pair == kem_keypair(r.d, r.z)
           kem == kem_enc(pair.pk, r.m)
       IN  kem_dec(kem.ct, pair.sk) = kem.ss

VARIABLES file, making, made, volume

vars == <<file, making, made, volume>>

------------------------------------------------------------------------------
(* The libraries *)

\* n bytes.
Argon2(password, salt, n) == [password |-> password, salt |-> salt, n |-> n]

\* The AEADs, AES-256-GCM and XChaCha20-Poly1305.
Box(alg, key, nonce, aad, plain) ==
    [alg |-> alg, key |-> key, nonce |-> nonce, aad |-> aad, plain |-> plain]

\* Bytes that are no box: never written, or left over on the stack.
Arbitrary == [alg |-> "none"]

Opens(box, alg, key, nonce, aad) ==
    box # Arbitrary /\ box.alg = alg /\ box.key = key /\ box.nonce = nonce /\ box.aad = aad

\* The public key of a private key is named by it; both sides get the same set.
X448(priv, pub) == {priv, pub}

Hash(ss_kyber, ss_x) == <<"HYBRID", ss_kyber, ss_x>>

------------------------------------------------------------------------------
(* polynomial.c *)

MasterKey(password, salt, is_v4) == Argon2(password, salt, IF is_v4 THEN 64 ELSE 32)

Wrapped(hybrid_sk, master_key, nonce, use_krakken) ==
    IF use_krakken THEN Box("aes256gcm", master_key, nonce, "WRAP", hybrid_sk)
    ELSE Box("xchacha20poly1305", master_key, nonce, "", hybrid_sk)

Unwraps(box, master_key, nonce, use_krakken) ==
    IF use_krakken THEN Opens(box, "aes256gcm", master_key, nonce, "WRAP")
    ELSE Opens(box, "xchacha20poly1305", master_key, nonce, "")

\* The shared secret is the key of the sectors; eph is the private and the public key.
hybrid_encapsulate(kyber_pk, x448_pk, m, eph) ==
    LET kyber == kem_enc(kyber_pk, m)
    IN  [kem_ct |-> <<kyber.ct, eph>>, shared_secret |-> Hash(kyber.ss, X448(eph, x448_pk))]

hybrid_decapsulate(kem_ct, hybrid_sk) ==
    Hash(kem_dec(kem_ct[1], hybrid_sk[1]), X448(hybrid_sk[2], kem_ct[2]))

------------------------------------------------------------------------------
(* functions.c *)

KRAKKEN4_MAGIC == "KRAKKEN4"
VOLUME_VERSION == 4

\* The fields of a header after the magic.
Fields(wrap_nonce, wrap_ct, kyber_pk, x448_pk, kem_ct, version) ==
    <<wrap_nonce, wrap_ct, kyber_pk, x448_pk, kem_ct, version>>

HeaderKey(master_key) == <<"HEADER", master_key>>

NoFile == [salt |-> "", nonce |-> "", header |-> Arbitrary, key |-> <<>>, sectors |-> 0]
Idle == [pc |-> "idle"]
Closed == [state |-> "closed"]

\* volume_create answers 0 (ok) or -1 (failed).
Made(password, version) ==
    [password |-> password, version |-> version, answer |-> "none", silent |-> {}]

Running(pc) == making.pc = pc
Failed == /\ making' = Idle
          /\ made' = [made EXCEPT !.answer = "failed"]

Init == /\ making = Idle
        /\ volume = Closed
        /\ file = NoFile
        /\ made = [Made("", 0) EXCEPT !.answer = "failed"]

\* An earlier release made a volume; volume_open still reads it.
EarlierRelease(password, r) ==
    /\ file = NoFile /\ Running("idle") /\ volume = Closed
    /\ \E kyber \in {kem_keypair(r.d, r.z)} :
       \E kem \in {hybrid_encapsulate(kyber.pk, r.x, r.m, r.eph)}, version \in {1, 2, 3} :
          LET key == MasterKey(password, r.salt, FALSE)
              wrap_ct == Wrapped(<<kyber.sk, r.x>>, key, r.wrap_nonce, FALSE)
              fields == Fields(r.wrap_nonce, wrap_ct, kyber.pk, r.x, kem.kem_ct, version)
          IN  /\ file' = [salt |-> r.salt, nonce |-> r.header_nonce,
                          header |-> Box("xchacha20poly1305", HeaderKey(key), r.header_nonce, "",
                                         fields),
                          key |-> kem.shared_secret, sectors |-> TOTAL]
              /\ made' = [Made(password, version) EXCEPT !.answer = "ok"]
    /\ UNCHANGED <<making, volume>>

\* The file is emptied first; the header's place is filled.  Nothing is open: Panel has
\* the overlaps.
volume_create(password, r) ==
    /\ Running("idle") /\ volume = Closed
    /\ file' = [NoFile EXCEPT !.salt = r.salt, !.nonce = r.header_nonce]
    /\ \/ /\ making' = [pc |-> "keypair", r |-> r, master_key |-> MasterKey(password, r.salt, TRUE)]
          /\ made' = Made(password, VOLUME_VERSION)
       \/ /\ making' = Idle
          /\ made' = [Made(password, VOLUME_VERSION) EXCEPT !.answer = "failed"]
    /\ UNCHANGED volume

\* Nobody looks at what generate_x448_keypair returns; if it failed the keys are
\* what was on the stack, which do not belong together.
generate_hybrid_keypair ==
    /\ Running("keypair")
    /\ \E kyber \in {kem_keypair(making.r.d, making.r.z)} :
          LET Generated(x448_pk, x448_sk) ==
                 making' = [pc |-> "wrap", r |-> making.r, master_key |-> making.master_key,
                            kyber_pk |-> kyber.pk, x448_pk |-> x448_pk,
                            hybrid_sk |-> <<kyber.sk, x448_sk>>]
          IN  \/ Generated(making.r.x, making.r.x) /\ UNCHANGED made
              \/ /\ Generated("stack_pk", "stack_sk")
                 /\ made' = [made EXCEPT !.silent = @ \cup {"x448"}]
    /\ UNCHANGED <<file, volume>>

\* Nor at what aes256gcm_encrypt returns here.
wrap_hybrid_sk ==
    LET Left(wrap_ct) ==
           making' = [pc |-> "encapsulate", r |-> making.r, master_key |-> making.master_key,
                      kyber_pk |-> making.kyber_pk, x448_pk |-> making.x448_pk, wrap_ct |-> wrap_ct]
    IN  /\ Running("wrap")
        /\ \/ /\ Left(Wrapped(making.hybrid_sk, making.master_key, making.r.wrap_nonce, TRUE))
              /\ UNCHANGED made
           \/ /\ Left(Arbitrary)
              /\ made' = [made EXCEPT !.silent = @ \cup {"wrap"}]
        /\ UNCHANGED <<file, volume>>

encapsulate_file_key ==
    /\ Running("encapsulate")
    /\ \/ \E kem \in {hybrid_encapsulate(making.kyber_pk, making.x448_pk,
                                         making.r.m, making.r.eph)} :
              /\ making' = [pc |-> "header", r |-> making.r, master_key |-> making.master_key,
                            file_key |-> kem.shared_secret,
                            fields |-> Fields(making.r.wrap_nonce, making.wrap_ct, making.kyber_pk,
                                              making.x448_pk, kem.kem_ct, VOLUME_VERSION)]
              /\ UNCHANGED made
       \/ Failed
    /\ UNCHANGED <<file, volume>>

\* fwrite of the header is not checked: it may leave the placeholder.
write_header ==
    /\ Running("header")
    /\ \/ /\ making' = [pc |-> "sectors", file_key |-> making.file_key]
          /\ \/ /\ file' = [file EXCEPT !.header =
                       Box("aes256gcm", making.master_key, making.r.header_nonce, "HEADER",
                           <<KRAKKEN4_MAGIC>> \o making.fields)]
                /\ UNCHANGED made
             \/ /\ made' = [made EXCEPT !.silent = @ \cup {"header"}]
                /\ UNCHANGED file
       \/ Failed /\ UNCHANGED file
    /\ UNCHANGED volume

\* Mutant: i <= total_sectors.
encrypt_sector_past ==
    /\ Running("sectors") /\ file.sectors <= TOTAL
    /\ \/ /\ file' = [file EXCEPT !.key = making.file_key, !.sectors = @ + 1]
          /\ UNCHANGED <<making, made>>
       \/ Failed /\ UNCHANGED file
    /\ UNCHANGED volume

encrypt_sector ==
    /\ Running("sectors") /\ file.sectors < TOTAL
    /\ \/ /\ file' = [file EXCEPT !.key = making.file_key, !.sectors = @ + 1]
          /\ UNCHANGED <<making, made>>
       \/ Failed /\ UNCHANGED file
    /\ UNCHANGED volume

\* fflush and fsync.
volume_created ==
    /\ Running("sectors") /\ file.sectors = TOTAL
    /\ \/ making' = Idle /\ made' = [made EXCEPT !.answer = "ok"]
       \/ Failed
    /\ UNCHANGED <<file, volume>>

\* The process dies: of what it wrote some is in the file.
Crash ==
    /\ ~Running("idle")
    /\ \E header \in {Arbitrary, file.header}, sectors \in 0..file.sectors :
          file' = [file EXCEPT !.header = header, !.sectors = sectors]
    /\ making' = Idle
    /\ made' = [made EXCEPT !.answer = "failed"]
    /\ UNCHANGED volume

------------------------------------------------------------------------------

is_v4(master_key) ==
    /\ Opens(file.header, "aes256gcm", master_key, file.nonce, "HEADER")
    /\ file.header.plain[1] = KRAKKEN4_MAGIC

is_v3(master_key) ==
    Opens(file.header, "xchacha20poly1305", HeaderKey(master_key), file.nonce, "")

\* Mutant: the tags of the sectors are not looked at.
Readable_any(file_key) == TRUE

\* cache_get_sector of the sectors of the header and the file table.
Readable(file_key) == file.key = file_key

Context(state, password, starved) == [state |-> state, password |-> password, starved |-> starved]

\* The file key, if the header holds one and the metadata can be read with it.
Unlocked(master_key, v4) ==
    LET pos == IF v4 THEN 1 ELSE 0
        Field(n) == file.header.plain[pos + n]
        versions == IF v4 THEN {4} ELSE {2, 3}
    IN  IF /\ Field(6) \in versions
           /\ Unwraps(Field(2), master_key, Field(1), v4)
           /\ file.sectors >= METADATA
        THEN {key \in {hybrid_decapsulate(Field(5), Field(2).plain)} : Readable(key)}
        ELSE {}

\* AES-256-GCM is tried first.  A derivation may fail, and so may the allocations of
\* x448_scalarmult and cache_init.
volume_open(password) ==
    /\ Running("idle") /\ volume = Closed /\ file # NoFile
    /\ \E derived4, derived3, allocated \in BOOLEAN :
          LET key4 == MasterKey(password, file.salt, TRUE)
              key3 == MasterKey(password, file.salt, FALSE)
              v4 == derived4 /\ is_v4(key4)
              master_key == IF v4 THEN key4 ELSE key3
          IN  /\ v4 => derived3   \* not tried
              /\ \E keys \in {IF allocated /\ (v4 \/ (derived3 /\ is_v3(key3)))
                              THEN Unlocked(master_key, v4) ELSE {}} :
                    volume' = IF keys = {}
                       THEN Context("refused", password, ~(derived4 /\ derived3 /\ allocated))
                       ELSE [state |-> "open", password |-> password, master_key |-> master_key,
                             file_key |-> CHOOSE key \in keys : TRUE]
    /\ UNCHANGED <<file, making, made>>

\* volume_close, or free by the caller.
volume_close ==
    /\ volume # Closed
    /\ volume' = Closed
    /\ UNCHANGED <<file, making, made>>

Next == \/ \E p \in Password, r \in Random : EarlierRelease(p, r)
        \/ \E p \in Password, r \in Random : volume_create(p, r)
        \/ generate_hybrid_keypair
        \/ wrap_hybrid_sk
        \/ encapsulate_file_key
        \/ write_header
        \/ encrypt_sector
        \/ volume_created
        \/ Crash
        \/ \E p \in Password : volume_open(p)
        \/ volume_close

Spec == Init /\ [][Next]_vars

------------------------------------------------------------------------------

\* The type invariant.  A box of the header has the fields of its format, as many
\* sectors are written as fit, and only an open volume has keys.
TypeOK ==
    /\ file.sectors \in 0..TOTAL
    /\ file.header # Arbitrary =>
          Len(file.header.plain) = IF file.header.alg = "aes256gcm" THEN 7 ELSE 6
    /\ making.pc \in {"idle", "keypair", "wrap", "encapsulate", "header", "sectors"}
    /\ made.answer \in {"none", "ok", "failed"} /\ made.silent \subseteq {"x448", "wrap", "header"}
    /\ volume.state \in {"closed", "open", "refused"}
    /\ "file_key" \in DOMAIN volume <=> volume.state = "open"

\* volume_open: whatever failed while the volume was made, also without anybody
\* noticing, and wherever its making was cut short, a volume that opens does so
\* with its own password, holds the whole of the metadata, and gets the key its
\* sectors were encrypted with, not one that would garble what is written next.
OpensTruly ==
    volume.state = "open" =>
       /\ volume.password = made.password
       /\ file.sectors >= METADATA
       /\ volume.file_key = file.key
       /\ made.silent = {}

\* volume_open, panel.c:301-305 ("This can mean: Wrong password, Corrupted volume
\* file, Insufficient RAM for Argon2"): a volume volume_create made is refused for
\* one of these only; corrupted it can be only by what volume_create ignores.
\* The key travels through a Kyber exchange, two boxes, a header whose fields
\* move between the formats, and three derivations that must agree.
RefusedForCause ==
    volume.state = "refused" =>
       \/ volume.password # made.password
       \/ volume.starved
       \/ made.answer = "failed"
       \/ made.silent # {}
       \/ made.version = 1

===============================================================================
