----------------------------- MODULE SectorCache -----------------------------
(***************************************************************************)
(* The sector cache of src/engine/numcache.c: a write-back cache of        *)
(* decrypted sectors in front of the encrypted volume file, with LRU       *)
(* eviction, pinned sectors, and stdio and the disk below it.              *)
(*                                                                         *)
(* A sector's content is a member of Data; Torn is a record on disk that   *)
(* fails authentication.  Each public operation is one action that makes   *)
(* every call the C function makes; any read, write, seek or fsync in it   *)
(* may fail.  The operations that can end in several ways are sets of      *)
(* outcomes [ok, entries, vol].                                            *)
(*                                                                         *)
(* The file is a C stream: the last bytes of a sector record stay in the   *)
(* stdio buffer until the next fseeko or fflush writes them, and a failure *)
(* of that write is reported to the operation that called fseeko, which    *)
(* may concern another sector.                                             *)
(***************************************************************************)
EXTENDS Integers

CONSTANTS Sector,     \* 0 .. total_sectors - 1
          NumSlots,   \* max_cache_size
          Data,       \* plaintexts of a sector
          Torn,       \* a record that does not authenticate
          Wiped,      \* a zeroed buffer that holds no sector
          NoSector    \* sector_idx UINT64_MAX, the mark of an invalid slot

ASSUME NumSlotsAssumption == NumSlots \in Nat \ {0}
ASSUME SentinelAssumption == Torn \notin Data /\ Wiped \notin Data /\ NoSector \notin Sector

VARIABLES entries,       \* cache->entries
          last_access,   \* recency rank of each slot (1: least recently used)
          vol,           \* the volume file and the medium below it
          legal          \* observer: per sector, the contents since the last
                         \* acknowledged cache_flush_all

vars == <<entries, last_access, vol, legal>>

Slot == 1 .. NumSlots

\* valid and sector_idx always change together: an invalid slot is one whose
\* sector_idx is NoSector, and it is always wiped.
Entry == [sector_idx : Sector \cup {NoSector}, data : Data \cup {Wiped},
          dirty : BOOLEAN, pinned : BOOLEAN]

Empty == [sector_idx |-> NoSector, data |-> Wiped, dirty |-> FALSE, pinned |-> FALSE]

Content == Data \cup {Torn}

\* disk:  what reading the file returns
\* media: what a power loss may leave of each sector
\* tail:  the sector whose record ends in the stdio buffer, if any
\* lost:  observer: sectors whose buffered end was dropped by a failed write
\*        after the sector had been marked clean
Volume == [disk : [Sector -> Content], media : [Sector -> SUBSET Content],
           tail : Sector \cup {NoSector}, lost : SUBSET Sector]

Init == /\ entries = [i \in Slot |-> Empty]
        /\ last_access = [i \in Slot |-> i]
        /\ \E d \in [Sector -> Data] :
              vol = [disk |-> d, media |-> [s \in Sector |-> {d[s]}],
                     tail |-> NoSector, lost |-> {}]
        /\ legal = [s \in Sector |-> {vol.disk[s]}]

------------------------------------------------------------------------------
(* The file *)

Settled(v) == [disk |-> v.disk, media |-> v.media, tail |-> NoSector, lost |-> v.lost]

TailLost(v) == [disk |-> [v.disk EXCEPT ![v.tail] = Torn], media |-> v.media,
                tail |-> NoSector, lost |-> v.lost \cup {v.tail}]

\* fseeko and fflush first write out the stdio buffer; glibc drops the buffer
\* when that write fails.
Drain(v) == {[ok |-> TRUE, vol |-> Settled(v)]}
            \cup (IF v.tail = NoSector THEN {} ELSE {[ok |-> FALSE, vol |-> TailLost(v)]})

Written(v, s, d) ==
    [disk |-> [v.disk EXCEPT ![s] = d], media |-> [v.media EXCEPT ![s] = @ \cup {d, Torn}],
     tail |-> s, lost |-> v.lost \ {s}]

HalfWritten(v, s) ==
    [disk |-> [v.disk EXCEPT ![s] = Torn], media |-> [v.media EXCEPT ![s] = @ \cup {Torn}],
     tail |-> v.tail, lost |-> v.lost]

\* fseeko, then nonce, ciphertext and tag: a failed fwrite leaves the old
\* record or one that mixes both.
encrypt_sector_at(v, s, d) ==
    UNION {IF r.ok THEN {[ok |-> TRUE,  vol |-> Written(r.vol, s, d)],
                         [ok |-> FALSE, vol |-> HalfWritten(r.vol, s)],
                         [ok |-> FALSE, vol |-> r.vol]}
           ELSE {r} : r \in Drain(v)}

\* fails on a seek or read error, and on a record that authenticates under
\* neither file_key nor master_key.
decrypt_sector_at(v, s) ==
    {r \in Drain(v) : r.ok => r.vol.disk[s] # Torn}
    \cup {[ok |-> FALSE, vol |-> r.vol] : r \in Drain(v)}

------------------------------------------------------------------------------
(* The cache *)

First(S) == {i \in S : \A j \in S : i <= j}

\* Mutant: the hit scan misses pinned slots.
HoldingUnpinned(s) == {i \in Slot : entries[i].sector_idx = s /\ ~entries[i].pinned}

Holding(s) == {i \in Slot : entries[i].sector_idx = s}

FreeSlots == Holding(NoSector)

Unpinned == {i \in Slot : ~entries[i].pinned}

\* Mutant: with every slot pinned the first one is taken.
VictimEvenIfPinned ==
    IF FreeSlots # {} THEN First(FreeSlots)
    ELSE IF Unpinned = {} THEN {1}
    ELSE {i \in Unpinned : \A j \in Unpinned : last_access[i] <= last_access[j]}

lru_victim ==
    IF FreeSlots # {} THEN First(FreeSlots)
    ELSE {i \in Unpinned : \A j \in Unpinned : last_access[i] <= last_access[j]}

\* Mutant: access_counter is read and not incremented.
TouchedSameCount(i) == [last_access EXCEPT ![i] = NumSlots]

\* last_access = access_counter++, as a rank: the slot becomes the most recent.
Touched(i) == [j \in Slot |-> IF j = i THEN NumSlots
                              ELSE IF last_access[j] > last_access[i] THEN last_access[j] - 1
                              ELSE last_access[j]]

Loaded(s, v) == [sector_idx |-> s, data |-> v.disk[s], dirty |-> FALSE, pinned |-> FALSE]

\* The slot is wiped before the load, so a load that fails leaves it empty.
LoadInto(i, s, v) ==
    {[ok |-> r.ok, slot |-> i, vol |-> r.vol,
      entries |-> [entries EXCEPT ![i] = IF r.ok THEN Loaded(s, r.vol) ELSE Empty]]
        : r \in decrypt_sector_at(v, s)}

\* Mutant: a dirty victim is not written back.
EvictingUnwritten(i, s) == LoadInto(i, s, vol)

Evicting(i, s) ==
    IF entries[i].dirty
    THEN UNION {IF r.ok THEN LoadInto(i, s, r.vol)
                ELSE {[ok |-> FALSE, slot |-> i, vol |-> r.vol, entries |-> entries]}
                   : r \in encrypt_sector_at(vol, entries[i].sector_idx, entries[i].data)}
    ELSE LoadInto(i, s, vol)

cache_get_sector(s) ==
    IF Holding(s) # {}
    THEN {[ok |-> TRUE, slot |-> i, vol |-> vol, entries |-> entries] : i \in First(Holding(s))}
    ELSE UNION {Evicting(i, s) : i \in lru_victim}

DirtySlots == {i \in Slot : entries[i].dirty}

\* What a caller of cache_get_sector sees of sector s, given the slots and the file.
ViewIn(e, v, s) == IF \E i \in Slot : e[i].sector_idx = s
                   THEN e[CHOOSE i \in Slot : e[i].sector_idx = s].data
                   ELSE v.disk[s]

View(s) == ViewIn(entries, vol, s)

\* cache_flush_all after it has flushed the slots of P, t being the last sector written.
FlushedSectors(P) == {entries[i].sector_idx : i \in P}

FlushedEntries(P) == [i \in Slot |-> IF i \in P THEN [entries[i] EXCEPT !.dirty = FALSE]
                                     ELSE entries[i]]

FlushedVolume(P, t) ==
    [disk  |-> [s \in Sector |-> IF s \in FlushedSectors(P) THEN View(s) ELSE vol.disk[s]],
     media |-> [s \in Sector |-> IF s \in FlushedSectors(P)
                                 THEN vol.media[s] \cup {View(s), Torn} ELSE vol.media[s]],
     tail  |-> t,
     lost  |-> vol.lost \ FlushedSectors(P)]

LastWritten(P) == IF P = {} THEN {vol.tail}
                  ELSE {entries[i].sector_idx : i \in {l \in P : \A j \in P : j <= l}}

\* Mutant: no fsync after fflush.
FlushedOnly(v) == v

Synced(v) == [disk |-> v.disk, media |-> [s \in Sector |-> {v.disk[s]}],
              tail |-> v.tail, lost |-> v.lost]

\* It stops at the first slot that cannot be written; with every slot written
\* come fflush and fsync.
FailAt(k) ==
    LET P == {i \in DirtySlots : i < k}
    IN UNION {{[ok |-> FALSE, entries |-> FlushedEntries(P), vol |-> r.vol] :
                 r \in {q \in encrypt_sector_at(FlushedVolume(P, t), entries[k].sector_idx,
                                                entries[k].data) : ~q.ok}}
              : t \in LastWritten(P)}

AllWritten ==
    UNION {UNION {{[ok |-> FALSE, entries |-> FlushedEntries(DirtySlots), vol |-> r.vol]}
                  \cup (IF r.ok THEN {[ok |-> TRUE, entries |-> FlushedEntries(DirtySlots),
                                       vol |-> Synced(r.vol)]} ELSE {})
                     : r \in Drain(FlushedVolume(DirtySlots, t))}
           : t \in LastWritten(DirtySlots)}

cache_flush_all == AllWritten \cup UNION {FailAt(k) : k \in DirtySlots}

------------------------------------------------------------------------------
(* Operations *)

GetSector(s) ==
    \E r \in cache_get_sector(s) :
        /\ entries' = r.entries
        /\ vol' = r.vol
        /\ last_access' = IF r.ok THEN Touched(r.slot) ELSE last_access
        /\ UNCHANGED legal

\* vfs_write_data on one sector: get, overwrite the buffer, cache_mark_dirty.  If
\* the get fails nothing else happens: that is a step of GetSector (also for
\* PinSector).
WriteSector(s, d) ==
    \E r \in cache_get_sector(s) :
        /\ r.ok
        /\ entries' = [r.entries EXCEPT ![r.slot] = [@ EXCEPT !.data = d, !.dirty = TRUE]]
        /\ vol' = r.vol
        /\ last_access' = Touched(r.slot)
        /\ legal' = [legal EXCEPT ![s] = @ \cup {d, Torn}]

\* cache_pin_sector, as volume_open calls it on the metadata sectors.
PinSector(s) ==
    \E r \in cache_get_sector(s) :
        /\ r.ok
        /\ entries' = [r.entries EXCEPT ![r.slot] = [@ EXCEPT !.pinned = TRUE]]
        /\ vol' = r.vol
        /\ last_access' = Touched(r.slot)
        /\ UNCHANGED legal

\* Mutant: dirty is reset whether or not the record was written.
FlushSectorUnchecked(s) ==
    \E i \in Holding(s) \cap DirtySlots :
        \E r \in encrypt_sector_at(vol, s, entries[i].data) :
            /\ entries' = [entries EXCEPT ![i] = [@ EXCEPT !.dirty = FALSE]]
            /\ vol' = r.vol
            /\ UNCHANGED <<last_access, legal>>

\* cache_flush_sector: dirty is reset only when the record was written.
FlushSector(s) ==
    \E i \in Holding(s) \cap DirtySlots :
        \E r \in encrypt_sector_at(vol, s, entries[i].data) :
            /\ entries' = IF r.ok THEN [entries EXCEPT ![i] = [@ EXCEPT !.dirty = FALSE]]
                          ELSE entries
            /\ vol' = r.vol
            /\ UNCHANGED <<last_access, legal>>

FlushAll ==
    \E r \in cache_flush_all :
        /\ entries' = r.entries
        /\ vol' = r.vol
        /\ legal' = IF r.ok THEN [s \in Sector |-> {View(s)}] ELSE legal
        /\ UNCHANGED last_access

\* cache_destroy ignores what cache_flush_all returns; the caller then closes the
\* stream.  cache_init on the same file starts from empty slots.
Destroy ==
    \E r \in cache_flush_all : \E c \in Drain(r.vol) :
        /\ vol' = c.vol
        /\ entries' = [i \in Slot |-> Empty]
        /\ last_access' = [i \in Slot |-> i]
        /\ UNCHANGED legal

\* The machine stops: of every sector the medium keeps one of the contents it may hold.
PowerLoss ==
    \E d \in [Sector -> Content] :
        /\ \A s \in Sector : d[s] \in vol.media[s]
        /\ vol' = [disk |-> d, media |-> [s \in Sector |-> {d[s]}],
                   tail |-> NoSector, lost |-> {}]
        /\ legal' = [s \in Sector |-> {d[s]}]
        /\ entries' = [i \in Slot |-> Empty]
        /\ last_access' = [i \in Slot |-> i]

Next == \/ \E s \in Sector : \/ GetSector(s)
                             \/ \E d \in Data : WriteSector(s, d)
                             \/ PinSector(s)
                             \/ FlushSector(s)
        \/ FlushAll
        \/ Destroy
        \/ PowerLoss

Spec == Init /\ [][Next]_vars
------------------------------------------------------------------------------
(* Properties *)

\* The state is what cache_init allocates; recency ranks are distinct, so the
\* LRU victim is unique (last_access of numcache.c never repeats).
TypeOK == /\ entries \in [Slot -> Entry]
          /\ last_access \in [Slot -> Slot]
          /\ \A i, j \in Slot : last_access[i] = last_access[j] => i = j
          /\ vol \in Volume
          /\ legal \in [Sector -> SUBSET Content]

\* No sector is cached twice: the linear scans of numcache.c, which stop at the
\* first match, never update one copy and flush or return another.
OneSlotPerSector ==
    \A i, j \in Slot : entries[i].sector_idx = entries[j].sector_idx
                          /\ entries[i].sector_idx # NoSector => i = j

\* A cached sector that is not dirty can be evicted without loss: the file holds
\* the same content, unless a failed write of the stdio buffer spoiled it.
CleanCopyMatchesDisk ==
    \A i \in Slot : entries[i].sector_idx \in Sector \ vol.lost /\ ~entries[i].dirty
                        => vol.disk[entries[i].sector_idx] = entries[i].data

\* What cache_flush_all acknowledged survives a crash (numcache.c:419-420): the
\* medium holds of a sector only what it contained at or after the last
\* acknowledged flush, unless a failed write of the stdio buffer spoiled it.
AcknowledgedUnlessLost ==
    \A s \in Sector \ vol.lost : vol.media[s] \subseteq legal[s]

\* The same without the exception, which is what the comment says.
AcknowledgedFlushSurvives ==
    \A s \in Sector : vol.media[s] \subseteq legal[s]

\* A pinned sector leaves the cache only with the cache: no sequence of loads
\* evicts it, not even when every other slot is pinned.
PinnedStays ==
    [][\A i \in Slot : entries[i].pinned =>
          \/ entries'[i].pinned /\ entries'[i].sector_idx = entries[i].sector_idx
          \/ entries' = [j \in Slot |-> Empty]]_vars

\* The cache, its volume and their failures implement an array of sectors.
Store == INSTANCE SectorStore WITH store <- [s \in Sector |-> View(s)],
                                   damaged <- vol.lost

ImplementsStore == Store!Spec
==============================================================================
