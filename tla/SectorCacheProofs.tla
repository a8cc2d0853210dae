-------------------------- MODULE SectorCacheProofs --------------------------
(***************************************************************************)
(* Proofs about SectorCache, for any set of sectors and contents and any   *)
(* number of slots: its invariants, and that it implements SectorStore.    *)
(*                                                                         *)
(* The inductive invariant speaks of a state of the slots e, of the volume *)
(* v and of the observer l, so that the lemmas can follow an operation     *)
(* through the intermediate states of its calls.                           *)
(***************************************************************************)
EXTENDS SectorCache, TLAPS

LegalOK(l) == l \in [Sector -> SUBSET Content]

\* The volume: what reads return is among what a power loss may leave, only
\* lost sectors hold less than was acknowledged, and a record whose end is still
\* buffered is not acknowledged yet.
VolumeOK(v, l) ==
    /\ v \in Volume
    /\ \A s \in Sector : v.disk[s] \in v.media[s]
    /\ \A s \in Sector \ v.lost : v.media[s] \subseteq l[s]
    /\ \A s \in v.lost : v.disk[s] = Torn /\ v.media[s] \subseteq l[s] \cup {Torn}
    /\ v.tail \in Sector => Torn \in l[v.tail] /\ Torn \in v.media[v.tail]

\* The slots: free ones are wiped, others hold a readable content, once; a clean
\* one matches the volume, a dirty one is not acknowledged yet.
SlotsOK(e, v, l) ==
    /\ e \in [Slot -> Entry]
    /\ \A i, j \in Slot : e[i].sector_idx = e[j].sector_idx
                             /\ e[i].sector_idx # NoSector => i = j
    /\ \A i \in Slot : e[i].sector_idx = NoSector => e[i] = Empty
    /\ \A i \in Slot : e[i].sector_idx \in Sector => e[i].data \in Data
    /\ \A i \in Slot : e[i].sector_idx \in Sector \ v.lost /\ ~e[i].dirty
                          => v.disk[e[i].sector_idx] = e[i].data
    /\ \A i \in Slot : e[i].dirty => /\ Torn \in l[e[i].sector_idx]
                                     /\ e[i].data \in l[e[i].sector_idx]

RanksOK == /\ last_access \in [Slot -> Slot]
           /\ \A i, j \in Slot : last_access[i] = last_access[j] => i = j

Inv == LegalOK(legal) /\ VolumeOK(vol, legal) /\ SlotsOK(entries, vol, legal) /\ RanksOK

USE NumSlotsAssumption, SentinelAssumption

LEMMA InvImplies ==
    Inv => TypeOK /\ OneSlotPerSector /\ CleanCopyMatchesDisk /\ AcknowledgedUnlessLost
BY DEF Inv, LegalOK, VolumeOK, SlotsOK, RanksOK, TypeOK, OneSlotPerSector,
       CleanCopyMatchesDisk, AcknowledgedUnlessLost

------------------------------------------------------------------------------
(* The file *)

\* Moving the volume from v to w spoils only unacknowledged sectors and leaves
\* the sectors outside S alone.
Frame(v, w, l, S) ==
    /\ w.lost \subseteq v.lost \cup {s \in Sector : Torn \in l[s]}
    /\ v.lost \subseteq w.lost \cup S
    /\ \A s \in Sector \ (w.lost \cup S) : w.disk[s] = v.disk[s]

LEMMA DrainOK ==
    ASSUME NEW v, NEW l, LegalOK(l), VolumeOK(v, l), NEW r \in Drain(v)
    PROVE  VolumeOK(r.vol, l) /\ r.ok \in BOOLEAN /\ r.vol.tail = NoSector /\ Frame(v, r.vol, l, {})
<1>1. CASE r = [ok |-> TRUE, vol |-> Settled(v)]
  BY <1>1 DEF Settled, VolumeOK, Volume, Frame
<1>2. CASE v.tail # NoSector /\ r = [ok |-> FALSE, vol |-> TailLost(v)]
  <2>1. v.tail \in Sector
    BY <1>2 DEF VolumeOK, Volume
  <2>2. TailLost(v) \in Volume
    BY <2>1 DEF TailLost, VolumeOK, Volume, Content
  <2>3. VolumeOK(TailLost(v), l)
    BY <2>1, <2>2 DEF TailLost, VolumeOK, Volume
  <2>4. Frame(v, TailLost(v), l, {})
    BY <2>1 DEF TailLost, VolumeOK, Volume, Frame
  <2> QED
    BY <1>2, <2>3, <2>4 DEF TailLost
<1> QED
  BY <1>1, <1>2 DEF Drain

LEMMA EncryptOK ==
    ASSUME NEW v, NEW l, LegalOK(l), VolumeOK(v, l), NEW s \in Sector, NEW d \in Data,
           d \in l[s], Torn \in l[s], NEW r \in encrypt_sector_at(v, s, d)
    PROVE  /\ VolumeOK(r.vol, l)
           /\ r.ok \in BOOLEAN
           /\ Frame(v, r.vol, l, {s})
           /\ r.ok => r.vol.disk[s] = d /\ s \notin r.vol.lost
<1>1. PICK q \in Drain(v) :
         r \in IF q.ok THEN {[ok |-> TRUE,  vol |-> Written(q.vol, s, d)],
                             [ok |-> FALSE, vol |-> HalfWritten(q.vol, s)],
                             [ok |-> FALSE, vol |-> q.vol]}
               ELSE {q}
  BY DEF encrypt_sector_at
<1>2. VolumeOK(q.vol, l) /\ q.ok \in BOOLEAN /\ q.vol.tail = NoSector /\ Frame(v, q.vol, l, {})
  BY DrainOK
<1>3. CASE r = [ok |-> TRUE, vol |-> Written(q.vol, s, d)]
  <2>1. Written(q.vol, s, d) \in Volume
    BY <1>2 DEF Written, VolumeOK, Volume, Content
  <2>2. VolumeOK(Written(q.vol, s, d), l)
    BY <1>2, <2>1 DEF Written, VolumeOK, Volume, LegalOK
  <2>3. Frame(v, Written(q.vol, s, d), l, {s})
    BY <1>2 DEF Written, VolumeOK, Volume, Frame
  <2>4. Written(q.vol, s, d).disk[s] = d /\ s \notin Written(q.vol, s, d).lost
    BY <1>2 DEF Written, VolumeOK, Volume
  <2> QED
    BY <1>3, <2>2, <2>3, <2>4
<1>4. CASE r = [ok |-> FALSE, vol |-> HalfWritten(q.vol, s)]
  <2>1. VolumeOK(HalfWritten(q.vol, s), l)
    BY <1>2 DEF HalfWritten, VolumeOK, Volume, Content
  <2>2. Frame(v, HalfWritten(q.vol, s), l, {s})
    BY <1>2 DEF HalfWritten, VolumeOK, Volume, Frame
  <2> QED
    BY <1>4, <2>1, <2>2
<1>5. CASE r = [ok |-> FALSE, vol |-> q.vol]
  BY <1>2, <1>5 DEF Frame
<1>6. CASE ~q.ok /\ r = q
  BY <1>2, <1>6 DEF Frame
<1> QED
  BY <1>1, <1>3, <1>4, <1>5, <1>6

LEMMA DecryptOK ==
    ASSUME NEW v, NEW l, LegalOK(l), VolumeOK(v, l), NEW s \in Sector,
           NEW r \in decrypt_sector_at(v, s)
    PROVE  /\ VolumeOK(r.vol, l)
           /\ r.ok \in BOOLEAN
           /\ Frame(v, r.vol, l, {})
           /\ r.ok => r.vol.disk[s] \in Data
<1>1. PICK q \in Drain(v) : \/ r = q /\ (q.ok => q.vol.disk[s] # Torn)
                            \/ r = [ok |-> FALSE, vol |-> q.vol]
  BY DEF decrypt_sector_at
<1>2. VolumeOK(q.vol, l) /\ q.ok \in BOOLEAN /\ Frame(v, q.vol, l, {})
  BY DrainOK
<1>3. r.vol = q.vol /\ r.ok \in BOOLEAN /\ (r.ok => q.vol.disk[s] # Torn)
  <2>1. CASE r = q /\ (q.ok => q.vol.disk[s] # Torn)
    BY <1>2, <2>1, Zenon
  <2>2. CASE r = [ok |-> FALSE, vol |-> q.vol]
    BY <2>2
  <2> QED
    BY <1>1, <2>1, <2>2, Zenon
<1> QED
  BY <1>2, <1>3 DEF VolumeOK, Volume, Content

------------------------------------------------------------------------------
(* The cache *)

\* A sector reads the same before and after, or is lost and unreadable.
ViewFrame(e, v, f, w) ==
    \A s \in Sector : \/ ViewIn(f, w, s) = ViewIn(e, v, s)
                      \/ s \in v.lost \cup w.lost /\ ViewIn(f, w, s) = Torn

LEMMA ViewCached ==
    ASSUME NEW e, NEW v, NEW l, SlotsOK(e, v, l), NEW i \in Slot, e[i].sector_idx # NoSector
    PROVE  ViewIn(e, v, e[i].sector_idx) = e[i].data
<1> DEFINE c == CHOOSE j \in Slot : e[j].sector_idx = e[i].sector_idx
<1>1. c \in Slot /\ e[c].sector_idx = e[i].sector_idx
  OBVIOUS
<1>2. c = i
  BY <1>1 DEF SlotsOK
<1> QED
  BY <1>2 DEF ViewIn

LEMMA ViewUncached ==
    ASSUME NEW e, NEW v, NEW s, \A i \in Slot : e[i].sector_idx # s
    PROVE  ViewIn(e, v, s) = v.disk[s]
BY DEF ViewIn

\* A clean or uncached sector reads as the volume has it.
LEMMA ViewClean ==
    ASSUME NEW e, NEW v, NEW l, SlotsOK(e, v, l), NEW s \in Sector \ v.lost,
           \A i \in Slot : e[i].sector_idx = s => ~e[i].dirty
    PROVE  ViewIn(e, v, s) = v.disk[s]
<1>1. CASE \E i \in Slot : e[i].sector_idx = s
  <2>1. PICK i \in Slot : e[i].sector_idx = s
    BY <1>1
  <2>2. e[i].data = v.disk[s]
    BY <2>1 DEF SlotsOK
  <2> QED
    BY <2>1, <2>2, ViewCached
<1>2. CASE ~\E i \in Slot : e[i].sector_idx = s
  BY <1>2, ViewUncached
<1> QED
  BY <1>1, <1>2

\* Moving the volume under unchanged slots, dirty ones being the only ones in S.
LEMMA SlotsFrame ==
    ASSUME NEW e, NEW v, NEW w, NEW l, NEW S \in SUBSET Sector,
           VolumeOK(v, l), VolumeOK(w, l), SlotsOK(e, v, l), Frame(v, w, l, S),
           \A i \in Slot : e[i].sector_idx \in S => e[i].dirty,
           \A s \in S : \E i \in Slot : e[i].sector_idx = s
    PROVE  SlotsOK(e, w, l) /\ ViewFrame(e, v, e, w)
<1>1. SlotsOK(e, w, l)
  BY DEF SlotsOK, Frame
<1>2. ASSUME NEW s \in Sector
      PROVE  \/ ViewIn(e, w, s) = ViewIn(e, v, s)
             \/ s \in v.lost \cup w.lost /\ ViewIn(e, w, s) = Torn
  <2>1. CASE \E i \in Slot : e[i].sector_idx = s
    <3>1. PICK i \in Slot : e[i].sector_idx = s
      BY <2>1
    <3>2. ViewIn(e, w, s) = e[i].data /\ ViewIn(e, v, s) = e[i].data
      BY <1>1, <3>1, ViewCached
    <3> QED
      BY <3>2
  <2>2. CASE ~\E i \in Slot : e[i].sector_idx = s
    <3>1. ViewIn(e, w, s) = w.disk[s] /\ ViewIn(e, v, s) = v.disk[s]
      BY <2>2, ViewUncached
    <3> QED
      BY <2>2, <3>1 DEF Frame, VolumeOK
  <2> QED
    BY <2>1, <2>2
<1> QED
  BY <1>1, <1>2 DEF ViewFrame

LEMMA LoadOK ==
    ASSUME LegalOK(legal), NEW v, VolumeOK(v, legal), SlotsOK(entries, v, legal),
           NEW s \in Sector, Holding(s) = {}, NEW i \in Slot,
           entries[i].dirty => /\ entries[i].sector_idx \notin v.lost
                               /\ v.disk[entries[i].sector_idx] = entries[i].data,
           NEW r \in LoadInto(i, s, v)
    PROVE  /\ VolumeOK(r.vol, legal)
           /\ SlotsOK(r.entries, r.vol, legal)
           /\ Frame(v, r.vol, legal, {})
           /\ ViewFrame(entries, v, r.entries, r.vol)
           /\ r.ok \in BOOLEAN /\ r.slot = i
           /\ r.ok => r.entries[i].sector_idx = s
<1>1. PICK q \in decrypt_sector_at(v, s) :
         r = [ok |-> q.ok, slot |-> i, vol |-> q.vol,
              entries |-> [entries EXCEPT ![i] = IF q.ok THEN Loaded(s, q.vol) ELSE Empty]]
  BY DEF LoadInto
<1>2. /\ VolumeOK(q.vol, legal) /\ q.ok \in BOOLEAN /\ Frame(v, q.vol, legal, {})
      /\ q.ok => q.vol.disk[s] \in Data
  BY DecryptOK
<1>3. SlotsOK(entries, q.vol, legal) /\ ViewFrame(entries, v, entries, q.vol)
  BY <1>2, SlotsFrame
<1> DEFINE x == IF q.ok THEN Loaded(s, q.vol) ELSE Empty
           f == [entries EXCEPT ![i] = x]
<1>4. /\ x \in Entry /\ ~x.dirty /\ x.sector_idx \in {s, NoSector}
      /\ x.sector_idx = NoSector => x = Empty
      /\ x.sector_idx = s => x.data = q.vol.disk[s] /\ x.data \in Data
  BY <1>2 DEF Loaded, Empty, Entry
<1>5. \A j \in Slot : f[j] = IF j = i THEN x ELSE entries[j]
  BY DEF SlotsOK
<1>6. f \in [Slot -> Entry]
  BY <1>4 DEF SlotsOK
<1>7. SlotsOK(f, q.vol, legal)
  <2> HIDE DEF f, x
  <2> QED
    BY <1>3, <1>4, <1>5, <1>6 DEF SlotsOK, Holding
<1>8. ASSUME NEW t \in Sector
      PROVE  \/ ViewIn(f, q.vol, t) = ViewIn(entries, v, t)
             \/ t \in v.lost \cup q.vol.lost /\ ViewIn(f, q.vol, t) = Torn
  <2> HIDE DEF f, x
  <2>1. CASE \E j \in Slot \ {i} : entries[j].sector_idx = t
    <3>1. PICK j \in Slot \ {i} : entries[j].sector_idx = t
      BY <2>1
    <3>2. f[j].sector_idx = t /\ f[j].data = entries[j].data
      BY <1>5, <3>1
    <3>3. ViewIn(f, q.vol, t) = entries[j].data /\ ViewIn(entries, v, t) = entries[j].data
      BY <1>7, <3>1, <3>2, ViewCached
    <3> QED
      BY <3>3
  <2>2. CASE ~\E j \in Slot \ {i} : entries[j].sector_idx = t
    <3>1. \A j \in Slot : f[j].sector_idx = t => j = i /\ x.sector_idx = t
      BY <1>5, <2>2
    <3>2. ViewIn(f, q.vol, t) = q.vol.disk[t]
      <4>1. CASE \E j \in Slot : f[j].sector_idx = t
        <5>1. f[i].sector_idx = t /\ x.sector_idx = t /\ f[i] = x
          BY <1>5, <3>1, <4>1
        <5>2. t = s
          BY <1>4, <5>1
        <5> QED
          BY <1>4, <1>7, <5>1, <5>2, ViewCached
      <4>2. CASE ~\E j \in Slot : f[j].sector_idx = t
        BY <4>2, ViewUncached
      <4> QED
        BY <4>1, <4>2
    <3>3. CASE t \in q.vol.lost
      BY <1>2, <3>2, <3>3 DEF VolumeOK
    <3>4. CASE t \notin q.vol.lost
      <4>1. t \notin v.lost /\ q.vol.disk[t] = v.disk[t]
        BY <1>2, <3>4 DEF Frame
      <4>2. ViewIn(entries, v, t) = v.disk[t]
        <5>1. CASE entries[i].sector_idx = t
          <6>1. ViewIn(entries, v, t) = entries[i].data
            BY <5>1, ViewCached
          <6> QED
            BY <4>1, <5>1, <6>1 DEF SlotsOK
        <5>2. CASE entries[i].sector_idx # t
          BY <2>2, <5>2, ViewUncached
        <5> QED
          BY <5>1, <5>2
      <4> QED
        BY <3>2, <4>1, <4>2
    <3> QED
      BY <3>3, <3>4
  <2> QED
    BY <2>1, <2>2
<1>9. r.vol = q.vol /\ r.ok = q.ok /\ r.slot = i /\ r.entries = f
  BY <1>1
<1>10. q.ok => f[i].sector_idx = s
  BY <1>2, <1>5 DEF Loaded
<1> QED
  <2> HIDE DEF f, x
  <2> QED
    BY <1>2, <1>7, <1>8, <1>9, <1>10 DEF ViewFrame

LEMMA ViewFrameTrans ==
    ASSUME NEW e, NEW v, NEW f, NEW w, NEW g, NEW x, NEW l, NEW S,
           ViewFrame(e, v, f, w), ViewFrame(f, w, g, x), w.lost \subseteq x.lost
    PROVE  ViewFrame(e, v, g, x)
BY DEF ViewFrame

\* Writing the dirty slot i back, the slots being e and the volume v.
LEMMA WriteBackOK ==
    ASSUME NEW l, LegalOK(l), NEW e, NEW v, VolumeOK(v, l), SlotsOK(e, v, l),
           NEW i \in Slot, e[i].dirty,
           NEW r \in encrypt_sector_at(v, e[i].sector_idx, e[i].data)
    PROVE  /\ e[i].sector_idx \in Sector
           /\ VolumeOK(r.vol, l)
           /\ SlotsOK(e, r.vol, l)
           /\ r.ok \in BOOLEAN
           /\ Frame(v, r.vol, l, {e[i].sector_idx})
           /\ ViewFrame(e, v, e, r.vol)
           /\ r.ok => /\ r.vol.disk[e[i].sector_idx] = e[i].data
                      /\ e[i].sector_idx \notin r.vol.lost
<1>1. /\ e[i].sector_idx \in Sector
      /\ e[i].data \in Data
      /\ e[i].data \in l[e[i].sector_idx]
      /\ Torn \in l[e[i].sector_idx]
  BY DEF SlotsOK, Entry, Empty
<1>2. /\ VolumeOK(r.vol, l)
      /\ r.ok \in BOOLEAN
      /\ Frame(v, r.vol, l, {e[i].sector_idx})
      /\ r.ok => /\ r.vol.disk[e[i].sector_idx] = e[i].data
                 /\ e[i].sector_idx \notin r.vol.lost
  BY <1>1, EncryptOK
<1>3. \A j \in Slot : e[j].sector_idx \in {e[i].sector_idx} => e[j].dirty
  BY <1>1 DEF SlotsOK
<1>4. SlotsOK(e, r.vol, l) /\ ViewFrame(e, v, e, r.vol)
  BY <1>1, <1>2, <1>3, SlotsFrame
<1> QED
  BY <1>1, <1>2, <1>4

\* An operation that leaves the slots f and the volume w implements a step of
\* SectorStore that writes nothing.
Harmless(f, w) ==
    /\ VolumeOK(w, legal)
    /\ SlotsOK(f, w, legal)
    /\ ViewFrame(entries, vol, f, w)
    /\ w.lost \subseteq vol.lost \cup {s \in Sector : Torn \in legal[s]}

LEMMA EvictOK ==
    ASSUME Inv, NEW s \in Sector, Holding(s) = {}, NEW i \in Slot, NEW r \in Evicting(i, s)
    PROVE  /\ Harmless(r.entries, r.vol)
           /\ r.ok \in BOOLEAN /\ r.slot \in Slot
           /\ r.ok => r.entries[r.slot].sector_idx = s
<1>1. CASE entries[i].dirty
  <2>1. PICK q \in encrypt_sector_at(vol, entries[i].sector_idx, entries[i].data) :
           r \in IF q.ok THEN LoadInto(i, s, q.vol)
                 ELSE {[ok |-> FALSE, slot |-> i, vol |-> q.vol, entries |-> entries]}
    BY <1>1 DEF Evicting
  <2>2. /\ VolumeOK(q.vol, legal)
        /\ SlotsOK(entries, q.vol, legal)
        /\ Frame(vol, q.vol, legal, {entries[i].sector_idx})
        /\ ViewFrame(entries, vol, entries, q.vol)
        /\ q.ok => /\ q.vol.disk[entries[i].sector_idx] = entries[i].data
                   /\ entries[i].sector_idx \notin q.vol.lost
    BY <1>1, WriteBackOK DEF Inv
  <2>3. CASE q.ok
    <3>1. r \in LoadInto(i, s, q.vol)
      BY <2>1, <2>3
    <3>2. /\ VolumeOK(r.vol, legal)
          /\ SlotsOK(r.entries, r.vol, legal)
          /\ Frame(q.vol, r.vol, legal, {})
          /\ ViewFrame(entries, q.vol, r.entries, r.vol)
          /\ r.ok \in BOOLEAN /\ r.slot = i
          /\ r.ok => r.entries[i].sector_idx = s
      BY <2>2, <2>3, <3>1, LoadOK DEF Inv
    <3>3. ViewFrame(entries, vol, r.entries, r.vol)
      BY <2>2, <3>2, ViewFrameTrans DEF Frame
    <3> QED
      BY <2>2, <3>2, <3>3 DEF Harmless, Frame
  <2>4. CASE ~q.ok
    <3>1. r = [ok |-> FALSE, slot |-> i, vol |-> q.vol, entries |-> entries]
      BY <2>1, <2>4
    <3> QED
      BY <2>2, <3>1 DEF Harmless, Frame
  <2> QED
    BY <2>3, <2>4
<1>2. CASE ~entries[i].dirty
  <2>1. r \in LoadInto(i, s, vol)
    BY <1>2 DEF Evicting
  <2>2. /\ VolumeOK(r.vol, legal)
        /\ SlotsOK(r.entries, r.vol, legal)
        /\ Frame(vol, r.vol, legal, {})
        /\ ViewFrame(entries, vol, r.entries, r.vol)
        /\ r.ok \in BOOLEAN /\ r.slot = i
        /\ r.ok => r.entries[i].sector_idx = s
    BY <1>2, <2>1, LoadOK DEF Inv
  <2> QED
    BY <2>2 DEF Harmless, Frame
<1> QED
  BY <1>1, <1>2

LEMMA GetOK ==
    ASSUME Inv, NEW s \in Sector, NEW r \in cache_get_sector(s)
    PROVE  /\ Harmless(r.entries, r.vol)
           /\ r.ok \in BOOLEAN /\ r.slot \in Slot
           /\ r.ok => r.entries[r.slot].sector_idx = s
<1>1. CASE Holding(s) # {}
  <2>1. PICK i \in First(Holding(s)) :
           r = [ok |-> TRUE, slot |-> i, vol |-> vol, entries |-> entries]
    BY <1>1 DEF cache_get_sector
  <2>2. i \in Slot /\ entries[i].sector_idx = s
    BY DEF First, Holding
  <2>3. Harmless(entries, vol)
    BY DEF Harmless, Inv, ViewFrame
  <2> QED
    BY <2>1, <2>2, <2>3
<1>2. CASE Holding(s) = {}
  <2>1. PICK i \in lru_victim : r \in Evicting(i, s)
    BY <1>2 DEF cache_get_sector
  <2>2. i \in Slot
    BY DEF lru_victim, First, FreeSlots, Holding, Unpinned
  <2> QED
    BY <1>2, <2>1, <2>2, EvictOK
<1> QED
  BY <1>1, <1>2

LEMMA TouchedOK ==
    ASSUME RanksOK, NEW i \in Slot
    PROVE  /\ Touched(i) \in [Slot -> Slot]
           /\ \A j, k \in Slot : Touched(i)[j] = Touched(i)[k] => j = k
<1>1. \A j \in Slot : last_access[j] \in Nat /\ 1 <= last_access[j] /\ last_access[j] <= NumSlots
  BY DEF RanksOK, Slot
<1>2. \A j \in Slot : Touched(i)[j] = IF j = i THEN NumSlots
                              ELSE IF last_access[j] > last_access[i] THEN last_access[j] - 1
                              ELSE last_access[j]
  BY DEF Touched
<1>3. \A j \in Slot : Touched(i)[j] \in Slot
  BY <1>1, <1>2 DEF Slot
<1>4. ASSUME NEW j \in Slot, NEW k \in Slot, Touched(i)[j] = Touched(i)[k]
      PROVE  j = k
  <2>1. \A m \in Slot : m # i => last_access[m] # last_access[i]
    BY DEF RanksOK
  <2>2. j # i /\ k # i => last_access[j] = last_access[k]
    BY <1>1, <1>2, <1>4, <2>1
  <2>3. j = i <=> k = i
    BY <1>1, <1>2, <1>4, <2>1
  <2> QED
    BY <2>2, <2>3 DEF RanksOK
<1>5. Touched(i) \in [Slot -> Slot]
  BY <1>3 DEF Touched
<1> QED
  BY <1>4, <1>5

------------------------------------------------------------------------------
(* cache_flush_all *)

LEMMA FlushedSectorsOK ==
    ASSUME Inv, NEW P \in SUBSET DirtySlots, NEW s \in FlushedSectors(P)
    PROVE  /\ s \in Sector /\ Torn \in legal[s]
           /\ View(s) \in Data /\ View(s) \in legal[s]
           /\ \A i \in Slot : entries[i].sector_idx = s => i \in P
<1>1. PICK i \in P : s = entries[i].sector_idx
  BY DEF FlushedSectors
<1>2. i \in Slot /\ entries[i].dirty
  BY DEF DirtySlots
<1>3. entries[i].sector_idx # NoSector /\ s \in Sector
  BY <1>1, <1>2 DEF Inv, SlotsOK, Entry, Empty
<1>4. View(s) = entries[i].data
  BY <1>1, <1>2, <1>3, ViewCached DEF Inv, View
<1> QED
  BY <1>1, <1>2, <1>3, <1>4 DEF Inv, SlotsOK

LEMMA FlushedOK ==
    ASSUME Inv, NEW P \in SUBSET DirtySlots, NEW t \in LastWritten(P)
    PROVE  /\ VolumeOK(FlushedVolume(P, t), legal)
           /\ SlotsOK(FlushedEntries(P), FlushedVolume(P, t), legal)
           /\ \A s \in Sector :
                 ViewIn(FlushedEntries(P), FlushedVolume(P, t), s) = View(s)
<1> DEFINE F == FlushedSectors(P)
           w == FlushedVolume(P, t)
           f == FlushedEntries(P)
<1>1. \A s \in F : /\ s \in Sector /\ Torn \in legal[s]
                   /\ View(s) \in Data /\ View(s) \in legal[s]
                   /\ \A i \in Slot : entries[i].sector_idx = s => i \in P
  BY FlushedSectorsOK
<1>2. t \in F \/ t = vol.tail
  BY DEF LastWritten, FlushedSectors
<1>3. w = [disk  |-> [s \in Sector |-> IF s \in F THEN View(s) ELSE vol.disk[s]],
           media |-> [s \in Sector |-> IF s \in F THEN vol.media[s] \cup {View(s), Torn}
                                        ELSE vol.media[s]],
           tail  |-> t,
           lost  |-> vol.lost \ F]
  BY DEF FlushedVolume
<1> HIDE DEF F, w
<1>4. w \in Volume
  BY <1>1, <1>2, <1>3 DEF Inv, VolumeOK, Volume, Content
<1>5. VolumeOK(w, legal)
  <2>1. \A s \in Sector : w.disk[s] \in w.media[s]
    BY <1>1, <1>3 DEF Inv, VolumeOK, Volume
  <2>2. ASSUME NEW s \in Sector \ w.lost
        PROVE  w.media[s] \subseteq legal[s]
    <3>1. vol.media[s] \subseteq legal[s] \cup {Torn}
      BY DEF Inv, VolumeOK
    <3>2. CASE s \in F
      BY <1>1, <1>3, <3>1, <3>2
    <3>3. CASE s \notin F
      BY <1>3, <3>3 DEF Inv, VolumeOK
    <3> QED
      BY <3>2, <3>3
  <2>3. \A s \in w.lost : w.disk[s] = Torn /\ w.media[s] \subseteq legal[s] \cup {Torn}
    BY <1>1, <1>3 DEF Inv, VolumeOK, Volume
  <2>4. w.tail \in Sector => Torn \in legal[w.tail] /\ Torn \in w.media[w.tail]
    BY <1>1, <1>2, <1>3 DEF Inv, VolumeOK, Volume
  <2> QED
    BY <1>4, <2>1, <2>2, <2>3, <2>4 DEF VolumeOK
<1>6. \A i \in Slot : f[i] = IF i \in P THEN [entries[i] EXCEPT !.dirty = FALSE] ELSE entries[i]
  BY DEF FlushedEntries
<1>7. \A i \in Slot : /\ f[i] \in Entry
                      /\ f[i].sector_idx = entries[i].sector_idx
                      /\ f[i].data = entries[i].data
                      /\ f[i].pinned = entries[i].pinned
                      /\ i \in P => ~f[i].dirty
                      /\ i \notin P => f[i] = entries[i]
  <2>1. \A i \in Slot : entries[i] \in Entry
    BY DEF Inv, SlotsOK
  <2> QED
    BY <1>6, <2>1 DEF Entry
<1>8. \A i \in P : i \in Slot /\ entries[i].dirty /\ entries[i].sector_idx \in F
  BY DEF DirtySlots, F, FlushedSectors
<1>9. f \in [Slot -> Entry]
  BY <1>7 DEF FlushedEntries
<1> HIDE DEF f
<1>10. SlotsOK(f, w, legal)
  <2>1. \A i \in Slot : f[i].sector_idx = NoSector => f[i] = Empty
    BY <1>1, <1>6, <1>7, <1>8
       DEF Inv, SlotsOK
  <2>2. ASSUME NEW i \in Slot, f[i].sector_idx \in Sector \ w.lost, ~f[i].dirty
        PROVE  w.disk[f[i].sector_idx] = f[i].data
    <3>1. View(entries[i].sector_idx) = entries[i].data
      BY <1>7, <2>2, ViewCached DEF Inv, View
    <3>2. CASE i \in P
      BY <1>3, <1>7, <1>8, <2>2, <3>1, <3>2
    <3>3. CASE i \notin P
      BY <1>1, <1>3, <1>7, <2>2, <3>3 DEF Inv, SlotsOK
    <3> QED
      BY <3>2, <3>3
  <2>3. ASSUME NEW i \in Slot, f[i].dirty
        PROVE  Torn \in legal[f[i].sector_idx] /\ f[i].data \in legal[f[i].sector_idx]
    BY <1>7, <2>3 DEF Inv, SlotsOK
  <2>4. \A i, j \in Slot : f[i].sector_idx = f[j].sector_idx
                             /\ f[i].sector_idx # NoSector => i = j
    BY <1>7 DEF Inv, SlotsOK
  <2>5. \A i \in Slot : f[i].sector_idx \in Sector => f[i].data \in Data
    BY <1>7 DEF Inv, SlotsOK
  <2> QED
    BY <1>9, <2>1, <2>2, <2>3, <2>4, <2>5 DEF SlotsOK
<1>11. ASSUME NEW s \in Sector
       PROVE  ViewIn(f, w, s) = View(s)
  <2>1. CASE \E i \in Slot : entries[i].sector_idx = s
    <3>1. PICK i \in Slot : entries[i].sector_idx = s
      BY <2>1
    <3>2. ViewIn(f, w, s) = f[i].data /\ View(s) = entries[i].data
      BY <1>7, <1>10, <3>1, ViewCached DEF Inv, View
    <3> QED
      BY <1>7, <3>2
  <2>2. CASE ~\E i \in Slot : entries[i].sector_idx = s
    <3>1. ViewIn(f, w, s) = w.disk[s] /\ View(s) = vol.disk[s]
      BY <1>7, <2>2, ViewUncached DEF View
    <3>2. s \notin F
      BY <1>8, <2>2 DEF F, FlushedSectors
    <3> QED
      BY <1>3, <3>1, <3>2
  <2> QED
    BY <2>1, <2>2
<1> QED
  BY <1>5, <1>10, <1>11 DEF f, w

\* What moving the volume under the flushed slots leaves of the views.
LEMMA FlushedMoved ==
    ASSUME Inv, NEW P \in SUBSET DirtySlots, NEW t \in LastWritten(P), NEW w, NEW S,
           S \subseteq Sector, VolumeOK(w, legal), Frame(FlushedVolume(P, t), w, legal, S),
           SlotsOK(FlushedEntries(P), w, legal),
           ViewFrame(FlushedEntries(P), FlushedVolume(P, t), FlushedEntries(P), w),
           \A s \in S : Torn \in legal[s]
    PROVE  Harmless(FlushedEntries(P), w)
<1>1. \A s \in Sector : ViewIn(FlushedEntries(P), FlushedVolume(P, t), s) = View(s)
  BY FlushedOK
<1>2. FlushedVolume(P, t).lost \subseteq vol.lost
  BY DEF FlushedVolume
<1>3. ViewFrame(entries, vol, FlushedEntries(P), w)
  BY <1>1, <1>2 DEF ViewFrame, View
<1> QED
  BY <1>2, <1>3 DEF Harmless, Frame

LEMMA FailAtOK ==
    ASSUME Inv, NEW k \in DirtySlots, NEW r \in FailAt(k)
    PROVE  Harmless(r.entries, r.vol) /\ r.ok = FALSE
<1> DEFINE P == {i \in DirtySlots : i < k}
<1>1. PICK t \in LastWritten(P) :
         r \in {[ok |-> FALSE, entries |-> FlushedEntries(P), vol |-> q.vol] :
                  q \in {q \in encrypt_sector_at(FlushedVolume(P, t), entries[k].sector_idx,
                                                entries[k].data) : ~q.ok}}
  BY DEF FailAt
<1>2. PICK q \in encrypt_sector_at(FlushedVolume(P, t), entries[k].sector_idx, entries[k].data) :
         r = [ok |-> FALSE, entries |-> FlushedEntries(P), vol |-> q.vol]
  BY <1>1
<1>3. P \in SUBSET DirtySlots /\ k \in Slot /\ k \notin P
  BY DEF DirtySlots, Slot
<1> HIDE DEF P
<1>4. /\ VolumeOK(FlushedVolume(P, t), legal)
      /\ SlotsOK(FlushedEntries(P), FlushedVolume(P, t), legal)
  BY <1>3, FlushedOK
<1>5. FlushedEntries(P)[k] = entries[k] /\ entries[k].dirty
  BY <1>3 DEF FlushedEntries, DirtySlots
<1>6. /\ entries[k].sector_idx \in Sector
      /\ VolumeOK(q.vol, legal)
      /\ SlotsOK(FlushedEntries(P), q.vol, legal)
      /\ Frame(FlushedVolume(P, t), q.vol, legal, {entries[k].sector_idx})
      /\ ViewFrame(FlushedEntries(P), FlushedVolume(P, t), FlushedEntries(P), q.vol)
  <2>1. LegalOK(legal) /\ FlushedEntries(P)[k].dirty
    BY <1>5 DEF Inv
  <2>2. q \in encrypt_sector_at(FlushedVolume(P, t), FlushedEntries(P)[k].sector_idx,
                                FlushedEntries(P)[k].data)
    BY <1>2, <1>5
  <2>3. /\ FlushedEntries(P)[k].sector_idx \in Sector
        /\ VolumeOK(q.vol, legal)
        /\ SlotsOK(FlushedEntries(P), q.vol, legal)
        /\ Frame(FlushedVolume(P, t), q.vol, legal, {FlushedEntries(P)[k].sector_idx})
        /\ ViewFrame(FlushedEntries(P), FlushedVolume(P, t), FlushedEntries(P), q.vol)
    BY <1>3, <1>4, <2>1, <2>2, WriteBackOK
  <2> QED
    BY <1>5, <2>3
<1>7. Torn \in legal[entries[k].sector_idx]
  BY <1>3, <1>5 DEF Inv, SlotsOK
<1>8. Harmless(FlushedEntries(P), q.vol)
  BY <1>3, <1>6, <1>7, FlushedMoved
<1> QED
  BY <1>2, <1>8

\* After an acknowledged flush nothing is dirty, and the medium holds exactly
\* what the volume does.
Acknowledged(f, w) ==
    /\ \A i \in Slot : ~f[i].dirty
    /\ w.tail = NoSector
    /\ w.media = [s \in Sector |-> {w.disk[s]}]
    /\ \A s \in Sector : ViewIn(f, w, s) = View(s)
    /\ w.lost \subseteq vol.lost

LEMMA AllWrittenOK ==
    ASSUME Inv, NEW r \in AllWritten
    PROVE  /\ Harmless(r.entries, r.vol)
           /\ r.ok \in BOOLEAN
           /\ r.ok => Acknowledged(r.entries, r.vol)
<1> DEFINE P == DirtySlots
           f == FlushedEntries(P)
<1>0. PICK t \in LastWritten(P) :
         \E q \in Drain(FlushedVolume(P, t)) :
            r \in {[ok |-> FALSE, entries |-> f, vol |-> q.vol]}
                  \cup (IF q.ok THEN {[ok |-> TRUE, entries |-> f, vol |-> Synced(q.vol)]}
                        ELSE {})
  BY DEF AllWritten
<1>1. PICK q \in Drain(FlushedVolume(P, t)) :
         \/ r = [ok |-> FALSE, entries |-> f, vol |-> q.vol]
         \/ q.ok /\ r = [ok |-> TRUE, entries |-> f, vol |-> Synced(q.vol)]
  BY <1>0
<1>2. /\ VolumeOK(FlushedVolume(P, t), legal)
      /\ SlotsOK(f, FlushedVolume(P, t), legal)
      /\ \A s \in Sector : ViewIn(f, FlushedVolume(P, t), s) = View(s)
  BY FlushedOK
<1>3. /\ VolumeOK(q.vol, legal) /\ q.vol.tail = NoSector
      /\ Frame(FlushedVolume(P, t), q.vol, legal, {})
  BY <1>2, DrainOK DEF Inv
<1>4. /\ SlotsOK(f, q.vol, legal)
      /\ ViewFrame(f, FlushedVolume(P, t), f, q.vol)
  BY <1>2, <1>3, SlotsFrame
<1>5. Harmless(f, q.vol)
  BY <1>3, <1>4, FlushedMoved
<1> HIDE DEF f
<1>6. CASE r = [ok |-> FALSE, entries |-> f, vol |-> q.vol]
  BY <1>5, <1>6
<1>7. CASE q.ok /\ r = [ok |-> TRUE, entries |-> f, vol |-> Synced(q.vol)]
  <2> DEFINE w == Synced(q.vol)
  <2>1. /\ w.disk = q.vol.disk /\ w.lost = q.vol.lost /\ w.tail = NoSector
        /\ w.media = [s \in Sector |-> {q.vol.disk[s]}]
        /\ w = [disk |-> w.disk, media |-> w.media, tail |-> w.tail, lost |-> w.lost]
    BY <1>3 DEF Synced
  <2> HIDE DEF w
  <2>2. w \in Volume
    BY <1>3, <2>1 DEF VolumeOK, Volume
  <2>3. VolumeOK(w, legal)
    <3>1. ASSUME NEW s \in Sector
          PROVE  w.disk[s] \in w.media[s] /\ w.media[s] = {q.vol.disk[s]}
      BY <2>1
    <3>2. ASSUME NEW s \in Sector \ w.lost
          PROVE  w.media[s] \subseteq legal[s]
      <4>1. q.vol.disk[s] \in q.vol.media[s] /\ q.vol.media[s] \subseteq legal[s]
        BY <1>3, <2>1 DEF VolumeOK
      <4> QED
        BY <3>1, <4>1
    <3>3. \A s \in w.lost : w.disk[s] = Torn /\ w.media[s] \subseteq legal[s] \cup {Torn}
      BY <1>3, <2>1, <3>1 DEF VolumeOK, Volume
    <3> QED
      BY <2>1, <2>2, <3>1, <3>2, <3>3 DEF VolumeOK
  <2>4. SlotsOK(f, w, legal)
    BY <1>4, <2>1 DEF SlotsOK
  <2>5. \A s \in Sector : ViewIn(f, w, s) = ViewIn(f, q.vol, s)
    BY <2>1 DEF ViewIn
  <2>6. Harmless(f, w)
    BY <1>5, <2>1, <2>3, <2>4, <2>5 DEF Harmless, ViewFrame
  <2>7. q.vol = Settled(FlushedVolume(P, t))
    BY <1>7 DEF Drain
  <2>8. \A s \in Sector : ViewIn(f, w, s) = View(s)
    <3>1. w.disk = FlushedVolume(P, t).disk
      BY <2>1, <2>7 DEF Settled
    <3>2. \A s \in Sector : ViewIn(f, w, s) = ViewIn(f, FlushedVolume(P, t), s)
      BY <3>1 DEF ViewIn
    <3> QED
      BY <1>2, <3>2 DEF f
  <2>9. \A i \in Slot : ~f[i].dirty
    <3>1. \A i \in Slot : /\ entries[i] \in Entry
                          /\ f[i] = IF i \in P THEN [entries[i] EXCEPT !.dirty = FALSE]
                                    ELSE entries[i]
      BY DEF Inv, SlotsOK, f, FlushedEntries
    <3> QED
      BY <3>1 DEF DirtySlots, Entry
  <2>10. w.lost \subseteq vol.lost
    BY <2>1, <2>7 DEF Settled, FlushedVolume
  <2>11. Acknowledged(f, w)
    BY <2>1, <2>8, <2>9, <2>10 DEF Acknowledged
  <2>12. r.ok = TRUE /\ r.entries = f /\ r.vol = w
    BY <1>7 DEF w
  <2> QED
    BY <2>6, <2>11, <2>12
<1> QED
  BY <1>1, <1>6, <1>7

LEMMA FlushAllOK ==
    ASSUME Inv, NEW r \in cache_flush_all
    PROVE  /\ Harmless(r.entries, r.vol)
           /\ r.ok \in BOOLEAN
           /\ r.ok => Acknowledged(r.entries, r.vol)
<1>1. CASE r \in AllWritten
  BY <1>1, AllWrittenOK
<1>2. CASE \E k \in DirtySlots : r \in FailAt(k)
  <2>1. PICK k \in DirtySlots : r \in FailAt(k)
    BY <1>2
  <2> QED
    BY <2>1, FailAtOK
<1> QED
  BY <1>1, <1>2 DEF cache_flush_all

------------------------------------------------------------------------------
(* The invariants *)

LEMMA InitInv == Init => Inv
<1> SUFFICES ASSUME Init PROVE Inv
  OBVIOUS
<1>1. PICK d \in [Sector -> Data] :
         vol = [disk |-> d, media |-> [s \in Sector |-> {d[s]}],
                tail |-> NoSector, lost |-> {}]
  BY DEF Init
<1>2. LegalOK(legal) /\ VolumeOK(vol, legal)
  BY <1>1 DEF Init, LegalOK, VolumeOK, Volume, Content
<1>3. Empty \in Entry
  BY DEF Empty, Entry
<1>4. SlotsOK(entries, vol, legal)
  BY <1>3 DEF Init, SlotsOK, Empty
<1>5. RanksOK
  BY DEF Init, RanksOK
<1> QED
  BY <1>2, <1>4, <1>5 DEF Inv

\* What writing through a slot does: the observer counts the new content.
Widened(s, d) == [legal EXCEPT ![s] = @ \cup {d, Torn}]

Overwrites(e, f, i, s, d) ==
    /\ e[i].sector_idx = s
    /\ f \in [Slot -> Entry]
    /\ \A j \in Slot \ {i} : f[j] = e[j]
    /\ f[i].sector_idx = s /\ f[i].data = d /\ f[i].dirty = TRUE

LEMMA OverwriteOK ==
    ASSUME Inv, NEW s \in Sector, NEW d \in Data, NEW e, NEW w, NEW i \in Slot, NEW f,
           Harmless(e, w), Overwrites(e, f, i, s, d)
    PROVE  /\ LegalOK(Widened(s, d)) /\ VolumeOK(w, Widened(s, d))
           /\ SlotsOK(f, w, Widened(s, d))
           /\ \A t \in Sector : ViewIn(f, w, t) = IF t = s THEN d ELSE ViewIn(e, w, t)
<1> DEFINE l == Widened(s, d)
<1> USE DEF Overwrites
<1>1. LegalOK(l) /\ \A t \in Sector : legal[t] \subseteq l[t] /\ {d, Torn} \subseteq l[s]
  BY DEF Inv, LegalOK, Content, Widened
<1> HIDE DEF l
<1>2. VolumeOK(w, l)
  BY <1>1 DEF Harmless, VolumeOK, Volume
<1>3. SlotsOK(e, w, legal)
  BY DEF Harmless
<1>7. SlotsOK(f, w, l)
  <2>1. \A j, k \in Slot : f[j].sector_idx = f[k].sector_idx
                             /\ f[j].sector_idx # NoSector => j = k
    BY <1>3 DEF SlotsOK
  <2>2. ASSUME NEW j \in Slot
        PROVE  /\ f[j].sector_idx = NoSector => f[j] = Empty
               /\ f[j].sector_idx \in Sector => f[j].data \in Data
               /\ f[j].sector_idx \in Sector \ w.lost /\ ~f[j].dirty
                     => w.disk[f[j].sector_idx] = f[j].data
    BY <1>3 DEF SlotsOK
  <2>3. ASSUME NEW j \in Slot, f[j].dirty
        PROVE  Torn \in l[f[j].sector_idx] /\ f[j].data \in l[f[j].sector_idx]
    <3>1. CASE j = i
      BY <1>1, <3>1
    <3>2. CASE j # i
      <4>1. f[j] = e[j] /\ e[j].dirty /\ e[j].sector_idx \in Sector
        BY <1>3, <2>3, <3>2 DEF SlotsOK, Entry, Empty
      <4> QED
        BY <1>1, <1>3, <4>1 DEF SlotsOK
    <3> QED
      BY <3>1, <3>2
  <2> QED
    BY <2>1, <2>2, <2>3 DEF SlotsOK
<1>8. ASSUME NEW t \in Sector
      PROVE  ViewIn(f, w, t) = IF t = s THEN d ELSE ViewIn(e, w, t)
  <2>1. CASE t = s
    BY <1>7, <2>1, ViewCached
  <2>2. CASE t # s /\ \E j \in Slot : e[j].sector_idx = t
    <3>1. PICK j \in Slot : e[j].sector_idx = t
      BY <2>2
    <3>2. f[j] = e[j]
      BY <2>2, <3>1
    <3>3. ViewIn(f, w, t) = e[j].data /\ ViewIn(e, w, t) = e[j].data
      BY <1>3, <1>7, <3>1, <3>2, ViewCached
    <3> QED
      BY <2>2, <3>3
  <2>3. CASE t # s /\ ~\E j \in Slot : e[j].sector_idx = t
    <3>1. \A j \in Slot : f[j].sector_idx # t
      BY <2>3
    <3> QED
      BY <2>3, <3>1, ViewUncached
  <2> QED
    BY <2>1, <2>2, <2>3
<1> QED
  BY <1>1, <1>2, <1>7, <1>8 DEF l

\* Pinning a slot changes nothing the invariants speak of.
LEMMA PinOK ==
    ASSUME NEW l, NEW e, NEW w, SlotsOK(e, w, l), NEW i \in Slot, e[i].sector_idx \in Sector,
           NEW f \in [Slot -> Entry], \A j \in Slot \ {i} : f[j] = e[j],
           f[i].sector_idx = e[i].sector_idx, f[i].data = e[i].data,
           f[i].dirty = e[i].dirty
    PROVE  SlotsOK(f, w, l) /\ \A t \in Sector : ViewIn(f, w, t) = ViewIn(e, w, t)
<1>1. \A j \in Slot : /\ f[j].sector_idx = e[j].sector_idx
                      /\ f[j].data = e[j].data
                      /\ f[j].dirty = e[j].dirty
                      /\ j # i => f[j] = e[j]
  OBVIOUS
<1>3. SlotsOK(f, w, l)
  BY <1>1 DEF SlotsOK
<1>4. ASSUME NEW t \in Sector
      PROVE  ViewIn(f, w, t) = ViewIn(e, w, t)
  <2>1. CASE \E j \in Slot : e[j].sector_idx = t
    <3>1. PICK j \in Slot : e[j].sector_idx = t
      BY <2>1
    <3> QED
      BY <1>1, <1>3, <3>1, ViewCached
  <2>2. CASE ~\E j \in Slot : e[j].sector_idx = t
    BY <1>1, <2>2, ViewUncached
  <2> QED
    BY <2>1, <2>2
<1> QED
  BY <1>3, <1>4

------------------------------------------------------------------------------
(* The operations: each keeps the invariant and implements SectorStore *)

\* The sectors whose view becomes unreadable.
Spoiled(f, w) == {s \in Sector : ViewIn(f, w, s) # View(s)}

LEMMA HarmlessStep ==
    ASSUME Inv, Harmless(entries', vol'), RanksOK', UNCHANGED legal
    PROVE  Inv' /\ Store!Internal
<1>1. Inv'
  BY DEF Inv, Harmless, LegalOK, VolumeOK, Volume, SlotsOK, RanksOK
<1> DEFINE D == Spoiled(entries', vol')
<1>2. Store!Disturb(D)
  BY DEF Harmless, ViewFrame, Spoiled, View, Store!Disturb, Store!Unsynced, Inv, VolumeOK, Volume
<1>3. [s \in Sector |-> View(s)]' =
          [t \in Sector |-> IF t \in D THEN Torn ELSE [s \in Sector |-> View(s)][t]]
  BY DEF Harmless, ViewFrame, Spoiled, View
<1>4. D \in SUBSET Sector
  BY DEF Spoiled
<1> QED
  BY <1>1, <1>2, <1>3, <1>4 DEF Store!Internal

LEMMA GetSectorStep ==
    ASSUME Inv, NEW s \in Sector, GetSector(s)
    PROVE  Inv' /\ Store!Internal
<1>1. PICK r \in cache_get_sector(s) :
         /\ entries' = r.entries
         /\ vol' = r.vol
         /\ last_access' = IF r.ok THEN Touched(r.slot) ELSE last_access
         /\ UNCHANGED legal
  BY DEF GetSector
<1>2. Harmless(r.entries, r.vol) /\ r.ok \in BOOLEAN /\ r.slot \in Slot
  BY GetOK
<1>3. RanksOK'
  <2>1. CASE r.ok
    BY <1>1, <1>2, <2>1, TouchedOK DEF Inv, RanksOK
  <2>2. CASE ~r.ok
    BY <1>1, <2>2 DEF Inv, RanksOK
  <2> QED
    BY <2>1, <2>2
<1> QED
  BY <1>1, <1>2, <1>3, HarmlessStep

LEMMA FlushSectorStep ==
    ASSUME Inv, NEW s \in Sector, FlushSector(s)
    PROVE  Inv' /\ Store!Internal
<1>1. PICK i \in Holding(s) \cap DirtySlots :
         \E r \in encrypt_sector_at(vol, s, entries[i].data) :
            /\ entries' = IF r.ok THEN [entries EXCEPT ![i] = [@ EXCEPT !.dirty = FALSE]]
                          ELSE entries
            /\ vol' = r.vol
            /\ UNCHANGED <<last_access, legal>>
  BY DEF FlushSector
<1>2. PICK r \in encrypt_sector_at(vol, s, entries[i].data) :
         /\ entries' = IF r.ok THEN [entries EXCEPT ![i] = [@ EXCEPT !.dirty = FALSE]]
                       ELSE entries
         /\ vol' = r.vol
         /\ UNCHANGED <<last_access, legal>>
  BY <1>1
<1>3. i \in Slot /\ entries[i].sector_idx = s /\ entries[i].dirty
  BY DEF Holding, DirtySlots
<1>4. /\ VolumeOK(r.vol, legal)
      /\ SlotsOK(entries, r.vol, legal)
      /\ r.ok \in BOOLEAN
      /\ Frame(vol, r.vol, legal, {s})
      /\ ViewFrame(entries, vol, entries, r.vol)
      /\ r.ok => r.vol.disk[s] = entries[i].data /\ s \notin r.vol.lost
  <2>1. LegalOK(legal) /\ VolumeOK(vol, legal) /\ SlotsOK(entries, vol, legal)
    BY DEF Inv
  <2>2. r \in encrypt_sector_at(vol, entries[i].sector_idx, entries[i].data)
    BY <1>3
  <2>3. /\ VolumeOK(r.vol, legal)
        /\ SlotsOK(entries, r.vol, legal)
        /\ r.ok \in BOOLEAN
        /\ Frame(vol, r.vol, legal, {entries[i].sector_idx})
        /\ ViewFrame(entries, vol, entries, r.vol)
        /\ r.ok => /\ r.vol.disk[entries[i].sector_idx] = entries[i].data
                   /\ entries[i].sector_idx \notin r.vol.lost
    BY <1>3, <2>1, <2>2, WriteBackOK
  <2> QED
    BY <1>3, <2>3
<1>5. Torn \in legal[s]
  BY <1>3 DEF Inv, SlotsOK
<1>6. CASE r.ok
  <2> DEFINE f == [entries EXCEPT ![i] = [@ EXCEPT !.dirty = FALSE]]
  <2>1. \A j \in Slot : f[j] = IF j = i THEN [entries[i] EXCEPT !.dirty = FALSE] ELSE entries[j]
    BY DEF Inv, SlotsOK
  <2>2. /\ f[i] \in Entry /\ f[i].sector_idx = s /\ f[i].data = entries[i].data
        /\ ~f[i].dirty
        /\ \A j \in Slot \ {i} : f[j] = entries[j]
    <3> HIDE DEF f
    <3>1. entries[i] \in Entry
      BY <1>3 DEF Inv, SlotsOK
    <3>2. f[i] = [entries[i] EXCEPT !.dirty = FALSE]
      BY <1>3, <2>1
    <3>3. f[i] \in Entry /\ f[i].sector_idx = entries[i].sector_idx
             /\ f[i].data = entries[i].data /\ f[i].dirty = FALSE
      BY <3>1, <3>2 DEF Entry
    <3> QED
      BY <1>3, <2>1, <3>3
  <2>3. f \in [Slot -> Entry]
    BY <2>2 DEF Inv, SlotsOK
  <2> HIDE DEF f
  <2>4. SlotsOK(f, r.vol, legal)
    BY <1>3, <1>4, <1>6, <2>2, <2>3 DEF SlotsOK
  <2>5. ASSUME NEW t \in Sector
        PROVE  ViewIn(f, r.vol, t) = ViewIn(entries, r.vol, t)
    <3>1. CASE \E j \in Slot : entries[j].sector_idx = t
      <4>1. PICK j \in Slot : entries[j].sector_idx = t
        BY <3>1
      <4>2. f[j].sector_idx = t /\ f[j].data = entries[j].data
        BY <1>3, <2>2, <4>1
      <4> QED
        BY <1>4, <2>4, <4>1, <4>2, ViewCached
    <3>2. CASE ~\E j \in Slot : entries[j].sector_idx = t
      <4>1. \A j \in Slot : f[j].sector_idx # t
        BY <1>3, <2>2, <3>2
      <4> QED
        BY <3>2, <4>1, ViewUncached
    <3> QED
      BY <3>1, <3>2
  <2>6. Harmless(f, r.vol)
    BY <1>4, <1>5, <2>4, <2>5 DEF Harmless, ViewFrame, Frame
  <2>7. Harmless(entries', vol')
    BY <1>2, <1>6, <2>6 DEF f
  <2> QED
    BY <1>2, <2>7, HarmlessStep DEF Inv, RanksOK
<1>7. CASE ~r.ok
  <2>1. Harmless(entries, r.vol)
    BY <1>4, <1>5 DEF Harmless, Frame
  <2>2. Harmless(entries', vol')
    BY <1>2, <1>7, <2>1
  <2> QED
    BY <1>2, <2>2, HarmlessStep DEF Inv, RanksOK
<1> QED
  BY <1>6, <1>7

LEMMA PinSectorStep ==
    ASSUME Inv, NEW s \in Sector, PinSector(s)
    PROVE  Inv' /\ Store!Internal
<1>1. PICK r \in cache_get_sector(s) :
         /\ r.ok
         /\ entries' = [r.entries EXCEPT ![r.slot] = [@ EXCEPT !.pinned = TRUE]]
         /\ vol' = r.vol
         /\ last_access' = Touched(r.slot)
         /\ UNCHANGED legal
  BY DEF PinSector
<1> DEFINE e == r.entries
           i == r.slot
           f == [e EXCEPT ![i] = [@ EXCEPT !.pinned = TRUE]]
<1>2. Harmless(e, r.vol) /\ i \in Slot /\ e[i].sector_idx = s
  BY <1>1, GetOK
<1>3. /\ f \in [Slot -> Entry] /\ \A j \in Slot \ {i} : f[j] = e[j]
      /\ f[i].sector_idx = e[i].sector_idx /\ f[i].data = e[i].data
      /\ f[i].dirty = e[i].dirty
  <2>1. e \in [Slot -> Entry]
    BY <1>2 DEF Harmless, SlotsOK
  <2>2. f = [j \in Slot |-> IF j = i THEN [e[i] EXCEPT !.pinned = TRUE] ELSE e[j]]
    BY <2>1
  <2> HIDE DEF f, e, i
  <2>3. f[i] = [e[i] EXCEPT !.pinned = TRUE]
    BY <1>2, <2>2
  <2>4. /\ f[i] \in Entry /\ f[i].sector_idx = e[i].sector_idx
        /\ f[i].data = e[i].data /\ f[i].dirty = e[i].dirty
    BY <1>2, <2>1, <2>3 DEF Entry
  <2> QED
    BY <1>2, <2>1, <2>2, <2>4
<1> HIDE DEF f, e, i
<1>4. SlotsOK(f, r.vol, legal) /\ \A t \in Sector : ViewIn(f, r.vol, t) = ViewIn(e, r.vol, t)
  BY <1>2, <1>3, PinOK DEF Harmless
<1>5. Harmless(f, r.vol)
  BY <1>2, <1>4 DEF Harmless, ViewFrame
<1>6. RanksOK'
  BY <1>1, <1>2, TouchedOK DEF Inv, RanksOK, i
<1>7. Harmless(entries', vol')
  BY <1>1, <1>5 DEF f, e, i
<1> QED
  BY <1>1, <1>6, <1>7, HarmlessStep

LEMMA WriteSectorStep ==
    ASSUME Inv, NEW s \in Sector, NEW d \in Data, WriteSector(s, d)
    PROVE  Inv' /\ Store!Write(s, d)
<1>1. PICK r \in cache_get_sector(s) :
         /\ r.ok
         /\ entries' = [r.entries EXCEPT ![r.slot] = [@ EXCEPT !.data = d, !.dirty = TRUE]]
         /\ vol' = r.vol
         /\ last_access' = Touched(r.slot)
         /\ legal' = [legal EXCEPT ![s] = @ \cup {d, Torn}]
  BY DEF WriteSector
<1> DEFINE e == r.entries
           i == r.slot
<1>2. Harmless(e, r.vol) /\ i \in Slot /\ e[i].sector_idx = s
  BY <1>1, GetOK
<1> HIDE DEF e, i
<1>3. /\ entries' \in [Slot -> Entry] /\ \A j \in Slot \ {i} : entries'[j] = e[j]
      /\ entries'[i].sector_idx = s /\ entries'[i].data = d /\ entries'[i].dirty = TRUE
  <2>1. e \in [Slot -> Entry]
    BY <1>2 DEF Harmless, SlotsOK
  <2>2. entries' = [e EXCEPT ![i] = [@ EXCEPT !.data = d, !.dirty = TRUE]]
    BY <1>1 DEF e, i
  <2>3. entries' = [j \in Slot |-> IF j = i THEN [e[i] EXCEPT !.data = d, !.dirty = TRUE]
                                   ELSE e[j]]
    BY <2>1, <2>2
  <2>4. entries'[i] = [e[i] EXCEPT !.data = d, !.dirty = TRUE]
    BY <1>2, <2>3
  <2>5. /\ entries'[i] \in Entry /\ entries'[i].sector_idx = e[i].sector_idx
        /\ entries'[i].data = d /\ entries'[i].dirty = TRUE
    BY <1>2, <2>1, <2>4 DEF Entry
  <2> QED
    BY <1>2, <2>1, <2>3, <2>5
<1>4. /\ LegalOK(legal') /\ VolumeOK(r.vol, legal') /\ SlotsOK(entries', r.vol, legal')
      /\ \A t \in Sector : ViewIn(entries', r.vol, t) = IF t = s THEN d ELSE ViewIn(e, r.vol, t)
  <2>1. legal' = Widened(s, d)
    BY <1>1 DEF Widened
  <2>2. Overwrites(e, entries', i, s, d)
    BY <1>2, <1>3 DEF Overwrites
  <2>3. Harmless(e, r.vol) /\ i \in Slot
    BY <1>2
  <2> QED
    BY <2>1, <2>2, <2>3, OverwriteOK
<1>5. RanksOK'
  BY <1>1, <1>2, TouchedOK DEF Inv, RanksOK, i
<1>6. Inv'
  BY <1>1, <1>4, <1>5 DEF Inv, LegalOK, VolumeOK, SlotsOK, Volume
<1> DEFINE D == Spoiled(e, r.vol)
<1>7. D \in SUBSET Sector /\ Store!Disturb(D)
  BY <1>1, <1>2 DEF Harmless, ViewFrame, Spoiled, View, Store!Disturb, Store!Unsynced,
                    Inv, VolumeOK, Volume
<1>8. [t \in Sector |-> View(t)]' =
         [t \in Sector |-> IF t = s THEN d
                           ELSE IF t \in D THEN Torn ELSE [u \in Sector |-> View(u)][t]]
  <2>1. \A t \in Sector : View(t)' = ViewIn(entries', r.vol, t)
    BY <1>1 DEF View
  <2>2. \A t \in Sector : ViewIn(e, r.vol, t) = IF t \in D THEN Torn ELSE View(t)
    BY <1>2 DEF Harmless, ViewFrame, Spoiled, View
  <2> QED
    BY <1>4, <2>1, <2>2
<1> QED
  BY <1>1, <1>6, <1>7, <1>8 DEF Store!Write

LEMMA FlushAllStep ==
    ASSUME Inv, FlushAll
    PROVE  Inv' /\ (Store!Internal \/ Store!Sync)
<1>1. PICK r \in cache_flush_all :
        /\ entries' = r.entries
        /\ vol' = r.vol
        /\ legal' = IF r.ok THEN [s \in Sector |-> {View(s)}] ELSE legal
        /\ UNCHANGED last_access
  BY DEF FlushAll
<1>2. /\ Harmless(r.entries, r.vol)
      /\ r.ok \in BOOLEAN
      /\ r.ok => Acknowledged(r.entries, r.vol)
  BY FlushAllOK
<1>3. RanksOK'
  BY <1>1 DEF Inv, RanksOK
<1>4. CASE ~r.ok
  BY <1>1, <1>2, <1>3, <1>4, HarmlessStep
<1>5. CASE r.ok
  <2>1. /\ \A i \in Slot : ~entries'[i].dirty
        /\ vol'.tail = NoSector
        /\ vol'.media = [s \in Sector |-> {vol'.disk[s]}]
        /\ \A s \in Sector : ViewIn(entries', vol', s) = View(s)
        /\ vol'.lost \subseteq vol.lost
        /\ VolumeOK(vol', legal) /\ SlotsOK(entries', vol', legal)
    BY <1>1, <1>2, <1>5 DEF Acknowledged, Harmless
  <2>2. legal' = [s \in Sector |-> {View(s)}]
    BY <1>1, <1>5
  <2>3. ASSUME NEW s \in Sector
        PROVE  /\ View(s) \in Content
               /\ vol'.media[s] = {vol'.disk[s]}
               /\ s \notin vol'.lost => vol'.disk[s] = View(s)
    <3>1. View(s) \in Content
      <4>1. CASE \E i \in Slot : entries[i].sector_idx = s
        <5>1. PICK i \in Slot : entries[i].sector_idx = s
          BY <4>1
        <5>2. View(s) = entries[i].data
          BY <5>1, ViewCached DEF Inv, View
        <5> QED
          BY <5>1, <5>2 DEF Inv, SlotsOK, Content
      <4>2. CASE ~\E i \in Slot : entries[i].sector_idx = s
        BY <4>2, ViewUncached DEF Inv, View, VolumeOK, Volume
      <4> QED
        BY <4>1, <4>2
    <3>2. s \notin vol'.lost => ViewIn(entries', vol', s) = vol'.disk[s]
      BY <2>1, ViewClean
    <3> QED
      BY <2>1, <3>1, <3>2
  <2>4. LegalOK(legal')
    BY <2>2, <2>3 DEF LegalOK
  <2>5. VolumeOK(vol', legal')
    <3>1. \A s \in Sector \ vol'.lost : vol'.media[s] \subseteq legal'[s]
      BY <2>2, <2>3
    <3>2. \A s \in vol'.lost : vol'.disk[s] = Torn /\ vol'.media[s] \subseteq legal'[s] \cup {Torn}
      BY <2>1, <2>3 DEF VolumeOK, Volume
    <3> QED
      BY <2>1, <3>1, <3>2 DEF VolumeOK
  <2>6. SlotsOK(entries', vol', legal')
    BY <2>1 DEF SlotsOK
  <2>7. Inv'
    BY <1>3, <2>4, <2>5, <2>6 DEF Inv, LegalOK, VolumeOK, SlotsOK, Volume
  <2>8. [s \in Sector |-> View(s)]' = [s \in Sector |-> View(s)]
    BY <2>1 DEF View
  <2>9. legal' = [t \in Sector |-> {[s \in Sector |-> View(s)][t]}]
    BY <2>2
  <2> QED
    BY <2>1, <2>7, <2>8, <2>9 DEF Store!Sync
<1> QED
  BY <1>2, <1>4, <1>5

\* Empty slots over a volume: what is read is what the file holds.
LEMMA EmptySlotsOK ==
    ASSUME NEW l, NEW w, NEW e, e = [i \in Slot |-> Empty]
    PROVE  SlotsOK(e, w, l) /\ \A s \in Sector : ViewIn(e, w, s) = w.disk[s]
<1>1. Empty \in Entry
  BY DEF Empty, Entry
<1>2. SlotsOK(e, w, l)
  BY <1>1 DEF SlotsOK, Empty
<1>3. \A i \in Slot : e[i].sector_idx = NoSector
  BY DEF Empty
<1>4. ASSUME NEW s \in Sector
      PROVE  ViewIn(e, w, s) = w.disk[s]
  <2>1. \A i \in Slot : e[i].sector_idx # s
    BY <1>3
  <2> QED
    BY <2>1, ViewUncached
<1> QED
  BY <1>2, <1>4

LEMMA FreshRanks ==
    ASSUME NEW f, f = [i \in Slot |-> i]
    PROVE  f \in [Slot -> Slot] /\ \A i, j \in Slot : f[i] = f[j] => i = j
OBVIOUS

LEMMA DestroyStep ==
    ASSUME Inv, Destroy
    PROVE  Inv' /\ Store!Restart
<1>1. PICK r \in cache_flush_all :
         \E c \in Drain(r.vol) :
            /\ vol' = c.vol
            /\ entries' = [i \in Slot |-> Empty]
            /\ last_access' = [i \in Slot |-> i]
            /\ UNCHANGED legal
  BY DEF Destroy
<1>2. PICK c \in Drain(r.vol) :
         /\ vol' = c.vol
         /\ entries' = [i \in Slot |-> Empty]
         /\ last_access' = [i \in Slot |-> i]
         /\ UNCHANGED legal
  BY <1>1
<1>3. Harmless(r.entries, r.vol) /\ LegalOK(legal)
  BY FlushAllOK DEF Inv
<1>4. VolumeOK(c.vol, legal) /\ Frame(r.vol, c.vol, legal, {})
  BY <1>3, DrainOK DEF Harmless
<1>5. SlotsOK(entries', c.vol, legal) /\ \A s \in Sector : ViewIn(entries', c.vol, s) = c.vol.disk[s]
  BY <1>2, EmptySlotsOK
<1>6. RanksOK'
  BY <1>2, FreshRanks DEF RanksOK
<1>7. Inv'
  BY <1>2, <1>3, <1>4, <1>5, <1>6 DEF Inv, LegalOK, VolumeOK, SlotsOK, Volume
<1>8. vol'.lost \subseteq vol.lost \cup Store!Unsynced
  BY <1>2, <1>3, <1>4 DEF Harmless, Frame, Store!Unsynced
<1>9. ASSUME NEW s \in Sector
      PROVE  \/ [t \in Sector |-> View(t)]'[s] \in legal[s]
             \/ s \in vol.lost /\ [t \in Sector |-> View(t)]'[s] = Torn
  <2>1. [t \in Sector |-> View(t)]'[s] = c.vol.disk[s]
    BY <1>2, <1>5 DEF View
  <2>2. CASE s \in c.vol.lost
    BY <1>2, <1>4, <1>8, <2>1, <2>2 DEF VolumeOK, Store!Unsynced
  <2>3. CASE s \notin c.vol.lost
    BY <1>4, <2>1, <2>3 DEF VolumeOK
  <2> QED
    BY <2>2, <2>3
<1> QED
  BY <1>2, <1>7, <1>8, <1>9 DEF Store!Restart

LEMMA PowerLossStep ==
    ASSUME Inv, PowerLoss
    PROVE  Inv' /\ Store!Restart
<1>1. PICK d \in [Sector -> Content] :
         /\ \A s \in Sector : d[s] \in vol.media[s]
         /\ vol' = [disk |-> d, media |-> [s \in Sector |-> {d[s]}],
                    tail |-> NoSector, lost |-> {}]
         /\ legal' = [s \in Sector |-> {d[s]}]
         /\ entries' = [i \in Slot |-> Empty]
         /\ last_access' = [i \in Slot |-> i]
  BY DEF PowerLoss
<1>2. LegalOK(legal') /\ VolumeOK(vol', legal')
  BY <1>1 DEF LegalOK, VolumeOK, Volume
<1>3. SlotsOK(entries', vol', legal') /\ \A s \in Sector : ViewIn(entries', vol', s) = d[s]
  <2>1. /\ SlotsOK(entries', vol', legal')
        /\ \A s \in Sector : ViewIn(entries', vol', s) = vol'.disk[s]
    BY <1>1, EmptySlotsOK
  <2> QED
    BY <1>1, <2>1
<1>4. RanksOK'
  BY <1>1, FreshRanks DEF RanksOK
<1>5. Inv'
  BY <1>2, <1>3, <1>4 DEF Inv, LegalOK, VolumeOK, SlotsOK, Volume
<1>6. \A s \in Sector : [t \in Sector |-> View(t)]'[s] = d[s]
  BY <1>3 DEF View
<1>7. \A s \in Sector : d[s] \in legal[s] \/ (s \in vol.lost /\ d[s] = Torn)
  BY <1>1 DEF Inv, VolumeOK
<1>8. vol'.lost \subseteq vol.lost \cup Store!Unsynced
  BY <1>1
<1>9. legal' = [s \in Sector |-> {[t \in Sector |-> View(t)]'[s]}]
  BY <1>1, <1>6
<1> QED
  BY <1>5, <1>6, <1>7, <1>8, <1>9 DEF Store!Restart

------------------------------------------------------------------------------
(* The step as a whole *)

LEMMA NextStep == Inv /\ [Next]_vars => Inv' /\ [Store!Next]_(Store!vars)
<1> SUFFICES ASSUME Inv, [Next]_vars PROVE Inv' /\ [Store!Next]_(Store!vars)
  OBVIOUS
<1>1. CASE \E s \in Sector : GetSector(s)
  BY <1>1, GetSectorStep DEF Store!Next
<1>2. CASE \E s \in Sector, d \in Data : WriteSector(s, d)
  BY <1>2, WriteSectorStep DEF Store!Next
<1>3. CASE \E s \in Sector : PinSector(s)
  BY <1>3, PinSectorStep DEF Store!Next
<1>4. CASE \E s \in Sector : FlushSector(s)
  BY <1>4, FlushSectorStep DEF Store!Next
<1>5. CASE FlushAll
  BY <1>5, FlushAllStep DEF Store!Next
<1>6. CASE Destroy
  BY <1>6, DestroyStep DEF Store!Next
<1>7. CASE PowerLoss
  BY <1>7, PowerLossStep DEF Store!Next
<1>8. CASE UNCHANGED vars
  <2>1. Inv'
    BY <1>8 DEF vars, Inv, LegalOK, VolumeOK, SlotsOK, RanksOK, Volume
  <2>2. UNCHANGED Store!vars
    BY <1>8 DEF vars, Store!vars, View
  <2> QED
    BY <2>1, <2>2
<1> QED
  BY <1>1, <1>2, <1>3, <1>4, <1>5, <1>6, <1>7, <1>8 DEF Next

\* The initial volume is an initial store.
LEMMA InitStore == Init => Store!Init
<1> SUFFICES ASSUME Init PROVE Store!Init
  OBVIOUS
<1>1. PICK d \in [Sector -> Data] :
         vol = [disk |-> d, media |-> [s \in Sector |-> {d[s]}],
                tail |-> NoSector, lost |-> {}]
  BY DEF Init
<1>2. ASSUME NEW s \in Sector
      PROVE  View(s) = d[s]
  <2>1. \A i \in Slot : entries[i].sector_idx # s
    BY DEF Init, Empty
  <2>2. View(s) = vol.disk[s]
    BY <2>1, ViewUncached DEF View
  <2> QED
    BY <1>1, <2>2
<1>3. [s \in Sector |-> View(s)] = d
  BY <1>2
<1>4. legal = [s \in Sector |-> {d[s]}]
  BY <1>1 DEF Init
<1> QED
  BY <1>1, <1>2, <1>3, <1>4 DEF Store!Init

------------------------------------------------------------------------------
(* Pins *)

\* The slots f still hold the pinned sectors of e.
Pins(e, f) ==
    \A i \in Slot : e[i].pinned => f[i].pinned /\ f[i].sector_idx = e[i].sector_idx

LEMMA LoadPins ==
    ASSUME Inv, NEW i \in Slot, ~entries[i].pinned, NEW s, NEW v, NEW r \in LoadInto(i, s, v)
    PROVE  Pins(entries, r.entries)
BY DEF LoadInto, Pins, Inv, SlotsOK

\* A load never takes the slot of a pinned sector.
LEMMA GetPins ==
    ASSUME Inv, NEW s \in Sector, NEW r \in cache_get_sector(s)
    PROVE  Pins(entries, r.entries)
<1>1. CASE Holding(s) # {}
  BY <1>1 DEF cache_get_sector, Pins
<1>2. CASE Holding(s) = {}
  <2>1. PICK i \in lru_victim : r \in Evicting(i, s)
    BY <1>2 DEF cache_get_sector
  <2>2. i \in Slot /\ ~entries[i].pinned
    BY DEF lru_victim, First, FreeSlots, Holding, Unpinned, Inv, SlotsOK, Empty
  <2>3. CASE r.entries = entries
    BY <2>3 DEF Pins
  <2>4. CASE \E v : r \in LoadInto(i, s, v)
    BY <2>2, <2>4, LoadPins
  <2>5. r.entries = entries \/ \E v : r \in LoadInto(i, s, v)
    <3>1. CASE entries[i].dirty
      <4>1. PICK q \in encrypt_sector_at(vol, entries[i].sector_idx, entries[i].data) :
               r \in IF q.ok THEN LoadInto(i, s, q.vol)
                     ELSE {[ok |-> FALSE, slot |-> i, vol |-> q.vol, entries |-> entries]}
        BY <2>1, <3>1 DEF Evicting
      <4> QED
        BY <4>1
    <3>2. CASE ~entries[i].dirty
      BY <2>1, <3>2 DEF Evicting
    <3> QED
      BY <3>1, <3>2
  <2> QED
    BY <2>3, <2>4, <2>5
<1> QED
  BY <1>1, <1>2

LEMMA FlushedPins ==
    ASSUME Inv, NEW P
    PROVE  Pins(entries, FlushedEntries(P))
<1>1. \A i \in Slot : entries[i] \in Entry
  BY DEF Inv, SlotsOK
<1> QED
  BY <1>1 DEF Pins, FlushedEntries, Entry

LEMMA FlushAllPins ==
    ASSUME Inv, NEW r \in cache_flush_all
    PROVE  Pins(entries, r.entries)
<1>1. CASE r \in AllWritten
  <2>1. r.entries = FlushedEntries(DirtySlots)
    BY <1>1 DEF AllWritten
  <2> QED
    BY <2>1, FlushedPins
<1>2. CASE \E k \in DirtySlots : r \in FailAt(k)
  <2>1. PICK k \in DirtySlots : r \in FailAt(k)
    BY <1>2
  <2> DEFINE P == {i \in DirtySlots : i < k}
  <2>2. r.entries = FlushedEntries(P)
    BY <2>1 DEF FailAt
  <2> QED
    BY <2>2, FlushedPins
<1> QED
  BY <1>1, <1>2 DEF cache_flush_all

LEMMA PinsStep ==
    Inv /\ [Next]_vars => Pins(entries, entries') \/ entries' = [j \in Slot |-> Empty]
<1> SUFFICES ASSUME Inv, [Next]_vars
             PROVE  Pins(entries, entries') \/ entries' = [j \in Slot |-> Empty]
  OBVIOUS
<1>1. CASE \E s \in Sector : GetSector(s)
  BY <1>1, GetPins DEF GetSector
<1>2. ASSUME NEW s \in Sector, NEW d \in Data, WriteSector(s, d)
      PROVE  Pins(entries, entries')
  <2>1. PICK r \in cache_get_sector(s) :
           r.ok /\ entries' = [r.entries EXCEPT ![r.slot] = [@ EXCEPT !.data = d, !.dirty = TRUE]]
    BY <1>2 DEF WriteSector
  <2>2. Pins(entries, r.entries) /\ r.entries \in [Slot -> Entry] /\ r.slot \in Slot
    BY GetPins, GetOK DEF Harmless, SlotsOK
  <2> QED
    BY <2>1, <2>2 DEF Pins, Entry
<1>3. ASSUME NEW s \in Sector, PinSector(s)
      PROVE  Pins(entries, entries')
  <2>1. PICK r \in cache_get_sector(s) :
           r.ok /\ entries' = [r.entries EXCEPT ![r.slot] = [@ EXCEPT !.pinned = TRUE]]
    BY <1>3 DEF PinSector
  <2>2. Pins(entries, r.entries) /\ r.entries \in [Slot -> Entry] /\ r.slot \in Slot
    BY GetPins, GetOK DEF Harmless, SlotsOK
  <2> QED
    BY <2>1, <2>2 DEF Pins, Entry
<1>4. ASSUME NEW s \in Sector, FlushSector(s)
      PROVE  Pins(entries, entries')
  <2>1. entries \in [Slot -> Entry]
    BY DEF Inv, SlotsOK
  <2>2. entries' = entries
           \/ \E i \in Slot : entries' = [entries EXCEPT ![i] = [@ EXCEPT !.dirty = FALSE]]
    BY <1>4 DEF FlushSector, Holding
  <2> QED
    BY <2>1, <2>2 DEF Pins, Entry
<1>5. CASE FlushAll
  BY <1>5, FlushAllPins DEF FlushAll
<1>6. CASE Destroy \/ PowerLoss
  BY <1>6 DEF Destroy, PowerLoss
<1>7. CASE UNCHANGED vars
  BY <1>7 DEF vars, Pins
<1> QED
  BY <1>1, <1>2, <1>3, <1>4, <1>5, <1>6, <1>7 DEF Next

------------------------------------------------------------------------------
(* The theorems *)

\* The inductive invariant holds in every reachable state of the cache.
THEOREM Invariance == Spec => []Inv
<1>1. Inv /\ [Next]_vars => Inv'
  BY NextStep
<1> QED
  BY InitInv, <1>1, PTL DEF Spec

\* The slots, recency ranks and volume keep the shapes cache_init gives them, and
\* no two slots ever have the same recency.
THEOREM TypeCorrect == Spec => []TypeOK
BY Invariance, InvImplies, PTL

\* Loads, evictions, failures and restarts never leave a sector in two slots.
THEOREM NoAliases == Spec => []OneSlotPerSector
BY Invariance, InvImplies, PTL

\* What lru_victim may drop without writing is on disk already.
THEOREM CleanIsOnDisk == Spec => []CleanCopyMatchesDisk
BY Invariance, InvImplies, PTL

\* A crash keeps what cache_flush_all acknowledged, but for the sectors whose
\* buffered end was dropped by a failed write after they were marked clean.
THEOREM AcknowledgedIsDurable == Spec => []AcknowledgedUnlessLost
BY Invariance, InvImplies, PTL

\* No sequence of loads and failures evicts a pinned sector.
THEOREM PinsHold == Spec => PinnedStays
<1>1. Inv /\ [Next]_vars =>
         [\A i \in Slot : entries[i].pinned =>
            \/ entries'[i].pinned /\ entries'[i].sector_idx = entries[i].sector_idx
            \/ entries' = [j \in Slot |-> Empty]]_vars
  BY PinsStep DEF Pins
<1> QED
  BY Invariance, <1>1, PTL DEF Spec, PinnedStays

\* The write-back cache with its evictions, failed writes and restarts is an array
\* of sectors: every step of it is a step of SectorStore or changes nothing a
\* caller can read.
THEOREM Refinement == Spec => ImplementsStore
BY Invariance, InitStore, NextStep, PTL DEF Spec, ImplementsStore, Store!Spec
==============================================================================
