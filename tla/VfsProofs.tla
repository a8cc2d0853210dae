------------------------------- MODULE VfsProofs -------------------------------
(***************************************************************************)
(* Theorems about Vfs, for every size of the volume and of its sectors.    *)
(***************************************************************************)
EXTENDS Vfs, Induction

LOCAL INSTANCE FiniteSetsExt
LOCAL INSTANCE SequencesExt

------------------------------------------------------------------------------
(* Arithmetic of sectors *)

LEMMA SizesAre ==
    /\ SectorCells \in Nat /\ SectorCells # 0 /\ Base \in Nat /\ total_sectors \in Nat
    /\ MaxFiles \in Nat /\ MaxSize \in Nat /\ DataEnd \in Nat /\ Base <= DataEnd
<1>1. /\ SectorCells \in Nat /\ SectorCells # 0 /\ Base \in Nat /\ total_sectors \in Nat
      /\ MaxFiles \in Nat /\ MaxSize \in Nat
  BY SizesAssumption
<1>2. total_sectors * SectorCells \in Nat
  BY <1>1
<1> QED
  BY <1>1, <1>2 DEF DataEnd

LEMMA Quotient ==
    ASSUME NEW C \in Nat \ {0}, NEW x \in Nat
    PROVE  /\ x \div C \in Nat
           /\ (x \div C) * C <= x /\ x < (x \div C) * C + C
OBVIOUS

LEMMA Products ==
    ASSUME NEW C \in Nat, NEW a \in Nat, NEW b \in Nat
    PROVE  /\ a * C \in Nat /\ (a - b) * C = a * C - b * C
           /\ a <= b => a * C <= b * C
OBVIOUS

LEMMA SectorsForIs ==
    ASSUME NEW size \in Nat
    PROVE  /\ SectorsFor(size) \in Nat /\ SectorsFor(size) * SectorCells \in Nat
           /\ size <= SectorsFor(size) * SectorCells
<1>1. SectorCells \in Nat \ {0} /\ size + SectorCells - 1 \in Nat
  BY SizesAre
<1>2. PICK q : q = SectorsFor(size)
  OBVIOUS
<1>3. /\ q \in Nat /\ q * SectorCells <= size + SectorCells - 1
      /\ size + SectorCells - 1 < q * SectorCells + SectorCells
  BY <1>1, <1>2, Quotient DEF SectorsFor
<1>4. q * SectorCells \in Nat
  BY <1>1, <1>3
<1> QED
  BY <1>1, <1>2, <1>3, <1>4

LEMMA SectorsForNone == SectorsFor(0) = 0
<1>1. SectorCells \in Nat \ {0}
  BY SizesAre
<1>2. (SectorCells - 1) \div SectorCells = 0
  BY <1>1
<1>3. 0 + SectorCells - 1 = SectorCells - 1
  BY <1>1
<1> QED
  BY <1>2, <1>3 DEF SectorsFor

LEMMA EndIs ==
    ASSUME NEW f \in File
    PROVE  /\ f.name \in Name /\ f.offset \in Nat /\ f.size \in Nat /\ f.sectors \in Nat
           /\ f.sectors * SectorCells \in Nat
           /\ End(f) = f.offset + f.sectors * SectorCells
           /\ End(f) \in Nat /\ f.offset <= End(f)
<1>1. /\ f.name \in Name /\ f.offset \in Nat /\ f.size \in Nat /\ f.sectors \in Nat
  BY DEF File
<1>2. f.sectors * SectorCells \in Nat
  BY <1>1, SizesAre
<1> QED
  BY <1>1, <1>2 DEF End

------------------------------------------------------------------------------
(* The sum over the table *)

\* What Total computes on its way to the end of the table.
Sums(s, F) ==
    /\ s \in [0..Len(F) -> Int] /\ s[0] = 0
    /\ \A k \in 1..Len(F) : s[k] = s[k - 1] + F[k].sectors

Terms(s, F) == [k \in 0..Len(F) |-> IF k = 0 THEN 0 ELSE s[k - 1] + F[k].sectors]

LEMMA EntryType ==
    ASSUME NEW F \in Seq(File), NEW k \in 1..Len(F)
    PROVE  F[k] \in File /\ F[k].sectors \in Nat /\ F[k].sectors \in Int
<1>1. F[k] \in File
  BY ElementOfSeq
<1> QED
  BY <1>1, EndIs

LEMMA SumsExist ==
    ASSUME NEW F \in Seq(File)
    PROVE  \E s : Sums(s, F) /\ s[Len(F)] \in Nat
<1>1. PICK n \in Nat : n = Len(F)
  BY LenProperties
<1>2. PICK a : a = [k \in Nat |-> IF k < n THEN F[k + 1].sectors ELSE 0]
  OBVIOUS
<1>3. a \in [Nat -> Nat] /\ \A k \in 1..n : a[k - 1] = F[k].sectors
  <2>1. ASSUME NEW k \in Nat, k < n
        PROVE  F[k + 1].sectors \in Nat
    <3>1. k + 1 \in 1..n
      BY <2>1
    <3>2. F[k + 1] \in File
      BY <1>1, <3>1, ElementOfSeq
    <3> QED
      BY <3>2 DEF File
  <2>2. a \in [Nat -> Nat]
    BY <1>2, <2>1
  <2>3. ASSUME NEW k \in 1..n
        PROVE  a[k - 1] = F[k].sectors
    <3>1. k - 1 \in Nat /\ k - 1 < n /\ (k - 1) + 1 = k
      OBVIOUS
    <3> QED
      BY <1>2, <3>1
  <2> QED
    BY <2>2, <2>3
<1>4. PICK G : G = [k \in Nat |-> [x \in Nat |-> x + a[k]]]
  OBVIOUS
<1>5. G \in [Nat -> [Nat -> Nat]] /\ \A k \in Nat, x \in Nat : G[k][x] = x + a[k]
  <2>1. \A k \in Nat : a[k] \in Nat
    BY <1>3
  <2>2. ASSUME NEW k \in Nat
        PROVE  G[k] \in [Nat -> Nat] /\ \A x \in Nat : G[k][x] = x + a[k]
    <3>1. PICK m \in Nat : m = a[k]
      BY <2>1
    <3>2. PICK g : g = [x \in Nat |-> x + m]
      OBVIOUS
    <3>3. G[k] = g
      BY <1>4, <3>1, <3>2
    <3>4. g \in [Nat -> Nat] /\ \A x \in Nat : g[x] = x + m
      BY <3>2
    <3> QED
      BY <3>1, <3>3, <3>4
  <2>3. DOMAIN G = Nat /\ G = [k \in DOMAIN G |-> G[k]]
    BY <1>4
  <2> QED
    BY <2>2, <2>3
<1>6. PICK h : Iterates(h, Nat, 0, G)
  BY <1>5, Recursion
<1>7. h \in [Nat -> Nat] /\ h[0] = 0 /\ \A k \in Nat : h[k + 1] = h[k] + a[k]
  BY <1>5, <1>6 DEF Iterates
<1>8. PICK s : s = [k \in 0..n |-> h[k]]
  OBVIOUS
<1>9. s \in [0..n -> Int] /\ s[0] = 0 /\ s[n] \in Nat
  BY <1>7, <1>8
<1>10. ASSUME NEW k \in 1..n
       PROVE  s[k] = s[k - 1] + F[k].sectors
  <2>1. k - 1 \in Nat /\ (k - 1) + 1 = k /\ k - 1 \in 0..n /\ k \in 0..n
    OBVIOUS
  <2>2. h[k] = h[k - 1] + a[k - 1]
    BY <1>7, <2>1
  <2> QED
    BY <1>3, <1>8, <2>1, <2>2
<1> QED
  BY <1>1, <1>9, <1>10 DEF Sums

LEMMA TotalIs ==
    ASSUME NEW F \in Seq(File), NEW s, Sums(s, F)
    PROVE  Total(F) = s[Len(F)]
<1>1. PICK n \in Nat : n = Len(F)
  BY LenProperties
<1>2. s = Terms(s, F)
  <2>1. \A k \in 0..n : k = 0 \/ k \in 1..n
    OBVIOUS
  <2> QED
    BY <1>1, <2>1 DEF Sums, Terms
<1>3. ASSUME NEW t, t = Terms(t, F)
      PROVE  t = s
  <2> DEFINE T == {k \in Nat : k <= n => t[k] = s[k]}
  <2>1. 0 \in T
    BY <1>1, <1>2, <1>3 DEF Terms
  <2>2. ASSUME NEW k \in Nat, k \in T
        PROVE  k + 1 \in T
    <3>1. CASE k + 1 <= n
      <4>1. k + 1 \in 0..n /\ (k + 1) - 1 = k /\ k + 1 # 0 /\ k <= n
        BY <3>1
      <4>2. t[k + 1] = t[k] + F[k + 1].sectors /\ s[k + 1] = s[k] + F[k + 1].sectors
        BY <1>1, <1>2, <1>3, <4>1 DEF Terms
      <4> QED
        BY <2>2, <4>1, <4>2
    <3>2. CASE ~(k + 1 <= n)
      BY <3>2
    <3> QED
      BY <3>1, <3>2
  <2>3. \A k \in Nat : k \in T
    <3> HIDE DEF T
    <3> QED
      BY <2>1, <2>2, SetInduction
  <2>4. \A k \in 0..n : t[k] = s[k]
    BY <2>3
  <2> QED
    BY <1>1, <1>2, <1>3, <2>4 DEF Terms
<1>4. (CHOOSE t : t = Terms(t, F)) = s
  BY <1>2, <1>3
<1> QED
  BY <1>4 DEF Total, Terms

LEMMA TotalType ==
    ASSUME NEW F \in Seq(File)
    PROVE  Total(F) \in Nat
<1>1. PICK s : Sums(s, F) /\ s[Len(F)] \in Nat
  BY SumsExist
<1> QED
  BY <1>1, TotalIs

LEMMA TotalEmpty == <<>> \in Seq(File) /\ Len(<<>>) = 0 /\ Total(<<>>) = 0
<1>1. <<>> \in Seq(File) /\ Len(<<>>) = 0
  BY EmptySeq
<1>2. PICK s : Sums(s, <<>>)
  BY <1>1, SumsExist
<1>3. Total(<<>>) = s[0]
  BY <1>1, <1>2, TotalIs
<1> QED
  BY <1>1, <1>2, <1>3 DEF Sums

LEMMA TotalAppend ==
    ASSUME NEW F \in Seq(File), NEW e \in File
    PROVE  Total(Append(F, e)) = Total(F) + e.sectors
<1>1. PICK n \in Nat : n = Len(F)
  BY LenProperties
<1>2. PICK G : G = Append(F, e)
  OBVIOUS
<1>3. G \in Seq(File) /\ Len(G) = n + 1 /\ G[n + 1] = e /\ \A i \in 1..n : G[i] = F[i]
  BY <1>1, <1>2, AppendProperties
<1>4. PICK s : Sums(s, F)
  BY SumsExist
<1>5. s \in [0..n -> Int] /\ s[0] = 0 /\ \A k \in 1..n : s[k] = s[k - 1] + F[k].sectors
  BY <1>1, <1>4 DEF Sums
<1>6. PICK m \in Int : m = e.sectors
  BY DEF File
<1>7. PICK t : t = [k \in 0..(n + 1) |-> IF k = n + 1 THEN s[n] + m ELSE s[k]]
  OBVIOUS
<1>8. t \in [0..(n + 1) -> Int] /\ t[0] = 0 /\ t[n + 1] = s[n] + m /\ \A k \in 0..n : t[k] = s[k]
  BY <1>5, <1>7
<1>9. ASSUME NEW k \in 1..(n + 1)
      PROVE  t[k] = t[k - 1] + G[k].sectors
  <2>1. CASE k = n + 1
    <3>1. k - 1 = n /\ n \in 0..n
      BY <2>1
    <3> QED
      BY <1>3, <1>6, <1>8, <2>1, <3>1
  <2>2. CASE k # n + 1
    <3>1. k \in 1..n /\ k \in 0..n /\ k - 1 \in 0..n
      BY <2>2
    <3> QED
      BY <1>3, <1>5, <1>8, <3>1
  <2> QED
    BY <2>1, <2>2
<1>10. Sums(t, G)
  BY <1>3, <1>8, <1>9 DEF Sums
<1>11. Total(G) = t[n + 1] /\ Total(F) = s[n]
  BY <1>1, <1>3, <1>4, <1>10, TotalIs
<1> QED
  BY <1>2, <1>6, <1>8, <1>11

LEMMA TotalReplace ==
    ASSUME NEW F \in Seq(File), NEW G \in Seq(File), NEW i \in 1..Len(F), Len(G) = Len(F),
           \A j \in 1..Len(F) : j # i => G[j] = F[j]
    PROVE  Total(G) = Total(F) + G[i].sectors - F[i].sectors
<1>1. PICK n \in Nat : n = Len(F)
  BY LenProperties
<1>2. PICK s : Sums(s, F)
  BY SumsExist
<1>3. s \in [0..n -> Int] /\ s[0] = 0 /\ \A k \in 1..n : s[k] = s[k - 1] + F[k].sectors
  BY <1>1, <1>2 DEF Sums
<1>4. i \in 1..n /\ i \in 1..Len(G)
  BY <1>1
<1>5. PICK a \in Int, b \in Int : a = F[i].sectors /\ b = G[i].sectors
  <2>1. F[i].sectors \in Int /\ G[i].sectors \in Int
    BY <1>4, EntryType
  <2> QED
    BY <2>1
<1>6. PICK t : t = [k \in 0..n |-> IF k < i THEN s[k] ELSE s[k] + b - a]
  OBVIOUS
<1>7. /\ t \in [0..n -> Int] /\ i \in 1..n
      /\ \A k \in 0..n : t[k] = IF k < i THEN s[k] ELSE s[k] + b - a
  <2>1. \A k \in 0..n : s[k] \in Int
    BY <1>3
  <2>2. \A k \in 0..n : s[k] + b - a \in Int
    BY <1>5, <2>1
  <2> QED
    BY <1>1, <1>6, <2>1, <2>2
<1>8. ASSUME NEW k \in 1..n
      PROVE  t[k] = t[k - 1] + G[k].sectors
  <2>1. k \in 0..n /\ k - 1 \in 0..n
    OBVIOUS
  <2>2. PICK x \in Int, y \in Int, z \in Int : x = s[k - 1] /\ y = s[k] /\ z = F[k].sectors
    <3>1. F[k].sectors \in Int
      BY <1>1, EntryType
    <3>2. s[k - 1] \in Int /\ s[k] \in Int
      BY <1>3, <2>1
    <3> QED
      BY <3>1, <3>2
  <2>3. y = x + z
    BY <1>3, <2>2
  <2>4. /\ t[k] = IF k < i THEN y ELSE y + b - a
        /\ t[k - 1] = IF k - 1 < i THEN x ELSE x + b - a
    BY <1>7, <2>1, <2>2
  <2>5. CASE k = i
    <3>1. t[k] = y + b - a /\ t[k - 1] = x /\ G[k].sectors = b /\ z = a
      BY <1>5, <1>7, <2>2, <2>4, <2>5
    <3>2. z = a
      BY <3>1
    <3>3. y + b - a = x + b
      BY <2>3, <3>2
    <3> QED
      BY <3>1, <3>3
  <2>6. CASE k < i
    <3>1. k - 1 < i /\ k < i /\ k # i
      BY <1>7, <2>6
    <3>2. G[k].sectors = z
      BY <1>1, <2>2, <3>1
    <3>3. t[k] = y /\ t[k - 1] = x
      BY <2>4, <3>1
    <3> QED
      BY <2>3, <3>2, <3>3
  <2>7. CASE k > i
    <3>1. ~(k - 1 < i) /\ ~(k < i) /\ k # i
      BY <1>7, <2>7
    <3>4. G[k].sectors = z
      BY <1>1, <2>2, <3>1
    <3>3. t[k] = y + b - a /\ t[k - 1] = x + b - a
      BY <2>4, <3>1
    <3>2. y + b - a = (x + b - a) + z
      BY <2>3
    <3> QED
      BY <3>2, <3>3, <3>4
  <2> QED
    BY <1>7, <2>5, <2>6, <2>7
<1>9. t[0] = 0 /\ t[n] = s[n] + b - a
  <2>1. 0 \in 0..n /\ n \in 0..n /\ 0 < i /\ ~(n < i)
    BY <1>7
  <2> QED
    BY <1>3, <1>7, <2>1
<1>10. Sums(t, G)
  BY <1>1, <1>7, <1>8, <1>9 DEF Sums
<1>11. Total(G) = t[n] /\ Total(F) = s[n]
  BY <1>1, <1>2, <1>10, TotalIs
<1> QED
  BY <1>5, <1>9, <1>11

\* G is F without its entry i.
Without(G, F, i) ==
    /\ G \in Seq(File) /\ Len(G) = Len(F) - 1
    /\ \A j \in 1..(Len(F) - 1) : G[j] = IF j < i THEN F[j] ELSE F[j + 1]

LEMMA RemoveAtIs ==
    ASSUME NEW F \in Seq(File), NEW i \in 1..Len(F)
    PROVE  Without(RemoveAt(F, i), F, i)
<1>1. Removed(RemoveAt(F, i), F, Len(F), i, File)
  BY RemovedIs DEF RemoveAt
<1> QED
  BY <1>1 DEF Removed, Without

LEMMA TotalRemove ==
    ASSUME NEW F \in Seq(File), NEW i \in 1..Len(F), NEW G, Without(G, F, i)
    PROVE  Total(G) = Total(F) - F[i].sectors
<1>1. PICK n \in Nat : n = Len(F)
  BY LenProperties
<1>2. /\ G \in Seq(File) /\ Len(G) = n - 1 /\ i \in 1..n
      /\ \A j \in 1..(n - 1) : G[j] = IF j < i THEN F[j] ELSE F[j + 1]
  BY <1>1 DEF Without
<1>3. PICK s : Sums(s, F)
  BY SumsExist
<1>4. s \in [0..n -> Int] /\ s[0] = 0 /\ \A k \in 1..n : s[k] = s[k - 1] + F[k].sectors
  BY <1>1, <1>3 DEF Sums
<1>5. \A k \in 1..n : F[k].sectors \in Int
  BY <1>1, EntryType
<1>6. PICK a \in Int : a = F[i].sectors
  BY <1>2, <1>5
<1>7. PICK t : t = [k \in 0..(n - 1) |-> IF k < i THEN s[k] ELSE s[k + 1] - a]
  OBVIOUS
<1>8. /\ t \in [0..(n - 1) -> Int]
      /\ \A k \in 0..(n - 1) : t[k] = IF k < i THEN s[k] ELSE s[k + 1] - a
  <2>1. \A k \in 0..(n - 1) : s[k] \in Int /\ s[k + 1] \in Int
    <3>1. \A k \in 0..(n - 1) : k \in 0..n /\ k + 1 \in 0..n
      OBVIOUS
    <3> QED
      BY <1>4, <3>1
  <2>2. ASSUME NEW k \in 0..(n - 1)
        PROVE  s[k + 1] - a \in Int
    <3>1. PICK x \in Int : x = s[k + 1]
      BY <2>1
    <3> QED
      BY <3>1
  <2> QED
    BY <1>7, <2>1, <2>2
<1>9. ASSUME NEW k \in 1..(n - 1)
      PROVE  t[k] = t[k - 1] + G[k].sectors
  <2>1. /\ k \in 0..(n - 1) /\ k - 1 \in 0..(n - 1) /\ k \in 1..n /\ k + 1 \in 1..n
        /\ (k - 1) + 1 = k /\ (k + 1) - 1 = k /\ k \in 0..n /\ k - 1 \in 0..n /\ k + 1 \in 0..n
    OBVIOUS
  <2>2. PICK x \in Int, y \in Int, z \in Int, p \in Int, q \in Int :
             /\ x = s[k - 1] /\ y = s[k] /\ z = s[k + 1]
             /\ p = F[k].sectors /\ q = F[k + 1].sectors
    <3>1. s[k - 1] \in Int /\ s[k] \in Int /\ s[k + 1] \in Int
      BY <1>4, <2>1
    <3>2. F[k].sectors \in Int /\ F[k + 1].sectors \in Int
      BY <1>5, <2>1
    <3> QED
      BY <3>1, <3>2
  <2>3. y = x + p /\ z = y + q
    BY <1>4, <2>1, <2>2
  <2>4. /\ t[k] = IF k < i THEN y ELSE z - a
        /\ t[k - 1] = IF k - 1 < i THEN x ELSE y - a
        /\ G[k].sectors = IF k < i THEN p ELSE q
    BY <1>2, <1>8, <2>1, <2>2
  <2>5. CASE k < i
    <3>1. t[k] = y /\ t[k - 1] = x /\ G[k].sectors = p
      BY <1>2, <2>4, <2>5
    <3> QED
      BY <2>3, <3>1
  <2>6. CASE k = i
    <3>1. t[k] = z - a /\ t[k - 1] = x /\ G[k].sectors = q /\ p = a
      BY <1>2, <1>6, <2>2, <2>4, <2>6
    <3>2. z - a = x + q
      BY <2>3, <3>1
    <3> QED
      BY <3>1, <3>2
  <2>7. CASE k > i
    <3>1. t[k] = z - a /\ t[k - 1] = y - a /\ G[k].sectors = q
      BY <1>2, <2>4, <2>7
    <3>2. z - a = (y - a) + q
      BY <2>3
    <3> QED
      BY <3>1, <3>2
  <2> QED
    BY <1>2, <2>5, <2>6, <2>7
<1>10. t[0] = 0 /\ t[n - 1] = s[n] - a
  <2>1. 0 \in 0..(n - 1) /\ 0 < i
    BY <1>2
  <2>2. t[0] = 0
    BY <1>4, <1>8, <2>1
  <2>3. n - 1 \in 0..(n - 1) /\ (n - 1) + 1 = n /\ (n - 1) \in 0..n /\ n \in 1..n
    BY <1>2
  <2>4. CASE i = n
    <3>1. t[n - 1] = s[n - 1] /\ s[n] = s[n - 1] + a
      BY <1>4, <1>6, <1>8, <2>3, <2>4
    <3>2. s[n - 1] \in Int
      BY <1>4, <2>3
    <3> QED
      BY <2>2, <3>1, <3>2
  <2>5. CASE i # n
    <3>1. ~(n - 1 < i)
      BY <1>2, <2>5
    <3> QED
      BY <1>8, <2>2, <2>3, <3>1
  <2> QED
    BY <2>4, <2>5
<1>11. Sums(t, G)
  BY <1>2, <1>8, <1>9, <1>10 DEF Sums
<1>12. Total(G) = t[n - 1] /\ Total(F) = s[n]
  BY <1>1, <1>2, <1>3, <1>11, TotalIs
<1> QED
  BY <1>6, <1>10, <1>12

\* No entry has more sectors than all have together.
LEMMA TotalAtLeast ==
    ASSUME NEW F \in Seq(File), NEW i \in 1..Len(F)
    PROVE  F[i].sectors \in Nat /\ F[i].sectors <= Total(F)
<1>1. F[i] \in File
  BY ElementOfSeq
<1>2. F[i].sectors \in Nat
  BY <1>1 DEF File
<1>3. PICK G : Without(G, F, i)
  BY RemoveAtIs
<1>4. G \in Seq(File)
  BY <1>3 DEF Without
<1>5. Total(G) \in Nat /\ Total(F) \in Nat
  BY <1>4, TotalType
<1>6. Total(G) = Total(F) - F[i].sectors
  BY <1>3, TotalRemove
<1> QED
  BY <1>2, <1>5, <1>6

------------------------------------------------------------------------------
(* What the functions of graph.c do to a volume *)

Content == Data \cup {Zero}
Context == [files : Seq(File), used_sectors : Int,
            area : [Cell -> Content], disk : [Cell -> Content]]

LEMMA ContextIs ==
    ASSUME NEW c \in Context
    PROVE  /\ c.files \in Seq(File) /\ c.used_sectors \in Int
           /\ c.area \in [Cell -> Content] /\ c.disk \in [Cell -> Content]
           /\ Len(c.files) \in Nat /\ DOMAIN c.files = 1..Len(c.files)
<1>1. /\ c.files \in Seq(File) /\ c.used_sectors \in Int
      /\ c.area \in [Cell -> Content] /\ c.disk \in [Cell -> Content]
  BY DEF Context
<1> QED
  BY <1>1, LenProperties

\* The table and its counter are as they were.
Keeps(c, q) == q \in Context /\ q.files = c.files /\ q.used_sectors = c.used_sectors

LEMMA AreaKeeps ==
    ASSUME NEW c \in Context, NEW a \in [Cell -> Content],
           NEW q, q = [c EXCEPT !.area = a]
    PROVE  Keeps(c, q) /\ q.area = a /\ q.disk = c.disk
BY DEF Keeps, Context

LEMMA DiskKeeps ==
    ASSUME NEW c \in Context, NEW a \in [Cell -> Content],
           NEW q, q = [c EXCEPT !.disk = a]
    PROVE  Keeps(c, q) /\ q.area = c.area /\ q.disk = a
BY DEF Keeps, Context

LEMMA KeepsMore ==
    ASSUME NEW c, NEW q, NEW z, Keeps(c, q), Keeps(q, z)
    PROVE  Keeps(c, z)
BY DEF Keeps

LEMMA PutType ==
    ASSUME NEW a \in [Cell -> Content], NEW o \in Int, NEW s \in Seq(Content)
    PROVE  Put(a, o, s) \in [Cell -> Content]
<1>1. PICK n \in Nat : n = Len(s) /\ \A i \in 1..n : s[i] \in Content
  BY LenProperties, ElementOfSeq
<1>2. ASSUME NEW x \in Cell, x \in o..(o + n - 1)
      PROVE  s[x - o + 1] \in Content
  <2>1. x - o + 1 \in 1..n
    BY <1>2
  <2> QED
    BY <1>1, <2>1
<1> QED
  BY <1>1, <1>2 DEF Put

LEMMA WriteIs ==
    ASSUME NEW c \in Context, NEW o \in Nat, NEW s \in Seq(Content),
           NEW r \in vfs_write_data(c, o, s)
    PROVE  /\ Keeps(c, r.ctx)
           /\ ~IOErrors => r.ok /\ r.ctx.area = Put(c.area, o, s) /\ r.ctx.disk = c.disk
<1>1. c.area \in [Cell -> Content]
  BY ContextIs
<1>2. CASE r = Done([c EXCEPT !.area = Put(@, o, s)])
  <2>1. PICK a : a = Put(c.area, o, s)
    OBVIOUS
  <2>2. a \in [Cell -> Content]
    BY <1>1, <2>1, PutType
  <2>3. PICK q : q = [c EXCEPT !.area = a]
    OBVIOUS
  <2>4. r.ok = TRUE /\ r.ctx = q
    BY <1>2, <2>1, <2>3 DEF Done
  <2> QED
    BY <2>1, <2>2, <2>3, <2>4, AreaKeeps
<1>3. ASSUME NEW k \in 0..(Len(s) - 1), IOErrors,
             r = Failed([c EXCEPT !.area = Put(@, o, SubSeq(s, 1, k))])
      PROVE  Keeps(c, r.ctx)
  <2>1. Len(s) \in Nat
    BY LenProperties
  <2>2. k \in 0..Len(s)
    BY <2>1
  <2>3. SubSeq(s, 1, k) \in Seq(Content)
    BY <2>2, PrefixIs
  <2> DEFINE t == SubSeq(s, 1, k)
  <2> HIDE DEF t
  <2>7. t \in Seq(Content)
    BY <2>3 DEF t
  <2>8. Put(c.area, o, t) \in [Cell -> Content]
    BY <1>1, <2>7, PutType
  <2>9. PICK a : a = Put(c.area, o, t)
    OBVIOUS
  <2>4. a = Put(c.area, o, SubSeq(s, 1, k)) /\ a \in [Cell -> Content]
    BY <2>8, <2>9 DEF t
  <2>5. PICK q : q = [c EXCEPT !.area = a]
    OBVIOUS
  <2>6. r.ctx = q
    BY <1>3, <2>4, <2>5 DEF Failed
  <2> QED
    BY <2>4, <2>5, <2>6, AreaKeeps
<1> QED
  BY <1>2, <1>3 DEF vfs_write_data

\* These are the cells o to o + len - 1 of a, with zeros.
Zeroed(a, o, len) == [x \in Cell |-> IF x \in o..(o + len - 1) THEN Zero ELSE a[x]]

LEMMA ZeroIs ==
    ASSUME NEW c \in Context, NEW o \in Nat, NEW len \in Nat, NEW q \in zero_chunks(c, o, len)
    PROVE  /\ Keeps(c, q) /\ q.disk = c.disk
           /\ ~IOErrors => q.area = Zeroed(c.area, o, len)
<1> DEFINE chunk(j) == {x \in o .. o + len - 1 : (x - o) \div SectorCells = j}
           writes(j) == {chunk(j)} \cup
                        (IF IOErrors
                         THEN {{}, {x \in chunk(j) : Phys(x) = Phys(o + j * SectorCells)}}
                         ELSE {})
<1>1. PICK T \in SUBSET (o .. o + len - 1) :
         /\ \A j \in 0 .. (len - 1) \div SectorCells : T \cap chunk(j) \in writes(j)
         /\ q = [c EXCEPT !.area = [x \in Cell |-> IF x \in T THEN Zero ELSE @[x]]]
  BY DEF zero_chunks
<1>2. PICK a : a = [x \in Cell |-> IF x \in T THEN Zero ELSE c.area[x]]
  OBVIOUS
<1>3. a \in [Cell -> Content]
  BY <1>2, ContextIs DEF Content
<1>4. q = [c EXCEPT !.area = a]
  BY <1>1, <1>2
<1>5. ASSUME ~IOErrors
      PROVE  T = o .. o + len - 1
  <2>1. ASSUME NEW x \in o .. o + len - 1
        PROVE  x \in T
    <3>1. PICK C \in Nat \ {0} : C = SectorCells
      BY SizesAre
    <3>2. x - o \in Nat /\ len - 1 \in Nat /\ x - o <= len - 1
      OBVIOUS
    <3>3. PICK j : j = (x - o) \div C
      OBVIOUS
    <3>4. j \in 0 .. (len - 1) \div C
      BY <3>2, <3>3
    <3>5. T \cap chunk(j) = chunk(j)
      BY <1>1, <1>5, <3>1, <3>4
    <3>6. x \in chunk(j)
      BY <3>1, <3>3
    <3> QED
      BY <3>5, <3>6
  <2> QED
    BY <2>1
<1>6. ~IOErrors => a = Zeroed(c.area, o, len)
  BY <1>2, <1>5 DEF Zeroed
<1> QED
  BY <1>3, <1>4, <1>6, AreaKeeps

LEMMA FlushIs ==
    ASSUME NEW c \in Context, NEW P, NEW q \in flush_sectors(c, P)
    PROVE  /\ Keeps(c, q) /\ q.area = c.area
           /\ ~IOErrors => \A x \in Cell : Phys(x) \in P => q.disk[x] = c.area[x]
<1>1. PICK Q : /\ q = [c EXCEPT !.disk = [x \in Cell |-> IF Phys(x) \in Q THEN c.area[x] ELSE @[x]]]
               /\ ~IOErrors => Q = P
  BY DEF flush_sectors
<1>2. PICK d : d = [x \in Cell |-> IF Phys(x) \in Q THEN c.area[x] ELSE c.disk[x]]
  OBVIOUS
<1>3. d \in [Cell -> Content]
  BY <1>2, ContextIs
<1>4. q = [c EXCEPT !.disk = d]
  BY <1>1, <1>2
<1>5. Keeps(c, q) /\ q.area = c.area /\ q.disk = d
  BY <1>3, <1>4, DiskKeeps
<1> QED
  BY <1>1, <1>2, <1>5

LEMMA ZerosType ==
    ASSUME NEW n \in Nat
    PROVE  Zeros(n) \in Seq(Content) /\ Len(Zeros(n)) = n /\ \A k \in 1..n : Zeros(n)[k] = Zero
<1>1. Zeros(n) \in [1..n -> Content]
  BY DEF Zeros, Content
<1> QED
  BY <1>1 DEF Zeros

------------------------------------------------------------------------------
(* Gaps *)

LEMMA MaxIs ==
    ASSUME NEW n \in Nat, NEW U, U \subseteq 0..n, U # {}
    PROVE  Max(U) \in U /\ \A u \in U : u <= Max(U)
<1>1. PICK m \in U : \A u \in U : u <= m
  BY GreatestElement
<1>2. \E x \in U : \A y \in U : x >= y
  <2>1. \A y \in U : y \in Int /\ m \in Int
    OBVIOUS
  <2> QED
    BY <1>1, <2>1
<1>3. Max(U) \in U /\ \A y \in U : Max(U) >= y
  <2> DEFINE P(x) == x \in U /\ \A y \in U : x >= y
  <2>1. \E x : P(x)
    BY <1>2
  <2>2. P(CHOOSE x : P(x))
    <3> HIDE DEF P
    <3> QED
      BY <2>1
  <2> QED
    BY <2>2 DEF Max
<1>4. \A u \in U : u \in Int
  OBVIOUS
<1> QED
  BY <1>3, <1>4

LEMMA MinIs ==
    ASSUME NEW U, U \subseteq Nat, U # {}
    PROVE  Min(U) \in U /\ \A u \in U : Min(U) <= u
<1>1. PICK m \in U : \A u \in U : ~(u < m)
  BY LeastElement
<1>2. \E x \in U : \A y \in U : x =< y
  BY <1>1
<1> QED
  BY <1>2 DEF Min

\* A set of entries that lie in the data area.
Within(F) == F \subseteq {f \in File : f.offset >= Base /\ End(f) <= DataEnd}

LEMMA ReachedIs ==
    ASSUME NEW F, Within(F), NEW o
    PROVE  /\ Reached(F, o) \in Base..DataEnd
           /\ \A f \in F : f.offset < o => End(f) <= Reached(F, o)
<1> DEFINE U == {Base} \cup {End(f) : f \in {g \in F : g.offset < o}}
<1>1. ASSUME NEW f \in F
      PROVE  End(f) \in Base..DataEnd
  <2>1. f \in File /\ f.offset >= Base /\ End(f) <= DataEnd
    BY DEF Within
  <2> QED
    BY <2>1, EndIs, SizesAre
<1>2. Base \in Nat /\ DataEnd \in Nat /\ Base <= DataEnd
  BY SizesAre
<1>3. U \subseteq Base..DataEnd /\ U # {}
  BY <1>1, <1>2
<1>4. U \subseteq 0..DataEnd
  BY <1>2, <1>3
<1>5. Max(U) \in U /\ \A u \in U : u <= Max(U)
  <2> HIDE DEF U
  <2> QED
    BY <1>2, <1>3, <1>4, MaxIs
<1>6. Reached(F, o) = Max(U)
  BY DEF Reached
<1>7. Reached(F, o) \in Base..DataEnd
  BY <1>3, <1>5, <1>6
<1>8. ASSUME NEW f \in F, f.offset < o
      PROVE  End(f) <= Reached(F, o)
  <2>1. End(f) \in U
    BY <1>8
  <2> QED
    BY <1>5, <1>6, <2>1
<1> QED
  BY <1>7, <1>8

\* A gap lies in the data area and has no cell of an entry.
LEMMA GapIs ==
    ASSUME NEW F, Within(F), NEW g \in Gaps(F)
    PROVE  /\ g.start \in Nat /\ g.end \in Nat
           /\ Base <= g.start /\ g.start < g.end /\ g.end <= DataEnd
           /\ \A f \in F : End(f) <= g.start \/ g.end <= f.offset
<1>1. PICK o \in {f.offset : f \in F} \cup {DataEnd} : g.start = Reached(F, o) /\ g.end = o
  BY DEF Gaps
<1>2. \A f \in F : f.offset \in Nat /\ f.offset <= End(f) /\ End(f) \in Nat /\ End(f) <= DataEnd
  BY EndIs DEF Within
<1>3. Base \in Nat /\ DataEnd \in Nat
  BY SizesAre
<1>4. o \in Nat /\ o <= DataEnd
  BY <1>1, <1>2, <1>3
<1>5. PICK m \in Nat : /\ m = g.start /\ Base <= m
                       /\ \A f \in F : f.offset < o => End(f) <= m
  BY <1>1, <1>3, ReachedIs
<1>6. m < o
  BY <1>1, <1>5 DEF Gaps
<1>7. \A f \in F : End(f) <= m \/ o <= f.offset
  BY <1>2, <1>4, <1>5
<1> QED
  BY <1>1, <1>4, <1>5, <1>6, <1>7
LEMMA FitIs ==
    ASSUME NEW F, Within(F), NEW size \in Nat, NEW g \in BestFit(F, size)
    PROVE  /\ g.start \in Nat /\ g.end \in Nat /\ g \in Gaps(F)
           /\ Base <= g.start /\ g.start + size <= g.end /\ g.end <= DataEnd
           /\ \A f \in F : End(f) <= g.start \/ g.end <= f.offset
<1>1. g \in Gaps(F) /\ g.end - g.start >= size
  BY DEF BestFit
<1>2. /\ g.start \in Nat /\ g.end \in Nat
      /\ Base <= g.start /\ g.start < g.end /\ g.end <= DataEnd
      /\ \A f \in F : End(f) <= g.start \/ g.end <= f.offset
  BY <1>1, GapIs
<1>3. g.start + size <= g.end
  BY <1>1, <1>2
<1> QED
  BY <1>1, <1>2, <1>3

------------------------------------------------------------------------------
(* A volume whose table is in order *)

Placed(f) == /\ f \in File /\ f.sectors = SectorsFor(f.size)
             /\ f.offset >= Base /\ End(f) <= DataEnd

Sound(c) == /\ c \in Context /\ Len(c.files) <= MaxFiles
            /\ c.used_sectors = Total(c.files) /\ c.used_sectors <= total_sectors
            /\ \A i \in 1..Len(c.files) : Placed(c.files[i])

LEMMA PlacedIs ==
    ASSUME NEW c, Sound(c), NEW i \in 1..Len(c.files)
    PROVE  /\ c.files[i] \in File /\ c.files[i].name \in Name
           /\ c.files[i].offset \in Nat /\ c.files[i].size \in Nat /\ c.files[i].sectors \in Nat
           /\ c.files[i].sectors = SectorsFor(c.files[i].size)
           /\ c.files[i].size <= c.files[i].sectors * SectorCells
           /\ End(c.files[i]) = c.files[i].offset + c.files[i].sectors * SectorCells
           /\ End(c.files[i]) \in Nat
           /\ Base <= c.files[i].offset /\ c.files[i].offset <= End(c.files[i])
           /\ End(c.files[i]) <= DataEnd
<1>1. PICK f : f = c.files[i]
  OBVIOUS
<1>2. f \in File /\ f.sectors = SectorsFor(f.size) /\ f.offset >= Base /\ End(f) <= DataEnd
  BY <1>1 DEF Sound, Placed
<1>3. /\ f.name \in Name /\ f.offset \in Nat /\ f.size \in Nat /\ f.sectors \in Nat
      /\ End(f) = f.offset + f.sectors * SectorCells /\ End(f) \in Nat /\ f.offset <= End(f)
  BY <1>2, EndIs
<1>4. f.size <= f.sectors * SectorCells
  BY <1>2, <1>3, SectorsForIs
<1>5. Base <= f.offset
  BY <1>2, <1>3, SizesAre
<1> QED
  BY <1>1, <1>2, <1>3, <1>4, <1>5

LEMMA SoundIs ==
    ASSUME NEW c, Sound(c)
    PROVE  /\ c \in Context /\ c.files \in Seq(File) /\ Len(c.files) \in Nat
           /\ DOMAIN c.files = 1..Len(c.files) /\ Within(EntriesOf(c))
<1>1. c \in Context
  BY DEF Sound
<1>2. c.files \in Seq(File) /\ Len(c.files) \in Nat /\ DOMAIN c.files = 1..Len(c.files)
  BY <1>1, ContextIs
<1>3. \A i \in 1..Len(c.files) : /\ c.files[i] \in File /\ c.files[i].offset >= Base
                                 /\ End(c.files[i]) <= DataEnd
  BY DEF Sound, Placed
<1>4. Within(EntriesOf(c))
  BY <1>2, <1>3 DEF Within, EntriesOf
<1> QED
  BY <1>1, <1>2, <1>4

\* vfs_find_file finds an entry of that name, and one if there is any.
LEMMA FoundIs ==
    ASSUME NEW c \in Context, NEW n
    PROVE  /\ \A i \in vfs_find_file(c, n) : i \in 1..Len(c.files) /\ c.files[i].name = n
           /\ vfs_find_file(c, n) = {} => \A i \in 1..Len(c.files) : c.files[i].name # n
<1>1. DOMAIN c.files = 1..Len(c.files) /\ Len(c.files) \in Nat
  BY ContextIs
<1>2. ASSUME NEW i \in 1..Len(c.files), c.files[i].name = n
      PROVE  vfs_find_file(c, n) # {}
  <2> DEFINE U == {k \in 1..Len(c.files) : c.files[k].name = n}
  <2>1. U \subseteq Nat /\ U # {}
    BY <1>1, <1>2
  <2>2. PICK k \in U : \A j \in U : ~(j < k)
    <3> HIDE DEF U
    <3> QED
      BY <2>1, LeastElement
  <2>3. \A j \in 1..k - 1 : c.files[j].name # n
    <3>1. ASSUME NEW j \in 1..k - 1, c.files[j].name = n
          PROVE  FALSE
      <4>1. j \in 1..Len(c.files) /\ j < k
        BY <1>1
      <4>2. j \in U
        BY <3>1, <4>1
      <4> QED
        BY <2>2, <4>1, <4>2
    <3> QED
      BY <3>1
  <2>4. k \in vfs_find_file(c, n)
    BY <1>1, <2>3 DEF vfs_find_file
  <2> QED
    BY <2>4
<1>3. \A i \in vfs_find_file(c, n) : i \in 1..Len(c.files) /\ c.files[i].name = n
  BY <1>1 DEF vfs_find_file
<1> QED
  BY <1>2, <1>3

LEMMA NextIs ==
    ASSUME NEW c, Sound(c), NEW i \in 1..Len(c.files)
    PROVE  /\ NextOffset(c, i) \in Nat /\ NextOffset(c, i) <= DataEnd
           /\ \/ NextOffset(c, i) = DataEnd
              \/ \E j \in 1..Len(c.files) : /\ c.files[j].offset >= End(c.files[i])
                                            /\ NextOffset(c, i) = c.files[j].offset
           /\ \A j \in 1..Len(c.files) :
                j # i /\ c.files[j].offset >= End(c.files[i])
                => NextOffset(c, i) <= c.files[j].offset
<1> DEFINE J == {j \in DOMAIN c.files \ {i} : c.files[j].offset >= End(c.files[i])}
           U == {DataEnd} \cup {c.files[j].offset : j \in J}
<1>1. J \subseteq 1..Len(c.files)
  BY SoundIs
<1>2. \A j \in J : c.files[j].offset \in Nat
  <2> HIDE DEF J
  <2> QED
    BY <1>1, PlacedIs
<1>3. U \subseteq Nat /\ DataEnd \in U
  BY <1>2, SizesAre
<1>4. Min(U) \in U /\ \A u \in U : Min(U) <= u
  <2> HIDE DEF U
  <2> QED
    BY <1>3, MinIs
<1>5. NextOffset(c, i) = Min(U)
  BY DEF NextOffset
<1>6. ASSUME NEW j \in 1..Len(c.files), j # i, c.files[j].offset >= End(c.files[i])
      PROVE  NextOffset(c, i) <= c.files[j].offset
  <2>1. j \in J
    BY <1>6, SoundIs
  <2>2. c.files[j].offset \in U
    BY <2>1
  <2> HIDE DEF U
  <2> QED
    BY <1>4, <1>5, <2>2
<1>7. NextOffset(c, i) \in Nat /\ NextOffset(c, i) <= DataEnd
  <2> HIDE DEF U
  <2> QED
    BY <1>3, <1>4, <1>5
<1>8. \A j \in J : j \in 1..Len(c.files) /\ c.files[j].offset >= End(c.files[i])
  BY <1>1
<1>9. \/ NextOffset(c, i) = DataEnd
      \/ \E j \in J : NextOffset(c, i) = c.files[j].offset
  <2> HIDE DEF J
  <2> QED
    BY <1>4, <1>5
<1> QED
  <2> HIDE DEF J
  <2> QED
    BY <1>6, <1>7, <1>8, <1>9

\* A relocation sees every entry but those with the offset of the one that moves.
LEMMA OccupiedIs ==
    ASSUME NEW c, Sound(c), NEW i \in 1..Len(c.files)
    PROVE  /\ Within(Occupied(c, i))
           /\ \A k \in 1..Len(c.files) : \/ c.files[k] \in Occupied(c, i)
                                         \/ c.files[k].offset = c.files[i].offset
<1> DEFINE U(k) == {j \in DOMAIN c.files : c.files[j].offset = c.files[k].offset}
<1>1. DOMAIN c.files = 1..Len(c.files)
  BY SoundIs
<1>2. ASSUME NEW k \in 1..Len(c.files)
      PROVE  Min(U(k)) \in U(k)
  <2>1. U(k) \subseteq Nat /\ k \in U(k)
    BY <1>1
  <2> HIDE DEF U
  <2> QED
    BY <2>1, MinIs
<1>3. ASSUME NEW k \in 1..Len(c.files), c.files[k].offset # c.files[i].offset
      PROVE  c.files[k] \in Occupied(c, i)
  <2>1. Min(U(k)) # i
    BY <1>2, <1>3
  <2> QED
    BY <1>1, <2>1 DEF Occupied
<1>4. Occupied(c, i) \subseteq EntriesOf(c)
  BY DEF Occupied, EntriesOf
<1>5. Within(Occupied(c, i))
  BY <1>4, SoundIs DEF Within
<1> QED
  BY <1>3, <1>5
------------------------------------------------------------------------------
(* What may become of a volume *)

Unique(c) == \A i, j \in 1..Len(c.files) : c.files[i].name = c.files[j].name => i = j

Apart(c) == \A i, j \in 1..Len(c.files) : i # j => Extent(c.files[i]) \cap Extent(c.files[j]) = {}

InFile(c, x) == \E i \in 1..Len(c.files) : x \in Bytes(c.files[i])

FreeZero(c) == \A x \in Cell : InFile(c, x) \/ c.area[x] = Zero

\* An empty file has grown whose offset was in the extent of another.
GrewOver(c, q) ==
    \E i, j \in 1..Len(c.files) :
       /\ i # j /\ Len(q.files) = Len(c.files) /\ q.files[i].size > c.files[i].size
       /\ c.files[i].sectors = 0 /\ c.files[i].offset \in Extent(c.files[j])

\* q is as good a volume as c.
Preserves(c, q) ==
    /\ Sound(q)
    /\ ~IOErrors /\ Unique(c) => Unique(q)
    /\ ~IOErrors /\ FreeZero(c) => FreeZero(q)
    /\ Apart(c) => Apart(q) \/ GrewOver(c, q)

\* The ways a table changes: an empty file is added, an entry is removed, gets
\* another name, or another place and size.
Adds(c, q, e) ==
    /\ q \in Context /\ q.files = Append(c.files, e) /\ q.used_sectors = c.used_sectors
    /\ q.area = c.area /\ Len(c.files) < MaxFiles /\ Placed(e) /\ e.size = 0 /\ e.sectors = 0
    /\ \A j \in 1..Len(c.files) : c.files[j].name # e.name

Drops(c, q, i) ==
    /\ q \in Context /\ i \in 1..Len(c.files) /\ Without(q.files, c.files, i)
    /\ q.used_sectors = c.used_sectors - c.files[i].sectors
    /\ ~IOErrors => \A x \in Cell :
                       /\ q.area[x] = IF x \in Bytes(c.files[i]) THEN Zero ELSE c.area[x]
                       /\ x \in Bytes(c.files[i]) => q.disk[x] = Zero

Others(c, q, i) ==
    /\ q \in Context /\ i \in 1..Len(c.files) /\ Len(q.files) = Len(c.files)
    /\ \A j \in 1..Len(c.files) : j # i => q.files[j] = c.files[j]

Names(c, q, i, n) ==
    /\ Others(c, q, i) /\ q.used_sectors = c.used_sectors /\ q.area = c.area /\ q.disk = c.disk
    /\ q.files[i] \in File /\ q.files[i].name = n /\ q.files[i].offset = c.files[i].offset
    /\ q.files[i].size = c.files[i].size /\ q.files[i].sectors = c.files[i].sectors

\* The new place touches no other entry, or the file was empty and inside another.
Sits(c, i, o, size) ==
    Apart(c) =>
      \A j \in 1..Len(c.files) :
         j # i => \/ (o..o + SectorsFor(size) * SectorCells - 1) \cap Extent(c.files[j]) = {}
                  \/ /\ c.files[i].sectors = 0 /\ c.files[i].size < size
                     /\ c.files[i].offset \in Extent(c.files[j])

Sizes(c, q, i, o, size) ==
    /\ Others(c, q, i) /\ Sits(c, i, o, size)
    /\ Placed(q.files[i]) /\ q.files[i].name = c.files[i].name
    /\ q.files[i].offset = o /\ q.files[i].size = size
    /\ q.used_sectors = c.used_sectors + q.files[i].sectors - c.files[i].sectors
    /\ q.used_sectors <= total_sectors
    /\ ~IOErrors => \A x \in Cell \ (o..o + size - 1) :
                       q.area[x] = IF x \in Bytes(c.files[i]) THEN Zero ELSE c.area[x]

\* The data has come along, unless it was copied onto itself; a relocated file is wiped
\* on the disk, but for the last sector of the cache it reached into.
Copied(c, q, i, o, n) ==
    LET f == c.files[i]
    IN /\ (o = f.offset \/ Bytes(f) \cap (o..o + f.size - 1) = {}) =>
            \A k \in 1..n : q.area[o + k - 1] = c.area[f.offset + k - 1]
       /\ o # f.offset => \A x \in Bytes(f) : Phys(x) < Phys(End(f)) => q.disk[x] = Zero

\* And what is new in it reads as zero.
Carries(c, q, i, o, size) ==
    ~IOErrors => /\ \A n \in Nat : n <= c.files[i].size /\ n <= size => Copied(c, q, i, o, n)
                 /\ FreeZero(c) /\ Apart(c) =>
                      \A k \in 1..size : k > c.files[i].size => q.area[o + k - 1] = Zero

LEMMA AddsPreserves ==
    ASSUME NEW c, Sound(c), NEW q, NEW e, Adds(c, q, e)
    PROVE  Preserves(c, q)
<1>1. PICK n \in Nat : n = Len(c.files)
  BY SoundIs
<1>2. e \in File
  BY DEF Adds, Placed
<1>3. q.files = Append(c.files, e) /\ c.files \in Seq(File)
  BY SoundIs DEF Adds
<1>4. /\ Len(q.files) = n + 1 /\ q.files[n + 1] = e
      /\ \A i \in 1..n : q.files[i] = c.files[i]
  BY <1>1, <1>2, <1>3, AppendProperties
<1>5. \A i \in 1..Len(q.files) : i = n + 1 \/ i \in 1..n
  BY <1>4
<1>6. Sound(q)
  <2>1. n + 1 <= MaxFiles
    BY <1>1, SizesAre DEF Adds
  <2>2. Total(q.files) = Total(c.files)
    <3>1. e.sectors = 0
      BY DEF Adds
    <3>2. Total(q.files) = Total(c.files) + e.sectors
      BY <1>2, <1>3, TotalAppend
    <3>3. Total(c.files) \in Nat
      BY <1>3, TotalType
    <3> QED
      BY <3>1, <3>2, <3>3
  <2>3. \A i \in 1..Len(q.files) : Placed(q.files[i])
    BY <1>1, <1>4, <1>5 DEF Adds, Sound
  <2> QED
    BY <1>4, <2>1, <2>2, <2>3 DEF Sound, Adds
<1>7. Unique(c) => Unique(q)
  BY <1>1, <1>4, <1>5 DEF Adds, Unique
<1>8. Extent(e) = {} /\ Bytes(e) = {}
  <2>1. e.offset \in Nat /\ e.size = 0 /\ e.sectors = 0
    BY <1>2, EndIs DEF Adds
  <2>2. End(e) = e.offset
    BY <2>1, SizesAre DEF End
  <2> QED
    BY <2>1, <2>2 DEF Extent, Bytes
<1>9. Apart(c) => Apart(q)
  BY <1>1, <1>4, <1>5, <1>8 DEF Apart
<1>10. ASSUME FreeZero(c)
       PROVE  FreeZero(q)
  <2>1. ASSUME NEW x, InFile(c, x)
        PROVE  InFile(q, x)
    <3>1. PICK i \in 1..n : x \in Bytes(c.files[i])
      BY <1>1, <2>1 DEF InFile
    <3>2. i \in 1..n + 1
      OBVIOUS
    <3> QED
      BY <1>4, <3>1, <3>2 DEF InFile
  <2>2. q.area = c.area
    BY DEF Adds
  <2> QED
    BY <1>10, <2>1, <2>2 DEF FreeZero
<1> QED
  BY <1>6, <1>7, <1>9, <1>10 DEF Preserves

LEMMA DropsPreserves ==
    ASSUME NEW c, Sound(c), NEW q, NEW i, Drops(c, q, i)
    PROVE  Preserves(c, q) /\ (Apart(c) => Apart(q))
<1>1. PICK n \in Nat : n = Len(c.files)
  BY SoundIs
<1>2. c.files \in Seq(File) /\ i \in 1..n /\ Without(q.files, c.files, i)
  BY <1>1, SoundIs DEF Drops
<1>3. /\ q.files \in Seq(File) /\ Len(q.files) = n - 1
      /\ \A j \in 1..(n - 1) : q.files[j] = IF j < i THEN c.files[j] ELSE c.files[j + 1]
  BY <1>1, <1>2 DEF Without
<1>4. PICK old : old = [j \in 1..(n - 1) |-> IF j < i THEN j ELSE j + 1]
  OBVIOUS
<1>5. /\ \A j \in 1..(n - 1) : old[j] \in 1..n /\ q.files[j] = c.files[old[j]]
      /\ \A j, k \in 1..(n - 1) : j # k => old[j] # old[k]
      /\ \A k \in 1..n : k # i => \E j \in 1..(n - 1) : old[j] = k
  <2>1. \A j \in 1..(n - 1) : old[j] \in 1..n /\ q.files[j] = c.files[old[j]]
    BY <1>2, <1>3, <1>4
  <2>2. \A j, k \in 1..(n - 1) : j # k => old[j] # old[k]
    BY <1>2, <1>4
  <2>3. ASSUME NEW k \in 1..n, k # i
        PROVE  \E j \in 1..(n - 1) : old[j] = k
    <3>1. CASE k < i
      <4>1. k \in 1..(n - 1)
        BY <1>2, <3>1
      <4> QED
        BY <1>4, <3>1, <4>1
    <3>2. CASE k > i
      <4>1. k - 1 \in 1..(n - 1) /\ ~(k - 1 < i) /\ (k - 1) + 1 = k
        BY <1>2, <3>2
      <4> QED
        BY <1>4, <4>1
    <3> QED
      BY <1>2, <2>3, <3>1, <3>2
  <2> QED
    BY <2>1, <2>2, <2>3
<1>6. Sound(q)
  <2>1. PICK a \in Nat, b \in Nat, u \in Int :
             a = Total(c.files) /\ b = c.files[i].sectors /\ u = Total(q.files)
    <3>1. Total(c.files) \in Nat /\ Total(q.files) \in Nat
      BY <1>2, <1>3, TotalType
    <3>2. c.files[i].sectors \in Nat
      BY <1>1, <1>2, PlacedIs
    <3> QED
      BY <3>1, <3>2
  <2>2. u = a - b
    BY <1>1, <1>2, <2>1, TotalRemove
  <2>3. q.used_sectors = a - b /\ a <= total_sectors
    BY <2>1 DEF Drops, Sound
  <2>4. q.used_sectors = u /\ u <= total_sectors
    BY <2>2, <2>3, SizesAre
  <2>5. \A j \in 1..(n - 1) : Placed(q.files[j])
    BY <1>1, <1>5 DEF Sound
  <2>6. n <= MaxFiles
    BY <1>1 DEF Sound
  <2>7. n - 1 <= MaxFiles
    BY <2>6, SizesAre
  <2> QED
    BY <1>3, <2>1, <2>4, <2>5, <2>7 DEF Sound, Drops
<1>7. Unique(c) => Unique(q)
  <2>1. ASSUME Unique(c), NEW j \in 1..(n - 1), NEW k \in 1..(n - 1),
               q.files[j].name = q.files[k].name
        PROVE  j = k
    <3>1. /\ old[j] \in 1..n /\ q.files[j] = c.files[old[j]]
          /\ old[k] \in 1..n /\ q.files[k] = c.files[old[k]]
          /\ j # k => old[j] # old[k]
      BY <1>5
    <3>2. old[j] = old[k]
      BY <1>1, <2>1, <3>1 DEF Unique
    <3> QED
      BY <3>1, <3>2
  <2> QED
    BY <1>3, <2>1 DEF Unique
<1>8. Apart(c) => Apart(q)
  <2>1. ASSUME Apart(c), NEW j \in 1..(n - 1), NEW k \in 1..(n - 1), j # k
        PROVE  Extent(q.files[j]) \cap Extent(q.files[k]) = {}
    <3>1. /\ old[j] \in 1..n /\ q.files[j] = c.files[old[j]]
          /\ old[k] \in 1..n /\ q.files[k] = c.files[old[k]]
          /\ old[j] # old[k]
      BY <1>5, <2>1
    <3>2. Extent(c.files[old[j]]) \cap Extent(c.files[old[k]]) = {}
      BY <1>1, <2>1, <3>1 DEF Apart
    <3> QED
      BY <3>1, <3>2
  <2> QED
    BY <1>3, <2>1 DEF Apart
<1>9. ASSUME ~IOErrors, FreeZero(c), NEW x \in Cell, ~InFile(q, x)
      PROVE  q.area[x] = Zero
  <2>1. q.area[x] = IF x \in Bytes(c.files[i]) THEN Zero ELSE c.area[x]
    BY <1>9 DEF Drops
  <2>2. CASE x \in Bytes(c.files[i])
    BY <2>1, <2>2
  <2>3. CASE x \notin Bytes(c.files[i])
    <3>1. ASSUME NEW k \in 1..n, x \in Bytes(c.files[k])
          PROVE  FALSE
      <4>1. PICK j \in 1..(n - 1) : old[j] = k
        BY <1>5, <2>3, <3>1
      <4>2. x \in Bytes(q.files[j])
        BY <1>5, <3>1, <4>1
      <4> QED
        BY <1>3, <1>9, <4>2 DEF InFile
    <3>2. ~InFile(c, x)
      BY <1>1, <3>1 DEF InFile
    <3> QED
      BY <1>9, <2>1, <2>3, <3>2 DEF FreeZero
  <2> QED
    BY <2>2, <2>3
<1> QED
  BY <1>6, <1>7, <1>8, <1>9 DEF Preserves, FreeZero

LEMMA OthersTotal ==
    ASSUME NEW c, Sound(c), NEW q, NEW i, Others(c, q, i), q.files[i] \in File
    PROVE  /\ i \in 1..Len(c.files) /\ q.files \in Seq(File) /\ c.files \in Seq(File)
           /\ Total(q.files) = c.used_sectors + q.files[i].sectors - c.files[i].sectors
           /\ q.files[i].sectors \in Nat /\ c.files[i].sectors \in Nat /\ c.used_sectors \in Nat
<1>1. /\ q \in Context /\ i \in 1..Len(c.files) /\ Len(q.files) = Len(c.files)
      /\ \A j \in 1..Len(c.files) : j # i => q.files[j] = c.files[j]
  BY DEF Others
<1>2. q.files \in Seq(File) /\ c.files \in Seq(File) /\ i \in 1..Len(q.files)
  BY <1>1, ContextIs, SoundIs
<1>3. q.files[i].sectors \in Nat /\ c.files[i].sectors \in Nat
  BY <1>1, <1>2, EntryType
<1>4. c.used_sectors = Total(c.files) /\ Total(c.files) \in Nat
  BY <1>2, TotalType DEF Sound
<1>5. Total(q.files) = Total(c.files) + q.files[i].sectors - c.files[i].sectors
  BY <1>1, <1>2, TotalReplace
<1> QED
  BY <1>1, <1>2, <1>3, <1>4, <1>5

LEMMA NamesPreserves ==
    ASSUME NEW c, Sound(c), NEW q, NEW i, NEW n, Names(c, q, i, n)
    PROVE  /\ Sound(q) /\ (FreeZero(c) => FreeZero(q)) /\ (Apart(c) => Apart(q))
           /\ Unique(c) /\ (\A j \in 1..Len(c.files) : c.files[j].name # n) => Unique(q)
<1>1. /\ q \in Context /\ i \in 1..Len(c.files) /\ Len(q.files) = Len(c.files)
      /\ \A j \in 1..Len(c.files) : j # i => q.files[j] = c.files[j]
      /\ q.used_sectors = c.used_sectors /\ q.area = c.area
      /\ q.files[i] \in File /\ q.files[i].name = n /\ q.files[i].offset = c.files[i].offset
      /\ q.files[i].size = c.files[i].size /\ q.files[i].sectors = c.files[i].sectors
  BY DEF Names, Others
<1>2. \A j \in 1..Len(c.files) : /\ q.files[j].offset = c.files[j].offset
                                 /\ q.files[j].size = c.files[j].size
                                 /\ q.files[j].sectors = c.files[j].sectors
  BY <1>1
<1>3. \A j \in 1..Len(c.files) : /\ End(q.files[j]) = End(c.files[j])
                                 /\ Extent(q.files[j]) = Extent(c.files[j])
                                 /\ Bytes(q.files[j]) = Bytes(c.files[j])
  BY <1>2 DEF End, Extent, Bytes
<1>4. Sound(q)
  <2>1. Total(q.files) = c.used_sectors
    <3>1. Others(c, q, i)
      BY DEF Names
    <3>2. /\ Total(q.files) = c.used_sectors + q.files[i].sectors - c.files[i].sectors
          /\ c.files[i].sectors \in Nat /\ c.used_sectors \in Nat
      BY <1>1, <3>1, OthersTotal
    <3> QED
      BY <1>1, <3>2
  <2>2. ASSUME NEW j \in 1..Len(c.files)
        PROVE  Placed(q.files[j])
    <3>1. Placed(c.files[j])
      BY DEF Sound
    <3>2. CASE j = i
      BY <1>1, <1>2, <1>3, <3>1, <3>2 DEF Placed
    <3>3. CASE j # i
      BY <1>1, <3>1, <3>3
    <3> QED
      BY <3>2, <3>3
  <2> QED
    BY <1>1, <2>1, <2>2 DEF Sound
<1>5. FreeZero(c) => FreeZero(q)
  <2>1. \A x : InFile(c, x) => InFile(q, x)
    BY <1>1, <1>3 DEF InFile
  <2> QED
    BY <1>1, <2>1 DEF FreeZero
<1>6. Apart(c) => Apart(q)
  <2>1. ASSUME Apart(c), NEW j \in 1..Len(c.files), NEW k \in 1..Len(c.files), j # k
        PROVE  Extent(q.files[j]) \cap Extent(q.files[k]) = {}
    BY <1>3, <2>1 DEF Apart
  <2> QED
    BY <1>1, <2>1 DEF Apart
<1>7. ASSUME Unique(c), \A j \in 1..Len(c.files) : c.files[j].name # n
      PROVE  Unique(q)
  <2>1. ASSUME NEW j \in 1..Len(c.files), NEW k \in 1..Len(c.files),
               q.files[j].name = q.files[k].name
        PROVE  j = k
    <3>1. CASE j # i /\ k # i
      <4>1. q.files[j] = c.files[j] /\ q.files[k] = c.files[k]
        BY <1>1, <3>1
      <4> QED
        BY <1>7, <2>1, <4>1 DEF Unique
    <3>2. ASSUME NEW m \in 1..Len(c.files), m # i
          PROVE  q.files[m].name # n
      BY <1>1, <1>7, <3>2
    <3> QED
      BY <1>1, <2>1, <3>1, <3>2
  <2> QED
    BY <1>1, <2>1 DEF Unique
<1> QED
  BY <1>4, <1>5, <1>6, <1>7

LEMMA SizesPreserves ==
    ASSUME NEW c, Sound(c), NEW q, NEW i, NEW o, NEW size, Sizes(c, q, i, o, size)
    PROVE  Preserves(c, q)
<1>1. /\ q \in Context /\ i \in 1..Len(c.files) /\ Len(q.files) = Len(c.files)
      /\ \A j \in 1..Len(c.files) : j # i => q.files[j] = c.files[j]
      /\ Placed(q.files[i]) /\ q.files[i].name = c.files[i].name
      /\ q.files[i].offset = o /\ q.files[i].size = size
      /\ q.used_sectors = c.used_sectors + q.files[i].sectors - c.files[i].sectors
      /\ q.used_sectors <= total_sectors
  BY DEF Sizes, Others
<1>2. /\ q.files[i] \in File /\ q.files[i].sectors = SectorsFor(size)
      /\ End(q.files[i]) = o + SectorsFor(size) * SectorCells
  BY <1>1 DEF Placed, End
<1>3. Sound(q)
  <2>1. Total(q.files) = q.used_sectors
    <3>1. Others(c, q, i)
      BY DEF Sizes
    <3> QED
      BY <1>1, <1>2, <3>1, OthersTotal
  <2>2. \A j \in 1..Len(q.files) : Placed(q.files[j])
    BY <1>1 DEF Sound
  <2> QED
    BY <1>1, <2>1, <2>2 DEF Sound
<1>4. Unique(c) => Unique(q)
  <2>1. \A j \in 1..Len(c.files) : q.files[j].name = c.files[j].name
    BY <1>1
  <2> QED
    BY <1>1, <2>1 DEF Unique
<1>5. ASSUME ~IOErrors, FreeZero(c), NEW x \in Cell, ~InFile(q, x)
      PROVE  q.area[x] = Zero
  <2>1. Bytes(q.files[i]) = o..o + size - 1
    BY <1>1 DEF Bytes
  <2>2. x \notin o..o + size - 1
    BY <1>1, <1>5, <2>1 DEF InFile
  <2>3. q.area[x] = IF x \in Bytes(c.files[i]) THEN Zero ELSE c.area[x]
    BY <1>5, <2>2 DEF Sizes
  <2>4. CASE x \in Bytes(c.files[i])
    BY <2>3, <2>4
  <2>5. CASE x \notin Bytes(c.files[i])
    <3>1. ~InFile(c, x)
      BY <1>1, <1>5, <2>5 DEF InFile
    <3> QED
      BY <1>5, <2>3, <2>5, <3>1 DEF FreeZero
  <2> QED
    BY <2>4, <2>5
<1>6. ASSUME Apart(c), ~GrewOver(c, q)
      PROVE  Apart(q)
  <2>1. Extent(q.files[i]) = o..o + SectorsFor(size) * SectorCells - 1
    <3>1. PICK f : f = q.files[i]
      OBVIOUS
    <3>2. Extent(f) = f.offset..End(f) - 1
      BY DEF Extent
    <3>3. f.offset = o /\ End(f) = o + SectorsFor(size) * SectorCells
      BY <1>1, <1>2, <3>1
    <3>4. f \in File /\ size \in Nat
      BY <1>1, <1>2, <3>1, EndIs
    <3>5. o \in Nat /\ SectorsFor(size) * SectorCells \in Nat
      BY <3>3, <3>4, EndIs, SectorsForIs
    <3>6. End(f) - 1 = o + SectorsFor(size) * SectorCells - 1
      BY <3>3, <3>5
    <3> QED
      BY <3>1, <3>2, <3>3, <3>6, Zenon
  <2>2. ASSUME NEW j \in 1..Len(c.files), j # i
        PROVE  Extent(q.files[i]) \cap Extent(q.files[j]) = {}
    <3>1. ~(/\ c.files[i].sectors = 0 /\ c.files[i].size < size
            /\ c.files[i].offset \in Extent(c.files[j]))
      <4>1. c.files[i].size \in Nat /\ size \in Nat
        BY <1>1, <1>2, EndIs, PlacedIs
      <4>2. c.files[i].size < size => q.files[i].size > c.files[i].size
        BY <1>1, <4>1
      <4> QED
        BY <1>1, <1>6, <2>2, <4>2 DEF GrewOver
    <3>2. (o..o + SectorsFor(size) * SectorCells - 1) \cap Extent(c.files[j]) = {}
      BY <1>6, <2>2, <3>1 DEF Sizes, Sits
    <3> QED
      BY <1>1, <2>1, <2>2, <3>2
  <2>3. ASSUME NEW j \in 1..Len(c.files), NEW k \in 1..Len(c.files), j # k
        PROVE  Extent(q.files[j]) \cap Extent(q.files[k]) = {}
    <3>1. CASE j = i
      BY <2>2, <2>3, <3>1
    <3>2. CASE k = i
      BY <2>2, <2>3, <3>2
    <3>3. CASE j # i /\ k # i
      BY <1>1, <1>6, <2>3, <3>3 DEF Apart
    <3> QED
      BY <3>1, <3>2, <3>3
  <2> QED
    BY <1>1, <2>3 DEF Apart
<1>7. ~IOErrors /\ FreeZero(c) => FreeZero(q)
  BY <1>5 DEF FreeZero
<1> QED
  BY <1>3, <1>4, <1>6, <1>7 DEF Preserves

\* A write into a file, or one that fails.
Fills(c, q) ==
    /\ Keeps(c, q)
    /\ ~IOErrors => \A x \in Cell : InFile(c, x) \/ q.area[x] = c.area[x]

LEMMA FillsPreserves ==
    ASSUME NEW c, NEW q, NEW z, Preserves(c, q), Fills(q, z)
    PROVE  Preserves(c, z)
<1>1. z \in Context /\ z.files = q.files /\ z.used_sectors = q.used_sectors
  BY DEF Fills, Keeps
<1>2. Sound(z)
  BY <1>1 DEF Sound, Preserves
<1>3. (Unique(q) => Unique(z)) /\ (Apart(q) => Apart(z)) /\ (GrewOver(c, q) => GrewOver(c, z))
  BY <1>1 DEF Unique, Apart, GrewOver
<1>4. \A x : InFile(q, x) => InFile(z, x)
  BY <1>1 DEF InFile
<1>5. ASSUME ~IOErrors, FreeZero(q)
      PROVE  FreeZero(z)
  BY <1>4, <1>5 DEF Fills, FreeZero
<1> QED
  BY <1>2, <1>3, <1>5 DEF Preserves

LEMMA StaysPreserves ==
    ASSUME NEW c, Sound(c)
    PROVE  Preserves(c, c) /\ Fills(c, c)
<1>1. c \in Context
  BY DEF Sound
<1> QED
  BY <1>1 DEF Preserves, Fills, Keeps

------------------------------------------------------------------------------
(* Creation, deletion, renaming *)

WithTable(c, G, u) == [c EXCEPT !.files = G, !.used_sectors = u]

LEMMA TableSet ==
    ASSUME NEW c \in Context, NEW G \in Seq(File), NEW u \in Int
    PROVE  /\ WithTable(c, G, u) \in Context /\ WithTable(c, G, u).files = G
           /\ WithTable(c, G, u).used_sectors = u /\ WithTable(c, G, u).area = c.area
           /\ WithTable(c, G, u).disk = c.disk
<1>1. PICK q : q = [c EXCEPT !.files = G, !.used_sectors = u]
  OBVIOUS
<1>2. DOMAIN c = {"files", "used_sectors", "area", "disk"}
  BY DEF Context
<1>3. q.files = G /\ q.used_sectors = u /\ q.area = c.area /\ q.disk = c.disk
  BY <1>1, <1>2
<1>4. q \in Context
  BY <1>1 DEF Context
<1> QED
  BY <1>1, <1>3, <1>4 DEF WithTable

\* What vfs_create_empty_file does.
Creates(c, r, n) == \/ r = Failed(c)
                    \/ r.ok /\ \E e : e.name = n /\ Adds(c, r.ctx, e)

LEMMA CreateIs ==
    ASSUME NEW c, Sound(c), NEW n \in Name, NEW r \in vfs_create_empty_file(c, n)
    PROVE  Creates(c, r, n)
<1> DEFINE F == EntriesOf(c)
           best == BestFit(F, 0)
           offset == IF best # {} THEN (CHOOSE g \in best : TRUE).start ELSE Reached(F, DataEnd + 1)
           e == [name |-> n, offset |-> offset, size |-> 0, sectors |-> 0]
<1>1. \/ r = Failed(c)
      \/ /\ ~(Len(c.files) >= MaxFiles) /\ vfs_find_file(c, n) = {} /\ ~(offset > DataEnd)
         /\ r = Done([c EXCEPT !.files = Append(@, e)])
  BY DEF vfs_create_empty_file
<1>2. CASE r = Failed(c)
  BY <1>2 DEF Creates
<1>3. CASE /\ ~(Len(c.files) >= MaxFiles) /\ vfs_find_file(c, n) = {} /\ ~(offset > DataEnd)
           /\ r = Done([c EXCEPT !.files = Append(@, e)])
  <2>1. /\ c \in Context /\ c.files \in Seq(File) /\ Len(c.files) \in Nat /\ Within(F)
        /\ MaxFiles \in Nat /\ DataEnd \in Nat /\ Base \in Nat
    BY SoundIs, SizesAre
  <2>2. offset \in Nat /\ Base <= offset /\ offset <= DataEnd
    <3>1. CASE best # {}
      <4>1. PICK g : g = CHOOSE h \in best : TRUE
        OBVIOUS
      <4>2. g \in best /\ offset = g.start
        BY <3>1, <4>1
      <4>3. g.start \in Nat /\ Base <= g.start
        <5> HIDE DEF F
        <5> QED
          BY <2>1, <4>2, FitIs
      <4>4. offset \in Nat /\ Base <= offset
        BY <4>2, <4>3
      <4> HIDE DEF offset
      <4> QED
        BY <1>3, <2>1, <4>4
    <3>2. CASE best = {}
      <4>1. offset = Reached(F, DataEnd + 1)
        BY <3>2
      <4>2. offset \in Base..DataEnd
        <5> HIDE DEF F
        <5> QED
          BY <2>1, <4>1, ReachedIs
      <4> HIDE DEF offset
      <4> QED
        BY <2>1, <4>2
    <3> QED
      BY <3>1, <3>2
  <2>3. PICK o \in Nat : o = offset /\ Base <= o /\ o <= DataEnd
    BY <2>2
  <2>4. PICK f : f = [name |-> n, offset |-> o, size |-> 0, sectors |-> 0]
    OBVIOUS
  <2>5. /\ f = e /\ f \in File /\ f.name = n /\ f.offset = o /\ f.size = 0 /\ f.sectors = 0
    BY <2>3, <2>4 DEF File
  <2>6. Placed(f)
    <3>1. End(f) = o
      BY <2>5, SizesAre DEF End
    <3>2. f.offset >= Base
      BY <2>1, <2>3, <2>5
    <3> QED
      BY <2>3, <2>5, <3>1, <3>2, SectorsForNone DEF Placed
  <2>7. PICK G : G = Append(c.files, f)
    OBVIOUS
  <2>8. G \in Seq(File)
    BY <2>1, <2>5, <2>7, AppendProperties
  <2>9. r.ctx = WithTable(c, G, c.used_sectors)
    <3>1. r.ctx = [c EXCEPT !.files = G]
      BY <1>3, <2>5, <2>7 DEF Done
    <3>2. DOMAIN c = {"files", "used_sectors", "area", "disk"}
      BY <2>1 DEF Context
    <3> HIDE DEF e
    <3> QED
      BY <3>1, <3>2 DEF WithTable
  <2>10. /\ r.ctx \in Context /\ r.ctx.files = G /\ r.ctx.used_sectors = c.used_sectors
         /\ r.ctx.area = c.area
    <3>1. PICK u \in Int : u = c.used_sectors
      BY <2>1, ContextIs
    <3>2. r.ctx = WithTable(c, G, u)
      BY <2>9, <3>1
    <3>3. /\ WithTable(c, G, u) \in Context /\ WithTable(c, G, u).files = G
          /\ WithTable(c, G, u).used_sectors = u /\ WithTable(c, G, u).area = c.area
      <4>1. c \in Context
        BY <2>1
      <4> QED
        BY <2>8, <4>1, TableSet
    <3> QED
      BY <3>1, <3>2, <3>3
  <2>11. \A j \in 1..Len(c.files) : c.files[j].name # f.name
    <3>1. \A j \in 1..Len(c.files) : c.files[j].name # n
      BY <1>3, <2>1, FoundIs
    <3>2. f.name = n
      BY <2>5
    <3> QED
      BY <3>1, <3>2
  <2>12. Len(c.files) < MaxFiles
    BY <1>3, <2>1
  <2>13. Adds(c, r.ctx, f)
    BY <2>5, <2>6, <2>7, <2>10, <2>11, <2>12 DEF Adds
  <2>14. r.ok
    BY <1>3 DEF Done
  <2> QED
    BY <2>5, <2>13, <2>14 DEF Creates
<1> QED
  BY <1>1, <1>2, <1>3

LEMMA CreatePreserves ==
    ASSUME NEW c, Sound(c), NEW r, NEW n, Creates(c, r, n)
    PROVE  Preserves(c, r.ctx)
BY StaysPreserves, AddsPreserves DEF Creates, Failed

LEMMA ZerosPut ==
    ASSUME NEW a \in [Cell -> Content], NEW o \in Nat, NEW n \in Nat
    PROVE  \A x \in Cell : Put(a, o, Zeros(n))[x] = IF x \in o..o + n - 1 THEN Zero ELSE a[x]
<1>1. PICK s : s = Zeros(n)
  OBVIOUS
<1>2. Len(s) = n /\ \A k \in 1..n : s[k] = Zero
  BY <1>1, ZerosType
<1>3. ASSUME NEW x \in Cell, x \in o..o + n - 1
      PROVE  s[x - o + 1] = Zero
  <2>1. x - o + 1 \in 1..n
    BY <1>3
  <2> QED
    BY <1>2, <2>1
<1> QED
  BY <1>1, <1>2, <1>3 DEF Put

\* The sectors of the cache that vfs_delete_file flushes.
Flushed(f) == Phys(f.offset) .. (f.offset + f.size + SectorCells - 1) \div SectorCells - 1

LEMMA QuotientGrows ==
    ASSUME NEW C \in Nat \ {0}, NEW x \in Nat, NEW y \in Nat, NEW k \in Nat, x + k * C <= y
    PROVE  x \div C + k <= y \div C
<1>1. PICK a \in Nat, b \in Nat : a = x \div C /\ b = y \div C
  BY Quotient
<1>2. a * C <= x /\ y < b * C + C
  BY <1>1, Quotient
<1>3. ASSUME b + 1 <= a + k
      PROVE  FALSE
  <2>1. PICK p \in Nat, q \in Nat : p = b + 1 /\ q = a + k
    OBVIOUS
  <2>2. p * C <= q * C
    BY <1>3, <2>1, Products
  <2>3. p * C = b * C + C /\ q * C = a * C + k * C
    BY <2>1
  <2>4. PICK u \in Nat, v \in Nat, w \in Nat : u = a * C /\ v = b * C /\ w = k * C
    BY Products
  <2>5. v + C <= u + w /\ u <= x /\ x + w <= y /\ y < v + C
    BY <1>2, <2>2, <2>3, <2>4
  <2> QED
    BY <2>5
<1> QED
  BY <1>1, <1>3

LEMMA QuotientShifts ==
    ASSUME NEW C \in Nat \ {0}, NEW x \in Nat, NEW k \in Nat
    PROVE  (x + k * C) \div C = x \div C + k
<1>1. PICK y \in Nat : y = x + k * C
  OBVIOUS
<1>2. PICK a \in Nat, b \in Nat : a = x \div C /\ b = y \div C
  BY Quotient
<1>3. a + k <= b
  BY <1>1, <1>2, QuotientGrows
<1>4. b * C <= y /\ x < a * C + C
  BY <1>2, Quotient
<1>5. ASSUME a + k + 1 <= b
      PROVE  FALSE
  <2>1. PICK p \in Nat : p = a + k + 1
    OBVIOUS
  <2>2. p * C <= b * C
    BY <1>5, <2>1, Products
  <2>3. p * C = a * C + k * C + C
    BY <2>1
  <2>4. PICK u \in Nat, v \in Nat, w \in Nat : u = a * C /\ v = b * C /\ w = k * C
    BY Products
  <2>5. u + w + C <= v /\ v <= y /\ x < u + C /\ y = x + w
    BY <1>1, <1>4, <2>2, <2>3, <2>4
  <2> QED
    BY <2>5
<1> QED
  BY <1>1, <1>2, <1>3, <1>5

LEMMA FlushedIs ==
    ASSUME NEW f \in File, NEW x \in Bytes(f)
    PROVE  Phys(x) \in Flushed(f)
<1>1. PICK C \in Nat \ {0} : C = SectorCells
  BY SizesAre
<1>2. PICK o \in Nat, m \in Nat : o = f.offset /\ m = f.size
  BY EndIs
<1>3. x \in Nat /\ o <= x /\ x <= o + m - 1
  BY <1>2 DEF Bytes
<1>4. PICK y \in Nat : y = o + m + C - 1
  OBVIOUS
<1>5. x + 1 * C <= y /\ o + 0 * C <= x
  BY <1>3, <1>4
<1>6. x \div C + 1 <= y \div C /\ o \div C + 0 <= x \div C
  BY <1>3, <1>5, QuotientGrows
<1>7. x \div C \in Nat /\ y \div C \in Nat /\ o \div C \in Nat
  BY <1>3, Quotient
<1>8. Phys(x) = x \div C /\ Phys(o) = o \div C
  BY <1>1 DEF Phys
<1>9. PICK p \in Nat, a \in Nat, b \in Nat : p = Phys(x) /\ a = Phys(o) /\ b = y \div C
                                             /\ a <= p /\ p + 1 <= b
  BY <1>6, <1>7, <1>8
<1>10. p \in a..b - 1
  BY <1>9
<1> QED
  BY <1>1, <1>2, <1>4, <1>9, <1>10 DEF Flushed

\* What vfs_delete_file does.
Deletes(c, r, n) ==
    \/ ~r.ok /\ Fills(c, r.ctx) /\ (~IOErrors => vfs_find_file(c, n) = {} /\ r.ctx = c)
    \/ r.ok /\ \E i \in vfs_find_file(c, n) : Drops(c, r.ctx, i)

LEMMA DeleteIs ==
    ASSUME NEW c, Sound(c), NEW n, NEW r \in vfs_delete_file(c, n)
    PROVE  Deletes(c, r, n)
<1>1. CASE vfs_find_file(c, n) = {}
  <2>1. r = Failed(c)
    BY <1>1 DEF vfs_delete_file
  <2> QED
    BY <1>1, <2>1, StaysPreserves DEF Deletes, Failed
<1>2. CASE vfs_find_file(c, n) # {}
  <2>1. PICK i \in vfs_find_file(c, n) :
          \E w \in vfs_write_data(c, c.files[i].offset, Zeros(c.files[i].size)) :
             \/ ~w.ok /\ r = w
             \/ w.ok /\ \E q \in flush_sectors(w.ctx, Flushed(c.files[i])) :
                   r = Done([q EXCEPT !.files = RemoveAt(@, i),
                                      !.used_sectors = @ - c.files[i].sectors])
    <3> DEFINE f(i) == c.files[i]
               wiped(i) == Flushed(f(i))
    <3>1. PICK i \in vfs_find_file(c, n) :
            r \in UNION {IF ~w.ok THEN {w}
                         ELSE {Done([q EXCEPT !.files = RemoveAt(@, i),
                                              !.used_sectors = @ - f(i).sectors]) :
                                 q \in flush_sectors(w.ctx, wiped(i))}
                         : w \in vfs_write_data(c, f(i).offset, Zeros(f(i).size))}
      BY <1>2 DEF vfs_delete_file, Flushed
    <3> HIDE DEF wiped
    <3>2. PICK w \in vfs_write_data(c, f(i).offset, Zeros(f(i).size)) :
            r \in IF ~w.ok THEN {w}
                  ELSE {Done([q EXCEPT !.files = RemoveAt(@, i),
                                       !.used_sectors = @ - f(i).sectors]) :
                          q \in flush_sectors(w.ctx, wiped(i))}
      BY <3>1
    <3>3. CASE ~w.ok
      BY <3>2, <3>3
    <3>4. CASE w.ok
      <4>1. PICK q \in flush_sectors(w.ctx, wiped(i)) :
              r = Done([q EXCEPT !.files = RemoveAt(@, i),
                                 !.used_sectors = @ - c.files[i].sectors])
        BY <3>2, <3>4
      <4> QED
        BY <3>4, <4>1 DEF wiped
    <3> QED
      BY <3>3, <3>4
  <2>0. PICK w \in vfs_write_data(c, c.files[i].offset, Zeros(c.files[i].size)) :
          \/ ~w.ok /\ r = w
          \/ w.ok /\ \E q \in flush_sectors(w.ctx, Flushed(c.files[i])) :
                r = Done([q EXCEPT !.files = RemoveAt(@, i),
                                   !.used_sectors = @ - c.files[i].sectors])
    BY <2>1
  <2>2. c \in Context /\ c.files \in Seq(File) /\ i \in 1..Len(c.files) /\ c.used_sectors \in Int
    BY SoundIs, FoundIs, ContextIs
  <2>3. PICK o \in Nat, m \in Nat : o = c.files[i].offset /\ m = c.files[i].size
    BY <2>2, PlacedIs
  <2>4. c.files[i].sectors \in Nat
    BY <2>2, PlacedIs
  <2>5. PICK s : s = Zeros(m) /\ s \in Seq(Content)
    BY ZerosType
  <2>6. w \in vfs_write_data(c, o, s)
    BY <2>3, <2>5
  <2>7. Keeps(c, w.ctx) /\ (~IOErrors => w.ok /\ w.ctx.area = Put(c.area, o, s))
    BY <2>2, <2>5, <2>6, WriteIs
  <2>8. CASE ~w.ok /\ r = w
    BY <2>7, <2>8 DEF Deletes, Fills
  <2>9. ASSUME NEW q \in flush_sectors(w.ctx, Flushed(c.files[i])),
               r = Done([q EXCEPT !.files = RemoveAt(@, i),
                                  !.used_sectors = @ - c.files[i].sectors])
        PROVE  r.ok /\ Drops(c, r.ctx, i)
    <3>1. w.ctx \in Context
      BY <2>7 DEF Keeps
    <3>2. /\ Keeps(w.ctx, q) /\ q.area = w.ctx.area
          /\ ~IOErrors => \A x \in Cell : Phys(x) \in Flushed(c.files[i]) => q.disk[x] = q.area[x]
      BY <3>1, FlushIs
    <3>3. q \in Context /\ q.files = c.files /\ q.used_sectors = c.used_sectors
      BY <2>7, <3>2 DEF Keeps
    <3>4. PICK G : G = RemoveAt(c.files, i) /\ Without(G, c.files, i)
      BY <2>2, RemoveAtIs
    <3>5. PICK u \in Int : u = c.used_sectors - c.files[i].sectors
      BY <2>2, <2>4
    <3>6. r.ctx = WithTable(q, G, u)
      BY <2>9, <3>3, <3>4, <3>5 DEF Done, WithTable
    <3>7. G \in Seq(File)
      BY <3>4 DEF Without
    <3>8. /\ r.ctx \in Context /\ r.ctx.files = G /\ r.ctx.used_sectors = u
          /\ r.ctx.area = q.area /\ r.ctx.disk = q.disk
      BY <3>3, <3>6, <3>7, TableSet
    <3>9. ASSUME ~IOErrors, NEW x \in Cell
          PROVE  /\ r.ctx.area[x] = IF x \in Bytes(c.files[i]) THEN Zero ELSE c.area[x]
                 /\ x \in Bytes(c.files[i]) => r.ctx.disk[x] = Zero
      <4>1. r.ctx.area = Put(c.area, o, Zeros(m))
        BY <2>5, <2>7, <3>2, <3>8, <3>9
      <4>2. c.area \in [Cell -> Content]
        BY <2>2, ContextIs
      <4>3. Bytes(c.files[i]) = o..o + m - 1
        BY <2>3 DEF Bytes
      <4>4. r.ctx.area[x] = IF x \in Bytes(c.files[i]) THEN Zero ELSE c.area[x]
        BY <4>1, <4>2, <4>3, ZerosPut
      <4>5. ASSUME x \in Bytes(c.files[i])
            PROVE  r.ctx.disk[x] = Zero
        <5>1. c.files[i] \in File
          BY <2>2, ElementOfSeq
        <5>2. Phys(x) \in Flushed(c.files[i])
          BY <4>5, <5>1, FlushedIs
        <5> QED
          BY <3>2, <3>8, <3>9, <4>4, <4>5, <5>2
      <4> QED
        BY <4>4, <4>5
    <3>10. r.ok
      BY <2>9 DEF Done
    <3> QED
      BY <2>2, <3>4, <3>5, <3>8, <3>9, <3>10 DEF Drops
  <2> QED
    BY <2>0, <2>8, <2>9 DEF Deletes
<1> QED
  BY <1>1, <1>2

LEMMA DeletePreserves ==
    ASSUME NEW c, Sound(c), NEW r, NEW q, q = r.ctx, NEW n, Deletes(c, r, n)
    PROVE  Preserves(c, q) /\ (Apart(c) => Apart(q))
<1>1. CASE Fills(c, q)
  <2>1. Preserves(c, q)
    BY <1>1, StaysPreserves, FillsPreserves
  <2>2. q.files = c.files
    BY <1>1 DEF Fills, Keeps
  <2> QED
    BY <2>1, <2>2 DEF Apart
<1>2. CASE \E i \in vfs_find_file(c, n) : Drops(c, q, i)
  BY <1>2, DropsPreserves
<1> QED
  BY <1>1, <1>2 DEF Deletes

\* The name of a deleted file is free.
LEMMA DropsFrees ==
    ASSUME NEW c, Sound(c), NEW q, NEW i, Drops(c, q, i), Unique(c)
    PROVE  \A j \in 1..Len(q.files) : q.files[j].name # c.files[i].name
<1>1. PICK n \in Nat : n = Len(c.files)
  BY SoundIs
<1>2. /\ i \in 1..n /\ Len(q.files) = n - 1
      /\ \A j \in 1..(n - 1) : q.files[j] = IF j < i THEN c.files[j] ELSE c.files[j + 1]
  BY <1>1 DEF Drops, Without
<1>3. ASSUME NEW j \in 1..(n - 1)
      PROVE  q.files[j].name # c.files[i].name
  <2>1. PICK k \in 1..n : k # i /\ q.files[j] = c.files[k]
    <3>1. CASE j < i
      <4>1. j \in 1..n /\ j # i
        BY <1>2, <3>1
      <4> QED
        BY <1>2, <3>1, <4>1
    <3>2. CASE ~(j < i)
      <4>1. j + 1 \in 1..n /\ j + 1 # i
        BY <1>2, <3>2
      <4> QED
        BY <1>2, <3>2, <4>1
    <3> QED
      BY <3>1, <3>2
  <2> QED
    BY <1>1, <1>2, <2>1 DEF Unique
<1> QED
  BY <1>2, <1>3

LEMMA RenamedIs ==
    ASSUME NEW c, Sound(c), NEW from, NEW to \in Name, NEW r \in Renamed(c, from, to)
    PROVE  r.ok /\ \E i \in vfs_find_file(c, from) : Names(c, r.ctx, i, to)
<1>1. PICK i \in vfs_find_file(c, from) : r = Done([c EXCEPT !.files[i].name = to])
  BY DEF Renamed
<1>2. /\ c \in Context /\ c.files \in Seq(File) /\ i \in 1..Len(c.files) /\ c.used_sectors \in Int
      /\ c.area \in [Cell -> Content] /\ c.disk \in [Cell -> Content]
  BY SoundIs, FoundIs, ContextIs
<1>3. c.files[i] \in File
  BY <1>2, ElementOfSeq
<1>4. PICK f : f = [c.files[i] EXCEPT !.name = to]
  OBVIOUS
<1>5. /\ f \in File /\ f.name = to /\ f.offset = c.files[i].offset
      /\ f.size = c.files[i].size /\ f.sectors = c.files[i].sectors
  BY <1>3, <1>4 DEF File
<1>6. PICK G : G = [c.files EXCEPT ![i] = f]
  OBVIOUS
<1>7. /\ G \in Seq(File) /\ Len(G) = Len(c.files) /\ G[i] = f
      /\ \A j \in 1..Len(c.files) : j # i => G[j] = c.files[j]
  BY <1>2, <1>5, <1>6, ExceptSeq
<1>8. r.ctx = WithTable(c, G, c.used_sectors)
  <2>1. r.ctx = [c EXCEPT !.files = G]
    BY <1>1, <1>4, <1>6 DEF Done
  <2>2. DOMAIN c = {"files", "used_sectors", "area", "disk"}
    BY <1>2 DEF Context
  <2> QED
    BY <2>1, <2>2 DEF WithTable
<1>9. /\ r.ctx \in Context /\ r.ctx.files = G /\ r.ctx.used_sectors = c.used_sectors
      /\ r.ctx.area = c.area /\ r.ctx.disk = c.disk
  <2>1. PICK u \in Int : u = c.used_sectors
    BY <1>2
  <2>2. r.ctx = WithTable(c, G, u)
    BY <1>8, <2>1
  <2>3. /\ WithTable(c, G, u) \in Context /\ WithTable(c, G, u).files = G
        /\ WithTable(c, G, u).used_sectors = u /\ WithTable(c, G, u).area = c.area
        /\ WithTable(c, G, u).disk = c.disk
    <3>1. c \in Context
      BY <1>2
    <3>2. G \in Seq(File)
      BY <1>7
    <3> QED
      BY <3>1, <3>2, TableSet
  <2> QED
    BY <2>1, <2>2, <2>3
<1>10. Names(c, r.ctx, i, to)
  BY <1>2, <1>5, <1>7, <1>9 DEF Names, Others
<1>11. r.ok
  BY <1>1 DEF Done
<1> QED
  BY <1>10, <1>11

\* What vfs_rename_file does.
Renames(c, r, from, to) ==
    \/ r = Failed(c)
    \/ /\ r.ok /\ vfs_find_file(c, to) = {}
       /\ \E i \in vfs_find_file(c, from) : Names(c, r.ctx, i, to)
    \/ /\ r.ok /\ vfs_find_file(c, to) # {}
       /\ \E d : /\ Deletes(c, d, to)
                 /\ \E i \in vfs_find_file(d.ctx, from) : Names(d.ctx, r.ctx, i, to)

LEMMA RenameIs ==
    ASSUME NEW c, Sound(c), NEW from, NEW to \in Name, NEW r \in vfs_rename_file(c, from, to)
    PROVE  Renames(c, r, from, to)
<1>1. CASE r = Failed(c)
  BY <1>1 DEF Renames
<1>2. CASE vfs_find_file(c, to) = {} /\ r \in Renamed(c, from, to)
  <2>1. r.ok /\ \E i \in vfs_find_file(c, from) : Names(c, r.ctx, i, to)
    BY <1>2, RenamedIs
  <2> QED
    BY <1>2, <2>1 DEF Renames
<1>3. ASSUME NEW d \in vfs_delete_file(c, to), vfs_find_file(c, to) # {},
             r \in Renamed(d.ctx, from, to)
      PROVE  Renames(c, r, from, to)
  <2>1. Deletes(c, d, to)
    BY DeleteIs
  <2>2. Sound(d.ctx)
    BY <2>1, DeletePreserves DEF Preserves
  <2>3. r.ok /\ \E i \in vfs_find_file(d.ctx, from) : Names(d.ctx, r.ctx, i, to)
    BY <1>3, <2>2, RenamedIs
  <2> QED
    BY <1>3, <2>1, <2>3 DEF Renames
<1> QED
  BY <1>1, <1>2, <1>3 DEF vfs_rename_file

LEMMA RenamePreserves ==
    ASSUME NEW c, Sound(c), NEW r, NEW from, NEW to, Renames(c, r, from, to)
    PROVE  Preserves(c, r.ctx)
<1>1. CASE r = Failed(c)
  BY <1>1, StaysPreserves DEF Failed
<1>2. ASSUME vfs_find_file(c, to) = {}, NEW i, Names(c, r.ctx, i, to)
      PROVE  Preserves(c, r.ctx)
  <2>1. \A j \in 1..Len(c.files) : c.files[j].name # to
    BY <1>2, SoundIs, FoundIs
  <2> QED
    BY <1>2, <2>1, NamesPreserves DEF Preserves
<1>3. ASSUME NEW d, Deletes(c, d, to), vfs_find_file(c, to) # {}, NEW i, Names(d.ctx, r.ctx, i, to)
      PROVE  Preserves(c, r.ctx)
  <2>1. Preserves(c, d.ctx) /\ (Apart(c) => Apart(d.ctx))
    BY <1>3, DeletePreserves
  <2>2. Sound(d.ctx)
    BY <2>1 DEF Preserves
  <2>3. /\ Sound(r.ctx) /\ (FreeZero(d.ctx) => FreeZero(r.ctx)) /\ (Apart(d.ctx) => Apart(r.ctx))
        /\ Unique(d.ctx) /\ (\A j \in 1..Len(d.ctx.files) : d.ctx.files[j].name # to)
           => Unique(r.ctx)
    BY <1>3, <2>2, NamesPreserves
  <2>4. ASSUME ~IOErrors, Unique(c)
        PROVE  \A j \in 1..Len(d.ctx.files) : d.ctx.files[j].name # to
    <3>1. PICK k \in vfs_find_file(c, to) : Drops(c, d.ctx, k)
      BY <1>3, <2>4 DEF Deletes
    <3>2. c.files[k].name = to
      BY SoundIs, FoundIs
    <3> QED
      BY <2>4, <3>1, <3>2, DropsFrees
  <2> QED
    BY <2>1, <2>3, <2>4 DEF Preserves
<1> QED
  BY <1>1, <1>2, <1>3 DEF Renames

------------------------------------------------------------------------------
(* Growing and shrinking *)

\* What Resized does to the table.
Entry(c, q, i, o, size) ==
    /\ Others(c, q, i) /\ q.files[i] \in File /\ q.files[i].name = c.files[i].name
    /\ q.files[i].offset = o /\ q.files[i].size = size
    /\ q.files[i].sectors = SectorsFor(size)
    /\ q.used_sectors = c.used_sectors + SectorsFor(size) - c.files[i].sectors
    /\ q.area = c.area /\ q.disk = c.disk

LEMMA ResizedIs ==
    ASSUME NEW c \in Context, NEW i \in 1..Len(c.files), NEW o \in Nat, NEW size \in Nat
    PROVE  Entry(c, Resized(c, i, o, size), i, o, size)
<1>1. c.files \in Seq(File) /\ c.used_sectors \in Int
  BY ContextIs
<1>2. c.files[i] \in File /\ c.files[i].name \in Name /\ c.files[i].sectors \in Nat
  <2>1. c.files[i] \in File
    BY <1>1, ElementOfSeq
  <2> QED
    BY <2>1, EndIs
<1>3. PICK m \in Nat : m = SectorsFor(size)
  BY SectorsForIs
<1>4. PICK f : f = [name |-> c.files[i].name, offset |-> o, size |-> size, sectors |-> m]
  OBVIOUS
<1>5. /\ f \in File /\ f.name = c.files[i].name /\ f.offset = o /\ f.size = size /\ f.sectors = m
  BY <1>2, <1>4 DEF File
<1>6. PICK G : G = [c.files EXCEPT ![i] = f]
  OBVIOUS
<1>7. /\ G \in Seq(File) /\ Len(G) = Len(c.files) /\ G[i] = f
      /\ \A j \in 1..Len(c.files) : j # i => G[j] = c.files[j]
  BY <1>1, <1>5, <1>6, ExceptSeq
<1>8. PICK u \in Int : u = c.used_sectors + m - c.files[i].sectors
  BY <1>1, <1>2
<1>9. PICK q : q = Resized(c, i, o, size)
  OBVIOUS
<1>10. q = WithTable(c, G, u)
  <2>1. q = [c EXCEPT !.files = G, !.used_sectors = u]
    BY <1>3, <1>4, <1>6, <1>8, <1>9 DEF Resized
  <2> QED
    BY <2>1 DEF WithTable
<1>11. q \in Context /\ q.files = G /\ q.used_sectors = u /\ q.area = c.area /\ q.disk = c.disk
  <2>1. G \in Seq(File)
    BY <1>7
  <2>2. /\ WithTable(c, G, u) \in Context /\ WithTable(c, G, u).files = G
        /\ WithTable(c, G, u).used_sectors = u /\ WithTable(c, G, u).area = c.area
        /\ WithTable(c, G, u).disk = c.disk
    BY <2>1, TableSet
  <2> QED
    BY <1>10, <2>2
<1>12. Entry(c, q, i, o, size)
  BY <1>3, <1>5, <1>7, <1>8, <1>11 DEF Entry, Others
<1> QED
  BY <1>9, <1>12

\* The parts of a change of size: p comes before Resized, q after it.
LEMMA SizesIs ==
    ASSUME NEW c, Sound(c), NEW i \in 1..Len(c.files), NEW o \in Nat, NEW size \in Nat,
           NEW p, Keeps(c, p), NEW q, Keeps(Resized(p, i, o, size), q),
           Sits(c, i, o, size), Base <= o, o + SectorsFor(size) * SectorCells <= DataEnd,
           c.used_sectors + SectorsFor(size) - c.files[i].sectors <= total_sectors,
           ~IOErrors => \A x \in Cell \ (o..o + size - 1) :
                           q.area[x] = IF x \in Bytes(c.files[i]) THEN Zero ELSE c.area[x]
    PROVE  Sizes(c, q, i, o, size)
<1>1. PICK z : z = Resized(p, i, o, size)
  OBVIOUS
<1>2. p \in Context /\ p.files = c.files /\ p.used_sectors = c.used_sectors
  BY DEF Keeps
<1>3. i \in 1..Len(p.files)
  BY <1>2
<1>4. Entry(p, z, i, o, size)
  BY <1>1, <1>2, <1>3, ResizedIs
<1>5. q \in Context /\ q.files = z.files /\ q.used_sectors = z.used_sectors
  BY <1>1 DEF Keeps
<1>6. /\ Len(z.files) = Len(p.files) /\ \A j \in 1..Len(p.files) : j # i => z.files[j] = p.files[j]
      /\ z.files[i] \in File /\ z.files[i].name = p.files[i].name
      /\ z.files[i].offset = o /\ z.files[i].size = size
      /\ z.files[i].sectors = SectorsFor(size)
      /\ z.used_sectors = p.used_sectors + SectorsFor(size) - p.files[i].sectors
  BY <1>4 DEF Entry, Others
<1>7. Others(c, q, i)
  BY <1>2, <1>5, <1>6 DEF Others
<1>8. Placed(q.files[i])
  <2>1. End(q.files[i]) = o + SectorsFor(size) * SectorCells
    BY <1>5, <1>6 DEF End
  <2>2. o >= Base
    BY SizesAre
  <2> QED
    BY <1>5, <1>6, <2>1, <2>2 DEF Placed
<1> QED
  BY <1>2, <1>5, <1>6, <1>7, <1>8 DEF Sizes

LEMMA Intervals ==
    ASSUME NEW a \in Int, NEW b \in Int, NEW x \in Int, NEW y \in Int,
           b <= x \/ y <= a \/ y <= x
    PROVE  (a..b - 1) \cap (x..y - 1) = {}
OBVIOUS

\* A larger file has as many sectors.
LEMMA SectorsForGrows ==
    ASSUME NEW m \in Nat, NEW n \in Nat, m <= n
    PROVE  SectorsFor(m) <= SectorsFor(n)
<1>1. PICK C \in Nat \ {0} : C = SectorCells
  BY SizesAre
<1>2. PICK x \in Nat, y \in Nat : x = m + C - 1 /\ y = n + C - 1 /\ x <= y
  OBVIOUS
<1>3. PICK a \in Nat, b \in Nat : a = x \div C /\ b = y \div C
  BY Quotient
<1>4. a * C <= x /\ y < b * C + C
  BY <1>3, Quotient
<1>5. ASSUME b + 1 <= a
      PROVE  FALSE
  <2>1. PICK k \in Nat : k = b + 1
    OBVIOUS
  <2>2. k * C <= a * C
    BY <1>5, <2>1, Products
  <2>3. k * C = b * C + C
    BY <2>1
  <2>4. PICK u \in Nat, v \in Nat : u = a * C /\ v = b * C
    BY Products
  <2>5. v + C <= u /\ u <= x /\ y < v + C
    BY <1>4, <2>2, <2>3, <2>4
  <2> QED
    BY <1>2, <2>5
<1>6. SectorsFor(m) = a /\ SectorsFor(n) = b
  BY <1>1, <1>2, <1>3 DEF SectorsFor
<1> QED
  BY <1>5, <1>6

LEMMA BytesIn ==
    ASSUME NEW c, Sound(c), NEW i \in 1..Len(c.files)
    PROVE  /\ Bytes(c.files[i]) \subseteq Extent(c.files[i])
           /\ Extent(c.files[i]) \subseteq Cell
<1>1. PICK o \in Nat, m \in Nat, y \in Nat, e \in Nat, d \in Nat :
         /\ o = c.files[i].offset /\ m = c.files[i].size /\ y = c.files[i].sectors * SectorCells
         /\ m <= y /\ e = End(c.files[i]) /\ e = o + y /\ d = DataEnd /\ e <= d
  <2>1. /\ c.files[i].offset \in Nat /\ c.files[i].size \in Nat /\ c.files[i].sectors \in Nat
        /\ c.files[i].size <= c.files[i].sectors * SectorCells
        /\ End(c.files[i]) = c.files[i].offset + c.files[i].sectors * SectorCells
        /\ End(c.files[i]) \in Nat /\ End(c.files[i]) <= DataEnd
    BY PlacedIs
  <2>2. c.files[i].sectors * SectorCells \in Nat /\ DataEnd \in Nat
    <3>1. PICK k \in Nat, C \in Nat : k = c.files[i].sectors /\ C = SectorCells
      BY <2>1, SizesAre
    <3>2. k * C \in Nat
      BY Products
    <3> QED
      BY <3>1, <3>2, SizesAre
  <2> QED
    BY <2>1, <2>2
<1>2. /\ Bytes(c.files[i]) = o..o + m - 1 /\ Extent(c.files[i]) = o..e - 1
      /\ Cell = 0..d - 1
  BY <1>1 DEF Bytes, Extent, Cell
<1>3. ASSUME NEW x \in o..o + m - 1
      PROVE  x \in o..e - 1
  <2>1. m <= y /\ e = o + y
    BY <1>1
  <2>2. o <= x /\ x <= o + m - 1 /\ x \in Int
    BY <1>3
  <2>3. x <= e - 1
    BY <2>1, <2>2
  <2> QED
    BY <2>2, <2>3
<1>4. ASSUME NEW x \in o..e - 1
      PROVE  x \in 0..d - 1
  <2>1. e <= d
    BY <1>1
  <2> QED
    BY <1>4, <2>1
<1> QED
  BY <1>2, <1>3, <1>4

\* The tail of a last sector.
LEMMA TailIsZero ==
    ASSUME NEW c, Sound(c), FreeZero(c), Apart(c), NEW i \in 1..Len(c.files),
           NEW x \in Extent(c.files[i]), x \notin Bytes(c.files[i])
    PROVE  c.area[x] = Zero
<1>1. x \in Cell
  BY BytesIn
<1>2. ~InFile(c, x)
  <2>1. ASSUME NEW j \in 1..Len(c.files), x \in Bytes(c.files[j])
        PROVE  FALSE
    <3>1. j # i
      BY <2>1
    <3>2. x \in Extent(c.files[j])
      BY <2>1, BytesIn
    <3> QED
      BY <3>1, <3>2 DEF Apart
  <2> QED
    BY <2>1 DEF InFile
<1> QED
  BY <1>1, <1>2 DEF FreeZero

LEMMA WithinIs ==
    ASSUME NEW c, Sound(c), NEW i \in 1..Len(c.files), NEW size \in Nat,
           SectorsFor(size) <= c.files[i].sectors, NEW r \in WithinSectors(c, i, size)
    PROVE  /\ r.ok /\ Sizes(c, r.ctx, i, c.files[i].offset, size)
           /\ Carries(c, r.ctx, i, c.files[i].offset, size)
<1>1. PICK o \in Nat, m \in Nat, k \in Nat :
            /\ o = c.files[i].offset /\ m = c.files[i].size /\ k = c.files[i].sectors
            /\ End(c.files[i]) = o + k * SectorCells /\ End(c.files[i]) <= DataEnd /\ Base <= o
  BY PlacedIs
<1>2. c \in Context
  BY DEF Sound
<1>3. PICK p : /\ r = Done(Resized(p, i, o, size))
               /\ IF size < m THEN p \in zero_chunks(c, o + size, m - size) ELSE p = c
  BY <1>1 DEF WithinSectors
<1>4. /\ Keeps(c, p)
      /\ ~IOErrors => p.area = IF size < m THEN Zeroed(c.area, o + size, m - size) ELSE c.area
  <2>1. CASE size < m
    <3>1. o + size \in Nat /\ m - size \in Nat
      BY <2>1
    <3> QED
      BY <1>2, <1>3, <2>1, <3>1, ZeroIs
  <2>2. CASE ~(size < m)
    BY <1>2, <1>3, <2>2 DEF Keeps
  <2> QED
    BY <2>1, <2>2
<1>5. PICK q : q = Resized(p, i, o, size)
  OBVIOUS
<1>6. Entry(p, q, i, o, size)
  <2>1. p \in Context /\ i \in 1..Len(p.files)
    BY <1>4 DEF Keeps
  <2> QED
    BY <1>5, <2>1, ResizedIs
<1>7. q.area = p.area /\ Keeps(Resized(p, i, o, size), q)
  BY <1>5, <1>6 DEF Entry, Others, Keeps
<1>8. PICK n \in Nat, x \in Nat, y \in Nat : /\ n = SectorsFor(size) /\ n <= k
                                             /\ x = n * SectorCells /\ y = k * SectorCells
                                             /\ x <= y
  <2>1. SectorsFor(size) \in Nat
    BY SectorsForIs
  <2>2. SectorsFor(size) * SectorCells \in Nat /\ k * SectorCells \in Nat
        /\ SectorsFor(size) * SectorCells <= k * SectorCells
    BY <1>1, <2>1, SizesAre, Products
  <2> QED
    BY <1>1, <2>1, <2>2
<1>9. Sits(c, i, o, size)
  <2>1. o..o + x - 1 \subseteq Extent(c.files[i])
    <3>1. Extent(c.files[i]) = o..(o + y) - 1
      BY <1>1, <1>8 DEF Extent
    <3> QED
      BY <1>8, <3>1
  <2>2. ASSUME Apart(c), NEW j \in 1..Len(c.files), j # i
        PROVE  (o..o + x - 1) \cap Extent(c.files[j]) = {}
    <3>1. Extent(c.files[i]) \cap Extent(c.files[j]) = {}
      BY <2>2 DEF Apart
    <3> QED
      BY <2>1, <3>1
  <2> QED
    BY <1>8, <2>2 DEF Sits
<1>10. c.used_sectors + SectorsFor(size) - c.files[i].sectors <= total_sectors
  <2>1. PICK u \in Int : u = c.used_sectors /\ u <= total_sectors
    <3>1. c.used_sectors \in Int
      BY <1>2, ContextIs
    <3> QED
      BY <3>1 DEF Sound
  <2>2. PICK t \in Nat : t = total_sectors
    BY SizesAre
  <2>3. u + n - k <= t
    BY <1>8, <2>1, <2>2
  <2> QED
    BY <1>1, <1>8, <2>1, <2>2, <2>3
<1>11. o + SectorsFor(size) * SectorCells <= DataEnd
  <2>1. PICK t \in Nat : t = DataEnd
    BY SizesAre
  <2>2. o + y <= t
    BY <1>1, <1>8, <2>1
  <2>3. o + x <= t
    BY <1>8, <2>2
  <2> QED
    BY <1>8, <2>1, <2>3
<1>12. ASSUME ~IOErrors, NEW x1 \in Cell, x1 \notin o..o + size - 1
       PROVE  q.area[x1] = IF x1 \in Bytes(c.files[i]) THEN Zero ELSE c.area[x1]
  <2>1. Bytes(c.files[i]) = o..o + m - 1
    BY <1>1 DEF Bytes
  <2>2. x1 \in Int
    BY SizesAre DEF Cell
  <2>3. CASE size < m
    <3>1. x1 \in o..o + m - 1 <=> x1 \in (o + size)..((o + size) + (m - size) - 1)
      BY <1>12, <2>2, <2>3
    <3> QED
      BY <1>4, <1>7, <1>12, <2>1, <2>3, <3>1 DEF Zeroed
  <2>4. CASE ~(size < m)
    <3>1. x1 \notin o..o + m - 1
      BY <1>12, <2>2, <2>4
    <3> QED
      BY <1>4, <1>7, <1>12, <2>1, <2>4, <3>1
  <2> QED
    BY <2>3, <2>4
<1>13. Sizes(c, q, i, o, size)
  BY <1>1, <1>4, <1>7, <1>9, <1>10, <1>11, <1>12, SizesIs
<1>14. PICK d \in Nat : d = DataEnd /\ o + x <= d /\ o + y <= d
  BY <1>1, <1>8, <1>11, SizesAre
<1>15. ASSUME ~IOErrors, NEW n1 \in Nat, n1 <= m, n1 <= size, NEW l \in 1..n1
       PROVE  q.area[o + l - 1] = c.area[o + l - 1]
  <2>1. PICK z \in Nat : z = o + l - 1
    OBVIOUS
  <2>2. z < d
    <3>1. m <= y
      BY <1>1, <1>8, PlacedIs
    <3> QED
      BY <1>14, <1>15, <2>1, <3>1
  <2>3. z \in Cell
    BY <1>14, <2>2 DEF Cell
  <2>4. CASE size < m
    <3>1. z \notin (o + size)..((o + size) + (m - size) - 1)
      BY <1>15, <2>1
    <3> QED
      BY <1>4, <1>7, <1>15, <2>1, <2>3, <2>4, <3>1 DEF Zeroed
  <2>5. CASE ~(size < m)
    BY <1>4, <1>7, <1>15, <2>5
  <2> QED
    BY <2>4, <2>5
<1>16. ASSUME ~IOErrors, FreeZero(c), Apart(c), NEW l \in 1..size, l > m
       PROVE  q.area[o + l - 1] = Zero
  <2>1. PICK z \in Nat : z = o + l - 1
    OBVIOUS
  <2>2. size <= x
    BY <1>8, SectorsForIs
  <2>3. z \in o..(o + y) - 1 /\ z \notin o..o + m - 1
    <3>1. l <= y
      BY <1>8, <2>2
    <3>2. o <= z /\ z <= (o + y) - 1
      BY <2>1, <3>1, <1>8
    <3>3. ~(z <= o + m - 1)
      BY <1>8, <1>16, <2>1
    <3> QED
      BY <3>2, <3>3
  <2>4. z \in Extent(c.files[i]) /\ z \notin Bytes(c.files[i])
    BY <1>1, <1>8, <2>3 DEF Extent, Bytes
  <2>5. c.area[z] = Zero
    BY <1>16, <2>4, TailIsZero
  <2>6. ~(size < m)
    BY <1>16
  <2> QED
    BY <1>4, <1>7, <1>16, <2>1, <2>5, <2>6
<1>17. Carries(c, q, i, o, size)
  BY <1>1, <1>15, <1>16 DEF Carries, Copied
<1> QED
  BY <1>1, <1>3, <1>5, <1>13, <1>17 DEF Done

LEMMA ExpandIs ==
    ASSUME NEW c, Sound(c), NEW i \in 1..Len(c.files), NEW size \in Nat,
           c.files[i].sectors < SectorsFor(size),
           c.used_sectors + SectorsFor(size) - c.files[i].sectors <= total_sectors,
           (SectorsFor(size) - c.files[i].sectors) * SectorCells
             <= NextOffset(c, i) - End(c.files[i]),
           NEW r \in ExpandedInPlace(c, i, size)
    PROVE  /\ r.ok /\ Sizes(c, r.ctx, i, c.files[i].offset, size)
           /\ Carries(c, r.ctx, i, c.files[i].offset, size)
<1>1. PICK o \in Nat, m \in Nat, k \in Nat, e \in Nat :
            /\ o = c.files[i].offset /\ m = c.files[i].size /\ k = c.files[i].sectors
            /\ e = End(c.files[i]) /\ e = o + k * SectorCells
            /\ o <= e /\ Base <= o /\ k = SectorsFor(m)
            /\ m <= k * SectorCells
  BY PlacedIs
<1>2. c \in Context
  BY DEF Sound
<1>3. PICK n \in Nat, x \in Nat, y \in Nat :
            /\ n = SectorsFor(size) /\ k < n /\ x = n * SectorCells /\ y = k * SectorCells
            /\ (n - k) * SectorCells = x - y
  <2>1. SectorsFor(size) \in Nat
    BY SectorsForIs
  <2>2. /\ SectorsFor(size) * SectorCells \in Nat /\ k * SectorCells \in Nat
        /\ (SectorsFor(size) - k) * SectorCells = SectorsFor(size) * SectorCells - k * SectorCells
    BY <2>1, SizesAre, Products
  <2> QED
    BY <1>1, <2>1, <2>2
<1>4. PICK N \in Nat : /\ N = NextOffset(c, i) /\ N <= DataEnd
                       /\ \A j \in 1..Len(c.files) :
                             j # i /\ c.files[j].offset >= e => N <= c.files[j].offset
  BY <1>1, NextIs
<1>5. o + x <= N /\ o + x <= DataEnd
  <2>1. x - y <= N - e /\ e = o + y
    BY <1>1, <1>3, <1>4
  <2>2. o + x <= N
    BY <2>1
  <2> QED
    BY <1>4, <2>2, SizesAre
<1>6. m < size
  <2>1. ASSUME size <= m
        PROVE  FALSE
    <3>1. n <= k
      BY <1>1, <1>3, <2>1, SectorsForGrows
    <3> QED
      BY <1>3, <3>1
  <2> QED
    BY <2>1
<1>7. PICK q : r = Done(q) /\ q \in zero_chunks(Resized(c, i, o, size), o + m, size - m)
  BY <1>1 DEF ExpandedInPlace
<1>8. PICK z : z = Resized(c, i, o, size)
  OBVIOUS
<1>9. z \in Context /\ z.area = c.area
  BY <1>2, <1>8, ResizedIs DEF Entry, Others
<1>10. Keeps(z, q) /\ (~IOErrors => q.area = Zeroed(c.area, o + m, size - m))
  <2>1. o + m \in Nat /\ size - m \in Nat
    BY <1>6
  <2> QED
    BY <1>7, <1>8, <1>9, <2>1, ZeroIs
<1>11. Sits(c, i, o, size)
  <2>1. ASSUME Apart(c), NEW j \in 1..Len(c.files), j # i,
               ~(k = 0 /\ m < size /\ o \in Extent(c.files[j]))
        PROVE  (o..o + x - 1) \cap Extent(c.files[j]) = {}
    <3>1. PICK a \in Nat, b \in Nat : a = c.files[j].offset /\ b = End(c.files[j]) /\ a <= b
      BY PlacedIs
    <3>2. Extent(c.files[j]) = a..b - 1 /\ Extent(c.files[i]) = o..e - 1
      BY <1>1, <3>1 DEF Extent
    <3>3. (o..e - 1) \cap (a..b - 1) = {}
      BY <2>1, <3>2 DEF Apart
    <3>4. (o..(o + x) - 1) \cap (a..b - 1) = {}
      <4>1. CASE e <= a
        <5>1. o + x <= a
          BY <1>4, <1>5, <2>1, <3>1, <4>1
        <5> QED
          BY <5>1, Intervals
      <4>2. CASE a < e
        <5>1. CASE k = 0
          <6>1. e = o
            BY <1>1, <5>1, SizesAre
          <6>2. ~(o \in a..b - 1)
            BY <1>6, <2>1, <3>2, <5>1
          <6>3. b <= o
            BY <4>2, <6>1, <6>2
          <6> QED
            BY <6>3, Intervals
        <5>2. CASE k # 0
          <6>1. o < e
            <7>1. PICK C \in Nat \ {0} : C = SectorCells
              BY SizesAre
            <7>2. k * C # 0
              BY <5>2
            <7>3. y # 0 /\ e = o + y
              BY <1>1, <1>3, <7>1, <7>2
            <7> QED
              BY <7>3
          <6>2. ~(a \in o..e - 1 /\ a \in a..b - 1) /\ ~(o \in o..e - 1 /\ o \in a..b - 1)
            BY <3>3
          <6>3. b <= a \/ b <= o
            <7>1. o <= a => b <= a
              BY <4>2, <6>2
            <7>2. a < o => b <= o
              BY <6>1, <6>2
            <7> QED
              BY <7>1, <7>2
          <6> QED
            BY <6>3, Intervals
        <5> QED
          BY <5>1, <5>2
      <4>3. e <= a \/ a < e
        OBVIOUS
      <4> QED
        BY <4>1, <4>2, <4>3
    <3>5. (o + x) - 1 = o + x - 1
      OBVIOUS
    <3> QED
      BY <3>2, <3>4, <3>5
  <2>2. /\ k = c.files[i].sectors /\ m = c.files[i].size /\ o = c.files[i].offset
        /\ x = SectorsFor(size) * SectorCells
    BY <1>1, <1>3
  <2> QED
    BY <2>1, <2>2 DEF Sits
<1>12. ASSUME ~IOErrors, NEW x1 \in Cell, x1 \notin o..o + size - 1
       PROVE  q.area[x1] = IF x1 \in Bytes(c.files[i]) THEN Zero ELSE c.area[x1]
  <2>1. Bytes(c.files[i]) = o..o + m - 1
    BY <1>1 DEF Bytes
  <2>2. x1 \in Int
    BY SizesAre DEF Cell
  <2>3. x1 \notin o..o + m - 1 /\ x1 \notin (o + m)..((o + m) + (size - m) - 1)
    BY <1>6, <1>12, <2>2
  <2> QED
    BY <1>10, <1>12, <2>1, <2>3 DEF Zeroed
<1>13. Keeps(c, c)
  BY <1>2 DEF Keeps
<1>14. o + SectorsFor(size) * SectorCells <= DataEnd
  BY <1>3, <1>5
<1>15. Keeps(Resized(c, i, o, size), q)
  BY <1>8, <1>10
<1>16. Sizes(c, q, i, o, size)
  BY <1>1, <1>11, <1>12, <1>13, <1>14, <1>15, SizesIs
<1>17. size <= x
  BY <1>3, SectorsForIs
<1>18. ASSUME ~IOErrors, NEW l \in 1..size
       PROVE  q.area[o + l - 1] = IF l <= m THEN c.area[o + l - 1] ELSE Zero
  <2>1. PICK v \in Nat, d \in Nat : v = o + l - 1 /\ d = DataEnd
    BY SizesAre
  <2>2. v < d
    BY <1>5, <1>17, <1>18, <2>1
  <2>3. v \in Cell
    BY <2>1, <2>2 DEF Cell
  <2>4. v \in (o + m)..((o + m) + (size - m) - 1) <=> ~(l <= m)
    BY <1>6, <1>18, <2>1
  <2> QED
    BY <1>10, <1>18, <2>1, <2>3, <2>4 DEF Zeroed
<1>19. Carries(c, q, i, o, size)
  <2>1. ASSUME ~IOErrors, NEW n1 \in Nat, n1 <= m, n1 <= size, NEW l \in 1..n1
        PROVE  q.area[o + l - 1] = c.area[o + l - 1]
    <3>1. l \in 1..size /\ l <= m
      BY <2>1
    <3> QED
      BY <1>18, <2>1, <3>1
  <2>2. ASSUME ~IOErrors, NEW l \in 1..size, l > m
        PROVE  q.area[o + l - 1] = Zero
    <3>1. ~(l <= m)
      BY <2>2
    <3> QED
      BY <1>18, <2>2, <3>1
  <2> QED
    BY <1>1, <2>1, <2>2 DEF Carries, Copied
<1> QED
  BY <1>1, <1>7, <1>16, <1>19 DEF Done

\* A place in a gap that Relocated sees touches no other entry, or the file was empty.
LEMMA GapSits ==
    ASSUME NEW c, Sound(c), NEW i \in 1..Len(c.files), NEW size \in Nat, c.files[i].size < size,
           NEW g \in BestFit(Occupied(c, i), SectorsFor(size) * SectorCells)
    PROVE  /\ g.start \in Nat /\ Base <= g.start
           /\ g.start + SectorsFor(size) * SectorCells <= DataEnd
           /\ Sits(c, i, g.start, size)
<1>1. PICK x \in Nat : x = SectorsFor(size) * SectorCells
  BY SectorsForIs
<1>2. PICK F : F = Occupied(c, i)
  OBVIOUS
<1>3. Within(F) /\ \A j \in 1..Len(c.files) : c.files[j] \in F
                                             \/ c.files[j].offset = c.files[i].offset
  BY <1>2, OccupiedIs
<1>4. PICK s \in Nat, t \in Nat : /\ s = g.start /\ t = g.end
                                  /\ Base <= s /\ s + x <= t /\ t <= DataEnd
                                  /\ \A f \in F : End(f) <= s \/ t <= f.offset
  <2>1. g \in BestFit(F, x)
    BY <1>1, <1>2
  <2>2. /\ g.start \in Nat /\ g.end \in Nat
        /\ Base <= g.start /\ g.start + x <= g.end /\ g.end <= DataEnd
        /\ \A f \in F : End(f) <= g.start \/ g.end <= f.offset
    BY <1>3, <2>1, FitIs
  <2> QED
    BY <2>2
<1>5. s + x <= DataEnd
  BY <1>4, SizesAre
<1>6. PICK o \in Nat, e \in Nat, k \in Nat :
         /\ o = c.files[i].offset /\ e = End(c.files[i]) /\ k = c.files[i].sectors
         /\ e = o + k * SectorCells
  BY PlacedIs
<1>7. ASSUME Apart(c), NEW j \in 1..Len(c.files), j # i, ~(k = 0 /\ o \in Extent(c.files[j]))
      PROVE  (s..s + x - 1) \cap Extent(c.files[j]) = {}
  <2>1. PICK a \in Nat, b \in Nat : a = c.files[j].offset /\ b = End(c.files[j]) /\ a <= b
    BY PlacedIs
  <2>2. Extent(c.files[j]) = a..b - 1 /\ Extent(c.files[i]) = o..e - 1
    BY <1>6, <2>1 DEF Extent
  <2>3. b <= s \/ s + x <= a \/ b <= a
    <3>1. CASE c.files[j] \in F
      <4>1. b <= s \/ t <= a
        BY <1>4, <2>1, <3>1
      <4> QED
        BY <1>4, <4>1
    <3>2. CASE c.files[j].offset = c.files[i].offset
      <4>1. a = o
        BY <1>6, <2>1, <3>2
      <4>2. (o..e - 1) \cap (a..b - 1) = {}
        BY <1>7, <2>2 DEF Apart
      <4>3. CASE k = 0
        <5>1. ~(o \in a..b - 1)
          BY <1>7, <2>2, <4>3
        <5> QED
          BY <4>1, <5>1
      <4>4. CASE k # 0
        <5>1. PICK C \in Nat \ {0} : C = SectorCells
          BY SizesAre
        <5>2. k * C \in Nat /\ k * C # 0
          BY <4>4
        <5>3. PICK y \in Nat : y = k * SectorCells /\ y # 0
          BY <5>1, <5>2
        <5>4. o < e
          <6>1. e = o + y
            BY <1>6, <5>3
          <6> QED
            BY <5>3, <6>1
        <5>5. ~(o \in o..e - 1 /\ o \in a..b - 1)
          BY <4>2
        <5> QED
          BY <4>1, <5>4, <5>5
      <4> QED
        BY <4>3, <4>4
    <3> QED
      BY <1>3, <3>1, <3>2
  <2>4. (s..(s + x) - 1) \cap (a..b - 1) = {}
    <3>1. (a..b - 1) \cap (s..(s + x) - 1) = {}
      BY <2>3, Intervals
    <3> QED
      BY <3>1
  <2>5. (s + x) - 1 = s + x - 1
    OBVIOUS
  <2> QED
    BY <2>2, <2>4, <2>5
<1>8. Sits(c, i, s, size)
  BY <1>1, <1>6, <1>7 DEF Sits
<1> QED
  BY <1>1, <1>4, <1>5, <1>8

\* A file that does not grow in place is not given the place it has.
LEMMA StartsElsewhere ==
    ASSUME NEW c, Sound(c), NEW i \in 1..Len(c.files), NEW size \in Nat,
           c.files[i].sectors # 0, c.files[i].sectors < SectorsFor(size),
           ~(NextOffset(c, i) - End(c.files[i])
               >= (SectorsFor(size) - c.files[i].sectors) * SectorCells),
           NEW g \in BestFit(Occupied(c, i), SectorsFor(size) * SectorCells)
    PROVE  g.start # c.files[i].offset
<1>1. PICK o \in Nat, k \in Nat, e \in Nat, C \in Nat \ {0} :
         /\ o = c.files[i].offset /\ k = c.files[i].sectors /\ e = End(c.files[i])
         /\ e = o + k * C /\ C = SectorCells
  BY PlacedIs, SizesAre
<1>2. PICK n \in Nat, x \in Nat, y \in Nat :
         n = SectorsFor(size) /\ x = n * C /\ y = k * C /\ (n - k) * C = x - y
  <2>1. SectorsFor(size) \in Nat
    BY SectorsForIs
  <2>2. SectorsFor(size) * C \in Nat /\ k * C \in Nat
        /\ (SectorsFor(size) - k) * C = SectorsFor(size) * C - k * C
    BY <2>1, Products
  <2> QED
    BY <2>1, <2>2
<1>3. o < e
  <2>1. k # 0
    BY <1>1
  <2>2. k * C # 0
    BY <2>1
  <2>3. y # 0
    BY <1>2, <2>2
  <2>4. e = o + y
    BY <1>1, <1>2
  <2> QED
    BY <2>3, <2>4
<1>4. PICK F : F = Occupied(c, i)
  OBVIOUS
<1>5. Within(F) /\ \A j \in 1..Len(c.files) : c.files[j] \in F
                                             \/ c.files[j].offset = c.files[i].offset
  BY <1>4, OccupiedIs
<1>6. PICK s \in Nat, t \in Nat : /\ s = g.start /\ t = g.end /\ s + x <= t /\ t <= DataEnd
                                  /\ \A f \in F : End(f) <= s \/ t <= f.offset
  <2>1. g \in BestFit(F, x)
    BY <1>1, <1>2, <1>4
  <2>2. /\ g.start \in Nat /\ g.end \in Nat
        /\ g.start + x <= g.end /\ g.end <= DataEnd
        /\ \A f \in F : End(f) <= g.start \/ g.end <= f.offset
    BY <1>5, <2>1, FitIs
  <2> QED
    BY <2>2
<1>7. PICK N \in Nat : /\ N = NextOffset(c, i)
                       /\ \/ N = DataEnd
                          \/ \E j \in 1..Len(c.files) : c.files[j].offset >= e /\ N = c.files[j].offset
  BY <1>1, NextIs
<1>8. ASSUME s = o
      PROVE  t <= N
  <2>1. CASE N = DataEnd
    BY <1>6, <2>1
  <2>2. ASSUME NEW j \in 1..Len(c.files), c.files[j].offset >= e, N = c.files[j].offset
        PROVE  t <= N
    <3>1. PICK b \in Nat : b = End(c.files[j]) /\ N <= b
      BY <2>2, PlacedIs
    <3>2. N >= e
      BY <2>2
    <3>3. c.files[j] \in F
      BY <1>1, <1>3, <1>5, <2>2, <3>2
    <3>4. b <= s \/ t <= N
      BY <1>6, <2>2, <3>1, <3>3
    <3> QED
      BY <1>3, <1>8, <3>1, <3>2, <3>4
  <2> QED
    BY <1>7, <2>1, <2>2
<1>9. ASSUME s = o
      PROVE  FALSE
  <2>1. ~(N - e >= x - y)
    BY <1>1, <1>2, <1>7
  <2>2. e = o + y /\ o + x <= t /\ t <= N
    BY <1>1, <1>2, <1>6, <1>8, <1>9
  <2> QED
    BY <2>1, <2>2
<1> QED
  BY <1>1, <1>6, <1>9

LEMMA RestOfPlace ==
    ASSUME NEW o \in Nat, NEW m \in Nat, NEW size \in Nat, NEW l \in 1..size,
           NEW x \in Nat, x = o + l - 1
    PROVE  x \in (o + m)..((o + m) + (size - m) - 1) <=> ~(l <= m)
OBVIOUS

\* The end of a relocation: the entry is updated and the rest of its place zeroed.
LEMMA FinishIs ==
    ASSUME NEW c, Sound(c), NEW i \in 1..Len(c.files), NEW o \in Nat, NEW size \in Nat,
           c.files[i].size < size, Sits(c, i, o, size), Base <= o,
           o + SectorsFor(size) * SectorCells <= DataEnd,
           c.used_sectors + SectorsFor(size) - c.files[i].sectors <= total_sectors,
           NEW p, Keeps(c, p),
           ~IOErrors => \A x \in Cell \ (o..o + size - 1) :
                           p.area[x] = IF x \in Bytes(c.files[i]) THEN Zero ELSE c.area[x],
           ~IOErrors => Copied(c, p, i, o, c.files[i].size),
           NEW q \in zero_chunks(Resized(p, i, o, size), o + c.files[i].size,
                                 size - c.files[i].size)
    PROVE  Sizes(c, q, i, o, size) /\ Carries(c, q, i, o, size)
<1>1. PICK m \in Nat : m = c.files[i].size
  BY PlacedIs
<1>2. PICK z : z = Resized(p, i, o, size)
  OBVIOUS
<1>3. z \in Context /\ z.area = p.area /\ z.disk = p.disk
  <2>1. p \in Context /\ i \in 1..Len(p.files)
    BY DEF Keeps
  <2> QED
    BY <1>2, <2>1, ResizedIs DEF Entry, Others
<1>4. /\ Keeps(z, q) /\ q.disk = p.disk
      /\ ~IOErrors => q.area = Zeroed(p.area, o + m, size - m)
  <2>1. o + m \in Nat /\ size - m \in Nat
    BY <1>1
  <2>2. q \in zero_chunks(z, o + m, size - m)
    BY <1>1, <1>2
  <2> QED
    <3>1. PICK a \in Nat, l \in Nat : a = o + m /\ l = size - m
      BY <2>1
    <3>2. q \in zero_chunks(z, a, l)
      BY <2>2, <3>1
    <3>3. z \in Context
      BY <1>3
    <3>4. Keeps(z, q) /\ q.disk = z.disk /\ (~IOErrors => q.area = Zeroed(z.area, a, l))
      BY <3>2, <3>3, ZeroIs
    <3> QED
      BY <1>3, <3>1, <3>4
<1>5. ASSUME ~IOErrors, NEW x \in Cell, x \notin o..o + size - 1
      PROVE  q.area[x] = IF x \in Bytes(c.files[i]) THEN Zero ELSE c.area[x]
  <2>1. x \in Int
    BY SizesAre DEF Cell
  <2>2. x \notin (o + m)..((o + m) + (size - m) - 1)
    <3>1. o <= x => x > o + size - 1
      BY <1>5, <2>1
    <3>2. m \in Nat
      BY <1>1
    <3>3. ASSUME o + m <= x
          PROVE  ~(x <= (o + m) + (size - m) - 1)
      BY <2>1, <3>1, <3>2, <3>3
    <3> QED
      BY <2>1, <3>3
  <2>3. q.area[x] = p.area[x]
    BY <1>4, <1>5, <2>2 DEF Zeroed
  <2> QED
    BY <1>5, <2>3
<1>6. Keeps(Resized(p, i, o, size), q)
  BY <1>2, <1>4
<1>7. PICK y \in Nat, d \in Nat : y = SectorsFor(size) * SectorCells /\ size <= y
                                /\ d = DataEnd /\ o + y <= d
  <2>1. SectorsFor(size) * SectorCells \in Nat /\ size <= SectorsFor(size) * SectorCells
    BY SectorsForIs
  <2> QED
    BY <2>1, SizesAre
<1>8. ASSUME ~IOErrors, NEW l \in 1..size
      PROVE  q.area[o + l - 1] = IF l <= m THEN p.area[o + l - 1] ELSE Zero
  <2>1. PICK x \in Nat : x = o + l - 1
    OBVIOUS
  <2>2. x < d
    BY <1>7, <1>8, <2>1
  <2>3. x \in Cell
    BY <1>7, <2>2 DEF Cell
  <2>4. x \in (o + m)..((o + m) + (size - m) - 1) <=> ~(l <= m)
    BY <1>1, <1>8, <2>1, RestOfPlace, SMTT(30)
  <2> QED
    BY <1>4, <1>8, <2>1, <2>3, <2>4 DEF Zeroed
<1>9. ASSUME ~IOErrors, NEW n \in Nat, n <= m, n <= size
      PROVE  Copied(c, q, i, o, n)
  <2>1. Copied(c, p, i, o, m)
    BY <1>1, <1>9
  <2>2. \A l \in 1..n : l \in 1..m /\ q.area[o + l - 1] = p.area[o + l - 1]
    <3>1. \A l \in 1..n : l \in 1..size /\ l <= m /\ l \in 1..m
      BY <1>9
    <3> QED
      BY <1>8, <1>9, <3>1
  <2> QED
    BY <1>4, <2>1, <2>2 DEF Copied
<1>10. ASSUME ~IOErrors, NEW l \in 1..size, l > m
       PROVE  q.area[o + l - 1] = Zero
  <2>1. ~(l <= m)
    BY <1>10
  <2> QED
    BY <1>8, <1>10, <2>1
<1>11. Carries(c, q, i, o, size)
  BY <1>1, <1>9, <1>10 DEF Carries
<1>12. Sizes(c, q, i, o, size)
  BY <1>5, <1>6, SizesIs
<1> QED
  BY <1>11, <1>12

LEMMA ReadType ==
    ASSUME NEW c \in Context, NEW o \in Nat, NEW n \in Nat, o + n <= DataEnd
    PROVE  /\ vfs_read_data(c, o, n) \in Seq(Content) /\ Len(vfs_read_data(c, o, n)) = n
           /\ \A k \in 1..n : vfs_read_data(c, o, n)[k] = c.area[o + k - 1]
<1>1. c.area \in [Cell -> Content]
  BY ContextIs
<1>2. ASSUME NEW k \in 1..n
      PROVE  c.area[o + k - 1] \in Content
  <2>1. o + k - 1 \in Cell
    BY SizesAre DEF Cell
  <2> QED
    BY <1>1, <2>1
<1>3. vfs_read_data(c, o, n) \in [1..n -> Content]
  BY <1>2 DEF vfs_read_data
<1>4. \A k \in 1..n : vfs_read_data(c, o, n)[k] = c.area[o + k - 1]
  BY DEF vfs_read_data
<1> QED
  BY <1>3, <1>4

\* What vfs_resize_file does: the entry gets the size, or nothing of the table changes.
Resizes(c, r, n, size) ==
    \/ /\ Fills(c, r.ctx) /\ (~IOErrors => r.ctx = c)
       /\ r.ok => \E i \in vfs_find_file(c, n) : c.files[i].size = size
    \/ /\ r.ok
       /\ \E i \in vfs_find_file(c, n) : \E o \in Nat : /\ Sizes(c, r.ctx, i, o, size)
                                                       /\ Carries(c, r.ctx, i, o, size)

LEMMA MoveIs ==
    ASSUME NEW c, Sound(c), NEW n, NEW i \in vfs_find_file(c, n), NEW size \in Nat,
           c.files[i].sectors < SectorsFor(size),
           c.used_sectors + SectorsFor(size) - c.files[i].sectors <= total_sectors,
           ~(NextOffset(c, i) - End(c.files[i])
               >= (SectorsFor(size) - c.files[i].sectors) * SectorCells),
           NEW r \in Relocated(c, i, size)
    PROVE  Resizes(c, r, n, size)
<1>1. i \in 1..Len(c.files) /\ c \in Context
  BY SoundIs, FoundIs
<1>2. PICK f \in Nat, m \in Nat : /\ f = c.files[i].offset /\ m = c.files[i].size
                                  /\ c.files[i].sectors = SectorsFor(m) /\ f + m <= DataEnd
  <2>1. PICK o \in Nat, m \in Nat, y \in Nat, e \in Nat :
               /\ o = c.files[i].offset /\ m = c.files[i].size
               /\ y = c.files[i].sectors * SectorCells
               /\ e = End(c.files[i]) /\ e = o + y /\ m <= y /\ e <= DataEnd
               /\ c.files[i].sectors = SectorsFor(m)
    <3>1. /\ c.files[i].offset \in Nat /\ c.files[i].size \in Nat /\ c.files[i].sectors \in Nat
          /\ c.files[i].sectors = SectorsFor(c.files[i].size)
          /\ c.files[i].size <= c.files[i].sectors * SectorCells
          /\ End(c.files[i]) = c.files[i].offset + c.files[i].sectors * SectorCells
          /\ End(c.files[i]) \in Nat /\ End(c.files[i]) <= DataEnd
      BY <1>1, PlacedIs
    <3>2. c.files[i].sectors * SectorCells \in Nat
      BY <3>1, SizesAre
    <3> QED
      BY <3>1, <3>2
  <2>2. PICK d \in Nat : d = DataEnd
    BY SizesAre
  <2>3. o + m <= d
    BY <2>1, <2>2
  <2> QED
    BY <2>1, <2>2, <2>3
<1>3. m < size
  <2>1. ASSUME size <= m
        PROVE  FALSE
    <3>1. SectorsFor(size) <= SectorsFor(m) /\ SectorsFor(size) \in Nat /\ SectorsFor(m) \in Nat
      BY <2>1, SectorsForGrows, SectorsForIs
    <3> QED
      BY <1>2, <3>1
  <2> QED
    BY <2>1
<1>4. CASE r = Failed(c)
  BY <1>4, StaysPreserves DEF Failed, Resizes
<1>5. ASSUME NEW g \in BestFit(Occupied(c, i), SectorsFor(size) * SectorCells),
             r \in MovedTo(c, i, g.start, size)
      PROVE  Resizes(c, r, n, size)
  <2>1. PICK o \in Nat : o = g.start /\ Base <= o /\ Sits(c, i, o, size)
                         /\ o + SectorsFor(size) * SectorCells <= DataEnd
    BY <1>1, <1>2, <1>3, GapSits
  <2>2. ASSUME NEW p, Keeps(c, p),
               r \in {Done(z) : z \in zero_chunks(Resized(p, i, o, size), o + m, size - m)},
               ~IOErrors => \A x \in Cell \ (o..o + size - 1) :
                               p.area[x] = IF x \in Bytes(c.files[i]) THEN Zero ELSE c.area[x],
               ~IOErrors => Copied(c, p, i, o, m)
        PROVE  Resizes(c, r, n, size)
    <3>1. PICK q \in zero_chunks(Resized(p, i, o, size), o + m, size - m) : r = Done(q)
      BY <2>2
    <3>2. Sizes(c, q, i, o, size) /\ Carries(c, q, i, o, size)
      BY <1>1, <1>2, <1>3, <2>1, <2>2, FinishIs
    <3>3. r.ctx = q /\ r.ok
      BY <3>1 DEF Done
    <3> QED
      BY <3>2, <3>3 DEF Resizes
  <2>3. CASE m = 0
    <3>1. r \in {Done(z) : z \in zero_chunks(Resized(c, i, o, size), o + m, size - m)}
      BY <1>2, <1>5, <2>1, <2>3 DEF MovedTo
    <3>2. Bytes(c.files[i]) = {}
      BY <1>2, <2>3 DEF Bytes
    <3>3. Keeps(c, c)
      BY <1>1 DEF Keeps
    <3>4. Copied(c, c, i, o, m)
      BY <2>3, <3>2 DEF Copied
    <3> QED
      BY <2>2, <3>1, <3>2, <3>3, <3>4
  <2>4. CASE m # 0
    <3>1. PICK s : /\ s = vfs_read_data(c, f, m) /\ s \in Seq(Content) /\ Len(s) = m
                   /\ \A k \in 1..m : s[k] = c.area[f + k - 1]
      <4>1. c \in Context /\ f \in Nat /\ m \in Nat /\ f + m <= DataEnd
        BY <1>1, <1>2
      <4>2. vfs_read_data(c, f, m) \in Seq(Content)
        BY <4>1, ReadType
      <4>3. Len(vfs_read_data(c, f, m)) = m
        BY <4>1, ReadType
      <4>4. \A k \in 1..m : vfs_read_data(c, f, m)[k] = c.area[f + k - 1]
        BY DEF vfs_read_data
      <4> QED
        BY <4>2, <4>3, <4>4
    <3>0. PICK old : old = Phys(f)..Phys(f) + c.files[i].sectors - 1
      OBVIOUS
    <3>2. \/ r = Failed(c) /\ IOErrors
          \/ \E w \in vfs_write_data(c, o, s) :
                \/ ~w.ok /\ r = w
                \/ \E v \in vfs_write_data(w.ctx, f, Zeros(m)) :
                     \E q \in flush_sectors(v.ctx, old) :
                        r \in {Done(z) : z \in zero_chunks(Resized(q, i, o, size), o + m, size - m)}
      <4> DEFINE old_sectors == Phys(c.files[i].offset) ..
                                   Phys(c.files[i].offset) + c.files[i].sectors - 1
                 finish(q) == {Done(z) : z \in zero_chunks(Resized(q, i, o, size), o + m, size - m)}
                 wipe(q) == UNION {flush_sectors(w.ctx, old_sectors) :
                                     w \in vfs_write_data(q, f, Zeros(m))}
      <4>1. r \in (IF IOErrors THEN {Failed(c)} ELSE {})
                  \cup UNION {IF w.ok THEN UNION {finish(q) : q \in wipe(w.ctx)} ELSE {w} :
                                w \in vfs_write_data(c, o, s)}
        BY <1>2, <1>5, <2>1, <2>4, <3>1, SMTT(30) DEF MovedTo
      <4>5. old_sectors = old
        BY <1>2, <3>0
      <4> HIDE DEF old_sectors, finish
      <4>2. CASE r = Failed(c) /\ IOErrors
        BY <4>2
      <4>3. ASSUME ~(r = Failed(c) /\ IOErrors)
            PROVE  \E w \in vfs_write_data(c, o, s) :
                      r \in IF w.ok THEN UNION {finish(q) : q \in wipe(w.ctx)} ELSE {w}
        <5> HIDE DEF wipe
        <5> QED
          BY <4>1, <4>3
      <4>4. ASSUME NEW w \in vfs_write_data(c, o, s),
                   r \in IF w.ok THEN UNION {finish(q) : q \in wipe(w.ctx)} ELSE {w}
            PROVE  \/ ~w.ok /\ r = w
                   \/ \E v \in vfs_write_data(w.ctx, f, Zeros(m)) :
                        \E q \in flush_sectors(v.ctx, old_sectors) : r \in finish(q)
        <5>1. CASE w.ok
          <6>1. PICK q \in wipe(w.ctx) : r \in finish(q)
            <7> HIDE DEF wipe
            <7> QED
              BY <4>4, <5>1
          <6>2. PICK v \in vfs_write_data(w.ctx, f, Zeros(m)) :
                        q \in flush_sectors(v.ctx, old_sectors)
            BY <6>1
          <6> QED
            BY <6>1, <6>2
        <5>2. CASE ~w.ok
          BY <4>4, <5>2
        <5> QED
          BY <5>1, <5>2
      <4> QED
        BY <4>2, <4>3, <4>4, <4>5 DEF finish
    <3>3. ASSUME NEW w \in vfs_write_data(c, o, s)
          PROVE  /\ Keeps(c, w.ctx)
                 /\ ~IOErrors => w.ok /\ w.ctx.area = Put(c.area, o, s)
      BY <1>1, <3>1, WriteIs
    <3>6. PICK y \in Nat, d \in Nat : d = DataEnd /\ o + y <= d /\ m <= y
      <4>1. SectorsFor(size) * SectorCells \in Nat /\ size <= SectorsFor(size) * SectorCells
        BY SectorsForIs
      <4> QED
        BY <1>3, <2>1, <4>1, SizesAre
    <3>7. o # f
      <4>1. c.files[i].sectors # 0
        <5>1. c.files[i].size <= c.files[i].sectors * SectorCells
          BY <1>1, PlacedIs
        <5> QED
          BY <1>2, <2>4, <5>1, SizesAre
      <4> QED
        BY <1>1, <1>2, <1>5, <2>1, <4>1, StartsElsewhere
    <3>4. ASSUME NEW w \in vfs_write_data(c, o, s), ~w.ok, r = w
          PROVE  Resizes(c, r, n, size)
      BY <3>3, <3>4 DEF Resizes, Fills
    <3>5. ASSUME NEW w \in vfs_write_data(c, o, s), NEW v \in vfs_write_data(w.ctx, f, Zeros(m)),
                 NEW q \in flush_sectors(v.ctx, old),
                 r \in {Done(z) : z \in zero_chunks(Resized(q, i, o, size), o + m, size - m)}
          PROVE  Resizes(c, r, n, size)
      <4>1. w.ctx \in Context /\ w.ctx.area \in [Cell -> Content]
        BY <3>3, ContextIs DEF Keeps
      <4>2. PICK t \in Seq(Content) : t = Zeros(m)
        BY ZerosType
      <4>3. /\ Keeps(w.ctx, v.ctx)
            /\ ~IOErrors => v.ctx.area = Put(w.ctx.area, f, Zeros(m))
        BY <4>1, <4>2, WriteIs
      <4>4. /\ Keeps(v.ctx, q) /\ q.area = v.ctx.area
            /\ ~IOErrors => \A x \in Cell : Phys(x) \in old => q.disk[x] = q.area[x]
        BY <4>3, FlushIs DEF Keeps
      <4>5. Keeps(c, q)
        BY <3>3, <4>3, <4>4, KeepsMore
      <4>6. ASSUME ~IOErrors, NEW x \in Cell, x \notin o..o + size - 1
            PROVE  q.area[x] = IF x \in Bytes(c.files[i]) THEN Zero ELSE c.area[x]
        <5>1. Bytes(c.files[i]) = f..f + m - 1
          BY <1>2 DEF Bytes
        <5>2. q.area[x] = IF x \in f..f + m - 1 THEN Zero ELSE w.ctx.area[x]
          <6>1. q.area = Put(w.ctx.area, f, Zeros(m))
            BY <4>3, <4>4, <4>6
          <6> QED
            BY <4>1, <6>1, ZerosPut
        <5>3. x \in Int
          BY SizesAre DEF Cell
        <5>4. x \notin o..o + m - 1
          BY <1>3, <4>6, <5>3
        <5>5. w.ctx.area[x] = c.area[x]
          <6>1. w.ctx.area = Put(c.area, o, s) /\ Len(s) = m
            BY <3>1, <3>3, <4>6
          <6> QED
            BY <5>4, <6>1 DEF Put
        <5> QED
          BY <5>1, <5>2, <5>5
      <4>7. ASSUME ~IOErrors
            PROVE  \A x \in Cell : q.area[x] = IF x \in f..f + m - 1 THEN Zero ELSE w.ctx.area[x]
        <5>1. q.area = Put(w.ctx.area, f, Zeros(m))
          BY <4>3, <4>4, <4>7
        <5> QED
          BY <4>1, <5>1, ZerosPut, SMTT(30)
      <4>8. ASSUME ~IOErrors, (f..f + m - 1) \cap (o..o + m - 1) = {}, NEW k \in 1..m
            PROVE  q.area[o + k - 1] = c.area[f + k - 1]
        <5>1. PICK x \in Nat : x = o + k - 1
          OBVIOUS
        <5>2. x \in o..o + m - 1 /\ x - o + 1 = k /\ x < d
          BY <3>6, <5>1
        <5>3. x \in Cell
          BY <3>6, <5>2 DEF Cell
        <5>4. q.area[x] = w.ctx.area[x]
          BY <4>7, <4>8, <5>2, <5>3
        <5>5. w.ctx.area[x] = s[k]
          BY <3>1, <3>3, <4>8, <5>2, <5>3 DEF Put
        <5> QED
          BY <3>1, <5>1, <5>4, <5>5
      <4>9. ASSUME ~IOErrors, NEW x \in Bytes(c.files[i]), Phys(x) < Phys(End(c.files[i]))
            PROVE  q.disk[x] = Zero
        <5>1. x \in f..f + m - 1
          BY <1>2 DEF Bytes
        <5>2. x \in Cell
          BY <1>1, BytesIn
        <5>3. Phys(x) \in old
          <6>1. PICK C \in Nat \ {0}, k \in Nat : C = SectorCells /\ k = c.files[i].sectors
                                                /\ End(c.files[i]) = f + k * C
            BY <1>1, <1>2, PlacedIs, SizesAre
          <6>2. x \in Nat /\ f + 0 * C <= x
            BY <5>1
          <6>3. f \div C + 0 <= x \div C
            BY <6>1, <6>2, QuotientGrows
          <6>4. (f + k * C) \div C = f \div C + k
            BY <6>1, QuotientShifts
          <6>5. Phys(x) = x \div C /\ Phys(f) = f \div C /\ Phys(End(c.files[i])) = f \div C + k
            BY <6>1, <6>4 DEF Phys
          <6>6. PICK a \in Nat, b \in Nat : a = Phys(f) /\ b = Phys(x) /\ a <= b /\ b < a + k
            <7>1. x \div C \in Nat /\ f \div C \in Nat
              BY <6>1, <6>2, Quotient
            <7> QED
              BY <4>9, <6>3, <6>5, <7>1
          <6>7. b \in a..a + k - 1
            BY <6>6
          <6> QED
            BY <3>0, <6>1, <6>6, <6>7
        <5> QED
          BY <4>4, <4>7, <4>9, <5>1, <5>2, <5>3
      <4>10. ~IOErrors => Copied(c, q, i, o, m)
        <5>1. Bytes(c.files[i]) = f..f + m - 1
          BY <1>2 DEF Bytes
        <5> QED
          BY <1>2, <3>7, <4>8, <4>9, <5>1 DEF Copied
      <4> QED
        BY <2>2, <3>5, <4>5, <4>6, <4>10
    <3> QED
      BY <1>4, <3>2, <3>4, <3>5
  <2> QED
    BY <2>3, <2>4
<1>6. \/ r = Failed(c)
      \/ \E g \in BestFit(Occupied(c, i), SectorsFor(size) * SectorCells) :
            r \in MovedTo(c, i, g.start, size)
  BY DEF Relocated
<1> QED
  BY <1>4, <1>5, <1>6

LEMMA ResizeIs ==
    ASSUME NEW c, Sound(c), NEW n, NEW size \in Nat, NEW r \in vfs_resize_file(c, n, size)
    PROVE  Resizes(c, r, n, size)
<1>1. CASE r = Failed(c)
  BY <1>1, StaysPreserves DEF Failed, Resizes
<1>2. ASSUME NEW i \in vfs_find_file(c, n), c.files[i].size = size, r = Done(c)
      PROVE  Resizes(c, r, n, size)
  BY <1>2, StaysPreserves DEF Done, Resizes
<1>3. ASSUME NEW i \in vfs_find_file(c, n)
      PROVE  /\ i \in 1..Len(c.files) /\ c.files[i].sectors \in Nat /\ SectorsFor(size) \in Nat
             /\ c.files[i].offset \in Nat /\ c.used_sectors \in Int
  <2>1. i \in 1..Len(c.files)
    BY SoundIs, FoundIs
  <2> QED
    BY <2>1, SoundIs, ContextIs, PlacedIs, SectorsForIs
<1>4. ASSUME NEW i \in vfs_find_file(c, n), SectorsFor(size) - c.files[i].sectors <= 0,
             r \in WithinSectors(c, i, size)
      PROVE  Resizes(c, r, n, size)
  <2>1. i \in 1..Len(c.files) /\ SectorsFor(size) <= c.files[i].sectors
    BY <1>3, <1>4
  <2>2. /\ r.ok /\ Sizes(c, r.ctx, i, c.files[i].offset, size)
        /\ Carries(c, r.ctx, i, c.files[i].offset, size)
    BY <1>4, <2>1, WithinIs
  <2>3. c.files[i].offset \in Nat
    BY <1>3
  <2> QED
    BY <2>2, <2>3 DEF Resizes
<1>5. ASSUME NEW i \in vfs_find_file(c, n), ~(SectorsFor(size) - c.files[i].sectors <= 0),
             ~(c.used_sectors + (SectorsFor(size) - c.files[i].sectors) > total_sectors)
      PROVE  /\ i \in 1..Len(c.files) /\ c.files[i].sectors < SectorsFor(size)
             /\ c.used_sectors + SectorsFor(size) - c.files[i].sectors <= total_sectors
  <2>1. PICK u \in Int, k \in Nat, m \in Nat, t \in Nat :
           /\ u = c.used_sectors /\ k = c.files[i].sectors /\ m = SectorsFor(size)
           /\ t = total_sectors
    BY <1>3, SizesAre
  <2>2. k < m /\ u + m - k <= t
    BY <1>5, <2>1
  <2> QED
    BY <1>3, <2>1, <2>2
<1>6. ASSUME NEW i \in vfs_find_file(c, n), ~(SectorsFor(size) - c.files[i].sectors <= 0),
             ~(c.used_sectors + (SectorsFor(size) - c.files[i].sectors) > total_sectors),
             NextOffset(c, i) - End(c.files[i])
               >= (SectorsFor(size) - c.files[i].sectors) * SectorCells,
             r \in ExpandedInPlace(c, i, size)
      PROVE  Resizes(c, r, n, size)
  <2>1. /\ i \in 1..Len(c.files) /\ c.files[i].sectors < SectorsFor(size)
        /\ c.used_sectors + SectorsFor(size) - c.files[i].sectors <= total_sectors
    BY <1>5, <1>6
  <2>2. (SectorsFor(size) - c.files[i].sectors) * SectorCells <= NextOffset(c, i) - End(c.files[i])
    <3>1. PICK a \in Int, b \in Int : a = NextOffset(c, i) /\ b = End(c.files[i])
      <4>1. NextOffset(c, i) \in Nat
        BY <2>1, NextIs
      <4>2. End(c.files[i]) \in Nat
        BY <2>1, PlacedIs
      <4> QED
        BY <4>1, <4>2
    <3>2. PICK d \in Int : d = (SectorsFor(size) - c.files[i].sectors) * SectorCells
      <4>1. PICK k \in Nat, m \in Nat, C \in Nat :
               k = c.files[i].sectors /\ m = SectorsFor(size) /\ C = SectorCells
        BY <1>3, SizesAre
      <4>2. (m - k) * C \in Int
        OBVIOUS
      <4> QED
        BY <4>1, <4>2
    <3>3. a - b >= d
      BY <1>6, <3>1, <3>2
    <3>4. d <= a - b
      BY <3>3
    <3> QED
      BY <3>1, <3>2, <3>4
  <2>3. /\ r.ok /\ Sizes(c, r.ctx, i, c.files[i].offset, size)
        /\ Carries(c, r.ctx, i, c.files[i].offset, size)
    BY <1>6, <2>1, <2>2, ExpandIs
  <2>4. c.files[i].offset \in Nat
    BY <1>3
  <2> QED
    BY <2>3, <2>4 DEF Resizes
<1>7. ASSUME NEW i \in vfs_find_file(c, n), ~(SectorsFor(size) - c.files[i].sectors <= 0),
             ~(c.used_sectors + (SectorsFor(size) - c.files[i].sectors) > total_sectors),
             ~(NextOffset(c, i) - End(c.files[i])
                 >= (SectorsFor(size) - c.files[i].sectors) * SectorCells),
             r \in Relocated(c, i, size)
      PROVE  Resizes(c, r, n, size)
  <2>1. /\ c.files[i].sectors < SectorsFor(size)
        /\ c.used_sectors + SectorsFor(size) - c.files[i].sectors <= total_sectors
    BY <1>5, <1>7
  <2> QED
    BY <1>7, <2>1, MoveIs
<1>8. CASE vfs_find_file(c, n) = {}
  BY <1>1, <1>8 DEF vfs_resize_file
<1>9. CASE vfs_find_file(c, n) # {}
  <2>1. PICK i \in vfs_find_file(c, n) :
          LET f == c.files[i]
              additional == SectorsFor(size) - f.sectors
          IN r \in CASE size = f.size -> {Done(c)}
                     [] size # f.size /\ additional <= 0 -> WithinSectors(c, i, size)
                     [] additional > 0 /\ c.used_sectors + additional > total_sectors -> {Failed(c)}
                     [] OTHER -> IF NextOffset(c, i) - End(f) >= additional * SectorCells
                                 THEN ExpandedInPlace(c, i, size)
                                 ELSE Relocated(c, i, size)
    BY <1>9 DEF vfs_resize_file
  <2>2. PICK a : a = SectorsFor(size) - c.files[i].sectors
    OBVIOUS
  <2>3. a \in Int
    BY <1>3, <2>2
  <2>4. size = c.files[i].size => ~(a > 0)
    <3>1. c.files[i].sectors = SectorsFor(c.files[i].size)
      BY <1>3, PlacedIs
    <3> QED
      BY <1>3, <2>2, <3>1
  <2>5. CASE size = c.files[i].size
    <3>1. r = Done(c)
      BY <2>1, <2>2, <2>4, <2>5
    <3> QED
      BY <1>2, <2>5, <3>1
  <2>6. CASE size # c.files[i].size /\ a <= 0
    <3>1. ~(a > 0)
      BY <2>3, <2>6
    <3>2. r \in WithinSectors(c, i, size)
      BY <2>1, <2>2, <2>6, <3>1
    <3> QED
      BY <1>4, <2>2, <2>6, <3>2
  <2>7. CASE size # c.files[i].size /\ ~(a <= 0) /\ c.used_sectors + a > total_sectors
    <3>1. a > 0
      BY <2>3, <2>7
    <3>2. r = Failed(c)
      BY <2>1, <2>2, <2>7, <3>1
    <3> QED
      BY <1>1, <3>2
  <2>8. CASE size # c.files[i].size /\ ~(a <= 0) /\ ~(c.used_sectors + a > total_sectors)
    <3>1. r \in IF NextOffset(c, i) - End(c.files[i]) >= a * SectorCells
                THEN ExpandedInPlace(c, i, size)
                ELSE Relocated(c, i, size)
      BY <2>1, <2>2, <2>8
    <3> QED
      BY <1>6, <1>7, <2>2, <2>8, <3>1
  <2> QED
    BY <2>5, <2>6, <2>7, <2>8
<1> QED
  BY <1>8, <1>9

LEMMA ResizePreserves ==
    ASSUME NEW c, Sound(c), NEW r, NEW n, NEW size, Resizes(c, r, n, size)
    PROVE  Preserves(c, r.ctx)
BY StaysPreserves, FillsPreserves, SizesPreserves DEF Resizes

------------------------------------------------------------------------------
(* Writing *)

LEMMA FoundOnce ==
    ASSUME NEW c \in Context, NEW n, NEW i \in vfs_find_file(c, n), NEW j \in vfs_find_file(c, n)
    PROVE  i = j
<1>1. DOMAIN c.files = 1..Len(c.files) /\ Len(c.files) \in Nat
  BY ContextIs
<1>2. /\ i \in 1..Len(c.files) /\ c.files[i].name = n /\ \A k \in 1..i - 1 : c.files[k].name # n
      /\ j \in 1..Len(c.files) /\ c.files[j].name = n /\ \A k \in 1..j - 1 : c.files[k].name # n
  BY <1>1 DEF vfs_find_file
<1>3. ~(i \in 1..j - 1) /\ ~(j \in 1..i - 1)
  BY <1>2
<1> QED
  BY <1>1, <1>2, <1>3

LEMMA FoundAgain ==
    ASSUME NEW c \in Context, NEW q \in Context, Len(q.files) = Len(c.files),
           \A i \in 1..Len(c.files) : q.files[i].name = c.files[i].name, NEW n
    PROVE  vfs_find_file(q, n) = vfs_find_file(c, n)
<1>1. PICK m \in Nat : m = Len(c.files)
  BY ContextIs
<1>2. DOMAIN c.files = 1..m /\ DOMAIN q.files = 1..m
  BY <1>1, ContextIs
<1>3. \A i \in 1..m : \A j \in 1..i - 1 : j \in 1..m
  OBVIOUS
<1>4. \A i \in 1..m : q.files[i].name = c.files[i].name
  BY <1>1
<1> QED
  BY <1>2, <1>3, <1>4 DEF vfs_find_file

\* A resize that succeeds leaves the entry with the size asked for.
LEMMA ResizedTo ==
    ASSUME NEW c, Sound(c), NEW r, NEW n, NEW size, Resizes(c, r, n, size), r.ok,
           NEW k \in vfs_find_file(r.ctx, n)
    PROVE  r.ctx.files[k].size = size
<1>1. c \in Context
  BY DEF Sound
<1>2. CASE Fills(c, r.ctx) /\ \E i \in vfs_find_file(c, n) : c.files[i].size = size
  <2>1. r.ctx.files = c.files
    BY <1>2 DEF Fills, Keeps
  <2>2. k \in vfs_find_file(c, n)
    BY <2>1 DEF vfs_find_file
  <2> QED
    BY <1>1, <1>2, <2>1, <2>2, FoundOnce
<1>3. ASSUME NEW i \in vfs_find_file(c, n), NEW o \in Nat, Sizes(c, r.ctx, i, o, size)
      PROVE  r.ctx.files[k].size = size
  <2>1. /\ r.ctx \in Context /\ Len(r.ctx.files) = Len(c.files)
        /\ \A j \in 1..Len(c.files) : j # i => r.ctx.files[j] = c.files[j]
        /\ r.ctx.files[i].name = c.files[i].name /\ r.ctx.files[i].size = size
    BY <1>3 DEF Sizes, Others
  <2>2. \A j \in 1..Len(c.files) : r.ctx.files[j].name = c.files[j].name
    BY <2>1
  <2>3. vfs_find_file(r.ctx, n) = vfs_find_file(c, n)
    BY <1>1, <2>1, <2>2, FoundAgain
  <2>4. k = i
    BY <1>1, <2>3, FoundOnce
  <2> QED
    BY <2>1, <2>4
<1> QED
  BY <1>2, <1>3 DEF Resizes

LEMMA FillIs ==
    ASSUME NEW c, Sound(c), NEW k \in 1..Len(c.files), NEW off \in Nat, NEW s \in Seq(Content),
           off + Len(s) <= c.files[k].size,
           NEW r \in vfs_write_data(c, c.files[k].offset + off, s)
    PROVE  Fills(c, r.ctx)
<1>1. PICK o \in Nat, m \in Nat, n \in Nat :
             o = c.files[k].offset /\ m = c.files[k].size /\ n = Len(s) /\ off + n <= m
  <2>1. Len(s) \in Nat
    BY LenProperties
  <2> QED
    BY <2>1, PlacedIs
<1>2. c \in Context
  BY DEF Sound
<1>3. PICK p \in Nat : p = o + off
  OBVIOUS
<1>4. r \in vfs_write_data(c, p, s)
  BY <1>1, <1>3
<1>5. Keeps(c, r.ctx) /\ (~IOErrors => r.ctx.area = Put(c.area, p, s))
  BY <1>2, <1>4, WriteIs
<1>6. ASSUME ~IOErrors, NEW x \in Cell, ~InFile(c, x)
      PROVE  r.ctx.area[x] = c.area[x]
  <2>1. x \notin o..o + m - 1
    BY <1>1, <1>6 DEF InFile, Bytes
  <2>2. x \in Int
    BY SizesAre DEF Cell
  <2>3. x \notin p..p + n - 1
    <3>1. off + n <= m
      BY <1>1
    <3>2. p = o + off
      BY <1>3
    <3>3. ASSUME x \in p..p + n - 1
          PROVE  o <= x /\ x <= o + m - 1
      BY <2>2, <3>1, <3>2, <3>3
    <3> QED
      BY <2>1, <2>2, <3>3
  <2> QED
    BY <1>1, <1>5, <1>6, <2>3 DEF Put
<1> QED
  BY <1>5, <1>6 DEF Fills

LEMMA WritePreserves ==
    ASSUME NEW c, Sound(c), NEW n, NEW off \in Nat, NEW s \in Seq(Content),
           NEW r \in tsuki_write(c, n, off, s)
    PROVE  Preserves(c, r.ctx)
<1> DEFINE into(q) == UNION {vfs_write_data(q, q.files[i].offset + off, s) :
                               i \in vfs_find_file(q, n)}
           grow == \A i \in vfs_find_file(c, n) : off + Len(s) > c.files[i].size
<1>1. c \in Context /\ off + Len(s) \in Nat
  <2>1. Len(s) \in Nat
    BY LenProperties
  <2> QED
    BY <2>1 DEF Sound
<1>2. ASSUME NEW q, Preserves(c, q), NEW w \in into(q),
             \A k \in vfs_find_file(q, n) : off + Len(s) <= q.files[k].size
      PROVE  Preserves(c, w.ctx)
  <2>1. PICK k \in vfs_find_file(q, n) : w \in vfs_write_data(q, q.files[k].offset + off, s)
    BY <1>2
  <2>2. Sound(q) /\ k \in 1..Len(q.files)
    BY <1>2, FoundIs DEF Preserves, Sound
  <2>3. off + Len(s) <= q.files[k].size
    BY <1>2
  <2>4. Fills(q, w.ctx)
    BY <2>1, <2>2, <2>3, FillIs
  <2> QED
    BY <1>2, <2>4, FillsPreserves
<1>3. CASE r = Failed(c)
  BY <1>3, StaysPreserves DEF Failed
<1>4. ASSUME NEW g \in vfs_resize_file(c, n, off + Len(s)),
             r \in IF g.ok THEN into(g.ctx) ELSE {g}
      PROVE  Preserves(c, r.ctx)
  <2> HIDE DEF into
  <2>1. Resizes(c, g, n, off + Len(s))
    BY <1>1, ResizeIs
  <2>2. Preserves(c, g.ctx)
    BY <2>1, ResizePreserves
  <2>3. CASE g.ok
    <3>1. \A k \in vfs_find_file(g.ctx, n) : off + Len(s) <= g.ctx.files[k].size
      BY <1>1, <2>1, <2>3, ResizedTo
    <3> QED
      BY <1>2, <1>4, <2>2, <2>3, <3>1
  <2>4. CASE ~g.ok
    BY <1>4, <2>2, <2>4
  <2> QED
    BY <2>3, <2>4
<1>5. ASSUME ~grow, r \in into(c)
      PROVE  Preserves(c, r.ctx)
  <2>1. PICK i \in vfs_find_file(c, n) : ~(off + Len(s) > c.files[i].size)
    BY <1>5
  <2>2. c.files[i].size \in Nat
    BY <1>1, FoundIs, PlacedIs
  <2>3. off + Len(s) <= c.files[i].size
    BY <1>1, <2>1, <2>2
  <2>4. \A k \in vfs_find_file(c, n) : off + Len(s) <= c.files[k].size
    BY <1>1, <2>3, FoundOnce
  <2> HIDE DEF into
  <2> QED
    BY <1>2, <1>5, <2>4, StaysPreserves
<1>6. \/ r = Failed(c)
      \/ \E g \in vfs_resize_file(c, n, off + Len(s)) : r \in IF g.ok THEN into(g.ctx) ELSE {g}
      \/ ~grow /\ r \in into(c)
  BY DEF tsuki_write
<1> QED
  BY <1>3, <1>4, <1>5, <1>6

------------------------------------------------------------------------------
(* Steps *)

Inv == Sound(Ctx)

LEMMA CtxIs ==
    /\ Ctx.files = files /\ Ctx.used_sectors = used_sectors
    /\ Ctx.area = area /\ Ctx.disk = disk
BY DEF Ctx

LEMMA CtxType ==
    ASSUME Inv
    PROVE  /\ files \in Seq(File) /\ used_sectors \in Int /\ DOMAIN files = 1..Len(files)
           /\ area \in [Cell -> Content] /\ disk \in [Cell -> Content]
<1>1. Sound(Ctx)
  BY DEF Inv
<1>2. Ctx \in Context
  BY <1>1 DEF Sound
<1> QED
  BY <1>2, ContextIs, CtxIs

LEMMA Becoming ==
    ASSUME NEW q \in Context, Becomes(q)
    PROVE  Ctx' = q
BY DEF Becomes, Ctx, Context

LEMMA InitSound ==
    ASSUME Init
    PROVE  Inv /\ NamesUnique /\ FreeSpaceIsZero
<1>1. PICK F : F = <<>>
  OBVIOUS
<1>2. F \in Seq(File) /\ Len(F) = 0 /\ Total(F) = 0
  BY <1>1, TotalEmpty
<1>3. files = F /\ used_sectors = 0 /\ area = [x \in Cell |-> Zero] /\ disk = area
  BY <1>1 DEF Init
<1>4. area \in [Cell -> Content]
  BY <1>3 DEF Content
<1>5. Ctx \in Context
  BY <1>2, <1>3, <1>4 DEF Ctx, Context
<1>6. Sound(Ctx)
  BY <1>2, <1>3, <1>5, CtxIs, SizesAre DEF Sound
<1>7. DOMAIN files = {}
  BY <1>2, <1>3, LenProperties
<1> QED
  BY <1>3, <1>6, <1>7 DEF Inv, NamesUnique, FreeSpaceIsZero

LEMMA StepPreserves ==
    ASSUME Inv, [Next]_vars
    PROVE  Preserves(Ctx, Ctx')
<1>1. Sound(Ctx)
  BY DEF Inv
<1>2. ASSUME NEW q, Preserves(Ctx, q), Becomes(q)
      PROVE  Preserves(Ctx, Ctx')
  <2>1. q \in Context
    BY <1>2 DEF Preserves, Sound
  <2> QED
    BY <1>2, <2>1, Becoming
<1>3. ASSUME NEW n \in Name, Create(n)
      PROVE  Preserves(Ctx, Ctx')
  <2>1. PICK r \in vfs_create_empty_file(Ctx, n) : Becomes(r.ctx)
    BY <1>3 DEF Create
  <2>2. Creates(Ctx, r, n)
    BY <1>1, <2>1, CreateIs
  <2> QED
    BY <1>1, <1>2, <2>1, <2>2, CreatePreserves
<1>4. ASSUME NEW n \in Name, NEW off \in 0..MaxSize - 1, NEW d \in Data,
             NEW len \in 1..MaxSize - off, Write(n, off, len, d)
      PROVE  Preserves(Ctx, Ctx')
  <2>1. PICK r \in tsuki_write(Ctx, n, off, [k \in 1..len |-> d]) : Becomes(r.ctx)
    BY <1>4 DEF Write
  <2>2. off \in Nat /\ len \in Nat
    BY SizesAre
  <2>3. [k \in 1..len |-> d] \in Seq(Content)
    BY <2>2 DEF Content
  <2>4. Preserves(Ctx, r.ctx)
    BY <1>1, <2>1, <2>2, <2>3, WritePreserves
  <2> QED
    BY <1>2, <2>1, <2>4
<1>5. ASSUME NEW n \in Name, NEW size \in 0..MaxSize, Truncate(n, size)
      PROVE  Preserves(Ctx, Ctx')
  <2>1. PICK r \in vfs_resize_file(Ctx, n, size) : Becomes(r.ctx)
    BY <1>5 DEF Truncate
  <2>2. size \in Nat
    BY SizesAre
  <2>3. Resizes(Ctx, r, n, size)
    BY <1>1, <2>1, <2>2, ResizeIs
  <2> QED
    BY <1>1, <1>2, <2>1, <2>3, ResizePreserves
<1>6. ASSUME NEW n \in Name, Unlink(n)
      PROVE  Preserves(Ctx, Ctx')
  <2>1. PICK r \in vfs_delete_file(Ctx, n) : Becomes(r.ctx)
    BY <1>6 DEF Unlink
  <2>2. Deletes(Ctx, r, n)
    BY <1>1, <2>1, DeleteIs
  <2> QED
    BY <1>1, <1>2, <2>1, <2>2, DeletePreserves
<1>7. ASSUME NEW n \in Name, NEW to \in Name, Rename(n, to)
      PROVE  Preserves(Ctx, Ctx')
  <2>1. PICK r \in vfs_rename_file(Ctx, n, to) : Becomes(r.ctx)
    BY <1>7 DEF Rename
  <2>2. Renames(Ctx, r, n, to)
    BY <1>1, <2>1, RenameIs
  <2> QED
    BY <1>1, <1>2, <2>1, <2>2, RenamePreserves
<1>8. ASSUME NEW p, WriteBack(p)
      PROVE  Preserves(Ctx, Ctx')
  <2>1. PICK d : d = [c \in Cell |-> IF Phys(c) = p THEN area[c] ELSE disk[c]]
    OBVIOUS
  <2>2. d \in [Cell -> Content]
    BY <2>1, CtxType
  <2>3. PICK q : q = [Ctx EXCEPT !.disk = d]
    OBVIOUS
  <2>4. Ctx \in Context
    BY <1>1 DEF Sound
  <2>5. Keeps(Ctx, q) /\ q.area = Ctx.area /\ q.disk = d
    BY <2>2, <2>3, <2>4, DiskKeeps
  <2>6. Preserves(Ctx, q)
    <3>1. Fills(Ctx, q)
      BY <2>5 DEF Fills
    <3> QED
      BY <1>1, <3>1, StaysPreserves, FillsPreserves
  <2>7. Becomes(q)
    BY <1>8, <2>1, <2>5, CtxIs DEF WriteBack, Becomes, Keeps
  <2> QED
    BY <1>2, <2>6, <2>7
<1>9. CASE UNCHANGED vars
  <2>1. Becomes(Ctx)
    BY <1>9, CtxIs DEF vars, Becomes
  <2> QED
    BY <1>1, <1>2, <2>1, StaysPreserves
<1> QED
  BY <1>3, <1>4, <1>5, <1>6, <1>7, <1>8, <1>9 DEF Next

LEMMA Invariance == Spec => []Inv
<1>1. Init => Inv
  BY InitSound
<1>2. Inv /\ [Next]_vars => Inv'
  <2> SUFFICES ASSUME Inv, [Next]_vars
               PROVE  Inv'
    OBVIOUS
  <2>1. Sound(Ctx')
    BY StepPreserves DEF Preserves
  <2> QED
    BY <2>1 DEF Inv
<1> QED
  BY <1>1, <1>2, PTL DEF Spec

\* The table has at most MaxFiles entries, used_sectors does not underflow, and what
\* is read and what is on the disk are cells of data.
THEOREM TypeCorrect == Spec => []TypeOK
<1>1. Inv => TypeOK
  <2> SUFFICES ASSUME Inv
               PROVE  TypeOK
    OBVIOUS
  <2>1. used_sectors = Total(files) /\ Len(files) <= MaxFiles
    BY CtxIs DEF Inv, Sound
  <2>2. files \in Seq(File) /\ Total(files) \in Nat
    BY CtxType, TotalType
  <2> QED
    BY <2>1, <2>2, CtxType DEF TypeOK, Content
<1> QED
  BY <1>1, Invariance, PTL

\* No sequence of operations, with accesses that fail, gives a file a place outside
\* the data area, or sectors that its size does not need.
THEOREM StaysInsideDataArea == Spec => []InsideDataArea
<1>1. Inv => InsideDataArea
  <2> SUFFICES ASSUME Inv
               PROVE  InsideDataArea
    OBVIOUS
  <2>1. \A i \in 1..Len(files) : Placed(files[i])
    BY CtxIs DEF Inv, Sound
  <2> QED
    BY <2>1, CtxType DEF InsideDataArea, Placed
<1> QED
  BY <1>1, Invariance, PTL

\* used_sectors is the sum over the table, and within the volume, whatever fails.
THEOREM SectorsAccounted == Spec => []Accounting
<1>1. Inv => Accounting
  BY CtxIs DEF Inv, Sound, Accounting
<1> QED
  BY <1>1, Invariance, PTL

LEMMA UniqueIs ==
    ASSUME Inv
    PROVE  Unique(Ctx) <=> NamesUnique
BY CtxIs, CtxType DEF Unique, NamesUnique

\* On a volume whose accesses succeed no two entries have one name.
THEOREM NamesStayUnique ==
    ASSUME ~IOErrors
    PROVE  Spec => []NamesUnique
<1>1. Init => Inv /\ NamesUnique
  BY InitSound
<1>2. (Inv /\ NamesUnique) /\ [Next]_vars => (Inv /\ NamesUnique)'
  <2> SUFFICES ASSUME Inv, NamesUnique, [Next]_vars
               PROVE  Inv' /\ NamesUnique'
    OBVIOUS
  <2>1. Preserves(Ctx, Ctx')
    BY StepPreserves
  <2>2. Unique(Ctx)
    BY UniqueIs
  <2>3. Sound(Ctx') /\ Unique(Ctx')
    BY <2>1, <2>2 DEF Preserves
  <2>4. Ctx'.files = files'
    BY DEF Ctx
  <2>5. DOMAIN files' = 1..Len(files')
    BY <2>3, <2>4, SoundIs
  <2> QED
    BY <2>3, <2>4, <2>5 DEF Inv, Unique, NamesUnique
<1> QED
  BY <1>1, <1>2, PTL DEF Spec

LEMMA FreeZeroIs ==
    ASSUME Inv
    PROVE  FreeZero(Ctx) <=> FreeSpaceIsZero
BY CtxIs, CtxType DEF FreeZero, FreeSpaceIsZero, InFile

\* On a volume whose accesses succeed all that is in no file reads as zero, after any
\* deletion, truncation, growth and relocation, also of files that overlap.
THEOREM FreeSpaceStaysZero ==
    ASSUME ~IOErrors
    PROVE  Spec => []FreeSpaceIsZero
<1>1. Init => Inv /\ FreeSpaceIsZero
  BY InitSound
<1>2. (Inv /\ FreeSpaceIsZero) /\ [Next]_vars => (Inv /\ FreeSpaceIsZero)'
  <2> SUFFICES ASSUME Inv, FreeSpaceIsZero, [Next]_vars
               PROVE  Inv' /\ FreeSpaceIsZero'
    OBVIOUS
  <2>1. Preserves(Ctx, Ctx')
    BY StepPreserves
  <2>2. FreeZero(Ctx)
    BY FreeZeroIs
  <2>3. Sound(Ctx') /\ FreeZero(Ctx')
    BY <2>1, <2>2 DEF Preserves
  <2>4. Ctx'.files = files' /\ Ctx'.area = area'
    BY DEF Ctx
  <2>5. DOMAIN files' = 1..Len(files')
    BY <2>3, <2>4, SoundIs
  <2> QED
    BY <2>3, <2>4, <2>5 DEF Inv, FreeZero, FreeSpaceIsZero, InFile
<1> QED
  BY <1>1, <1>2, PTL DEF Spec

\* Whatever fails, files come to overlap only when an empty file grows whose offset
\* lies in the extent of another: every other way to find a place keeps them apart.
THEOREM OverlapsStartAtEmptyFile == Spec => OverlapStartsAtEmptyFile
<1>1. ASSUME Inv, [Next]_vars, NoOverlap, ~NoOverlap'
      PROVE  \E i, j \in DOMAIN files : /\ i # j /\ Grows(i) /\ files[i].sectors = 0
                                        /\ files[i].offset \in Extent(files[j])
  <2>1. Preserves(Ctx, Ctx')
    BY <1>1, StepPreserves
  <2>2. Apart(Ctx)
    BY <1>1, CtxIs, CtxType DEF Apart, NoOverlap, OverlapIn
  <2>3. ~Apart(Ctx')
    <3>1. Sound(Ctx')
      BY <2>1 DEF Preserves
    <3>2. DOMAIN Ctx'.files = 1..Len(Ctx'.files)
      BY <3>1, SoundIs
    <3> QED
      BY <1>1, <3>2 DEF Apart, NoOverlap, OverlapIn
  <2>4. GrewOver(Ctx, Ctx')
    BY <2>1, <2>2, <2>3 DEF Preserves
  <2>5. Ctx'.files = files'
    BY DEF Ctx
  <2> QED
    BY <1>1, <2>4, <2>5, CtxIs, CtxType DEF GrewOver, Grows
<1>2. Inv /\ [Next]_vars =>
        [NoOverlap /\ ~NoOverlap' =>
           \E i, j \in DOMAIN files : /\ i # j /\ Grows(i) /\ files[i].sectors = 0
                                     /\ files[i].offset \in Extent(files[j])]_vars
  BY <1>1
<1> QED
  BY <1>2, Invariance, PTL DEF Spec, OverlapStartsAtEmptyFile

------------------------------------------------------------------------------
(* Contents *)

Stored(c, i) == vfs_read_data(c, c.files[i].offset, c.files[i].size)

\* D is the directory of c.
Lists(c, D) ==
    /\ D = [n \in DOMAIN D |-> D[n]]
    /\ DOMAIN D = {c.files[i].name : i \in 1..Len(c.files)}
    /\ \A i \in 1..Len(c.files) : D[c.files[i].name] = Stored(c, i)

LEMMA StoredIs ==
    ASSUME NEW c, Sound(c), NEW i \in 1..Len(c.files)
    PROVE  /\ Stored(c, i) = [k \in 1..c.files[i].size |-> c.area[c.files[i].offset + k - 1]]
           /\ Len(Stored(c, i)) = c.files[i].size
<1>1. PICK o \in Nat, m \in Nat : o = c.files[i].offset /\ m = c.files[i].size
  BY PlacedIs
<1>2. c \in Context
  BY DEF Sound
<1>3. o + m <= DataEnd
  <2>1. PICK y \in Nat, e \in Nat, d \in Nat :
           /\ y = c.files[i].sectors * SectorCells /\ m <= y
           /\ e = End(c.files[i]) /\ e = o + y /\ d = DataEnd /\ e <= d
    <3>1. /\ c.files[i].sectors \in Nat /\ m <= c.files[i].sectors * SectorCells
          /\ End(c.files[i]) = o + c.files[i].sectors * SectorCells
          /\ End(c.files[i]) \in Nat /\ End(c.files[i]) <= DataEnd
      BY <1>1, PlacedIs
    <3>2. c.files[i].sectors * SectorCells \in Nat /\ DataEnd \in Nat
      <4>1. PICK k \in Nat, C \in Nat : k = c.files[i].sectors /\ C = SectorCells
        BY <3>1, SizesAre
      <4>2. k * C \in Nat
        BY Products
      <4> QED
        BY <4>1, <4>2, SizesAre
    <3> QED
      BY <3>1, <3>2
  <2>2. o + m <= e
    BY <2>1, SMTT(30)
  <2> QED
    BY <2>1, <2>2, SMTT(30)
<1>4. Len(vfs_read_data(c, o, m)) = m
  BY <1>2, <1>3, ReadType
<1> QED
  BY <1>1, <1>4 DEF Stored, vfs_read_data

\* Two volumes with the same bytes of a file.
LEMMA StoredSame ==
    ASSUME NEW c, Sound(c), NEW i \in 1..Len(c.files), NEW q, Sound(q), NEW j \in 1..Len(q.files),
           q.files[j].offset = c.files[i].offset, q.files[j].size = c.files[i].size,
           \A x \in Bytes(c.files[i]) : q.area[x] = c.area[x]
    PROVE  Stored(q, j) = Stored(c, i)
<1>1. PICK o \in Nat, m \in Nat : o = c.files[i].offset /\ m = c.files[i].size
  BY PlacedIs
<1>2. Bytes(c.files[i]) = o..o + m - 1
  BY <1>1 DEF Bytes
<1>3. ASSUME NEW k \in 1..m
      PROVE  q.area[o + k - 1] = c.area[o + k - 1]
  <2>1. o + k - 1 \in o..o + m - 1
    OBVIOUS
  <2> QED
    BY <1>2, <2>1
<1>4. /\ Stored(c, i) = [k \in 1..m |-> c.area[o + k - 1]]
      /\ Stored(q, j) = [k \in 1..m |-> q.area[o + k - 1]]
  BY <1>1 DEF Stored, vfs_read_data
<1> QED
  BY <1>3, <1>4

LEMMA FoundAlone ==
    ASSUME NEW c, Sound(c), Unique(c), NEW i \in 1..Len(c.files)
    PROVE  vfs_find_file(c, c.files[i].name) = {i}
<1>1. c \in Context
  BY DEF Sound
<1>2. \A j \in vfs_find_file(c, c.files[i].name) : j = i
  BY <1>1, FoundIs DEF Unique
<1>3. vfs_find_file(c, c.files[i].name) # {}
  BY <1>1, FoundIs
<1> QED
  BY <1>2, <1>3

LEMMA ContentsList ==
    ASSUME NEW c, Sound(c), Unique(c)
    PROVE  Lists(c, ContentsOf(c))
<1>1. DOMAIN c.files = 1..Len(c.files)
  BY SoundIs
<1>2. PICK D : D = ContentsOf(c)
  OBVIOUS
<1>3. DOMAIN D = {c.files[i].name : i \in 1..Len(c.files)}
  BY <1>1, <1>2 DEF ContentsOf
<1>4. ASSUME NEW i \in 1..Len(c.files)
      PROVE  D[c.files[i].name] = Stored(c, i)
  <2>1. PICK n : n = c.files[i].name
    OBVIOUS
  <2>2. (CHOOSE j \in vfs_find_file(c, n) : TRUE) = i
    <3>1. vfs_find_file(c, n) = {i}
      BY <2>1, FoundAlone
    <3>2. PICK j : j = CHOOSE k \in {i} : TRUE
      OBVIOUS
    <3>3. j \in {i}
      BY <3>2
    <3> QED
      BY <3>1, <3>2, <3>3
  <2>3. n \in DOMAIN D
    BY <1>3, <2>1
  <2>4. D[n] = vfs_read_data(c, c.files[CHOOSE j \in vfs_find_file(c, n) : TRUE].offset,
                             c.files[CHOOSE j \in vfs_find_file(c, n) : TRUE].size)
    BY <1>2, <2>3 DEF ContentsOf
  <2> QED
    BY <2>1, <2>2, <2>4 DEF Stored
<1>5. D = [n \in DOMAIN D |-> D[n]]
  BY <1>2 DEF ContentsOf
<1> QED
  BY <1>2, <1>3, <1>4, <1>5 DEF Lists

LEMMA ContentsOnly ==
    ASSUME NEW c, Sound(c), Unique(c), NEW D, Lists(c, D)
    PROVE  ContentsOf(c) = D
<1>1. PICK E : E = ContentsOf(c) /\ Lists(c, E)
  BY ContentsList
<1>2. /\ DOMAIN D = DOMAIN E /\ D = [n \in DOMAIN D |-> D[n]] /\ E = [n \in DOMAIN E |-> E[n]]
  BY <1>1 DEF Lists
<1>3. ASSUME NEW n \in DOMAIN D
      PROVE  D[n] = E[n]
  <2>1. PICK i \in 1..Len(c.files) : n = c.files[i].name
    BY DEF Lists
  <2> QED
    BY <1>1, <2>1 DEF Lists
<1> QED
  BY <1>1, <1>2, <1>3

LEMMA BytesApart ==
    ASSUME NEW c, Sound(c), Apart(c), NEW i \in 1..Len(c.files), NEW j \in 1..Len(c.files), i # j
    PROVE  Bytes(c.files[i]) \cap Bytes(c.files[j]) = {}
<1>1. Extent(c.files[i]) \cap Extent(c.files[j]) = {}
  BY DEF Apart
<1>2. Bytes(c.files[i]) \subseteq Extent(c.files[i]) /\ Bytes(c.files[j]) \subseteq Extent(c.files[j])
  BY BytesIn
<1> QED
  BY <1>1, <1>2

LEMMA AddsLists ==
    ASSUME NEW c, Sound(c), NEW q, NEW e, Adds(c, q, e), NEW D, Lists(c, D)
    PROVE  /\ Lists(q, FS!Created(D, e.name)) /\ e.name \notin DOMAIN D
<1>1. PICK n \in Nat : n = Len(c.files)
  BY SoundIs
<1>2. /\ Len(q.files) = n + 1 /\ q.files[n + 1] = e
      /\ \A i \in 1..n : q.files[i] = c.files[i]
  <2>1. e \in File /\ q.files = Append(c.files, e) /\ c.files \in Seq(File)
    BY SoundIs DEF Adds, Placed
  <2> QED
    BY <1>1, <2>1, AppendProperties
<1>3. Sound(q)
  BY AddsPreserves DEF Preserves
<1>4. q.area = c.area /\ e.size = 0 /\ \A i \in 1..n : c.files[i].name # e.name
  BY <1>1 DEF Adds
<1>5. PICK E : E = FS!Created(D, e.name)
  OBVIOUS
<1>6. /\ E = [m \in DOMAIN D \cup {e.name} |-> IF m = e.name THEN <<>> ELSE D[m]]
      /\ DOMAIN E = DOMAIN D \cup {e.name}
  BY <1>5 DEF FS!Created
<1>7. DOMAIN D = {c.files[i].name : i \in 1..n} /\ \A i \in 1..n : D[c.files[i].name] = Stored(c, i)
  BY <1>1 DEF Lists
<1>8. e.name \notin DOMAIN D
  BY <1>4, <1>7
<1>9. DOMAIN E = {q.files[i].name : i \in 1..n + 1}
  <2>1. ASSUME NEW i \in 1..n + 1
        PROVE  q.files[i].name \in DOMAIN E
    <3>1. i = n + 1 \/ i \in 1..n
      OBVIOUS
    <3> QED
      BY <1>2, <1>6, <1>7, <3>1
  <2>2. ASSUME NEW m \in DOMAIN E
        PROVE  \E i \in 1..n + 1 : m = q.files[i].name
    <3>1. CASE m = e.name
      BY <1>2, <3>1
    <3>2. CASE m # e.name
      <4>1. PICK i \in 1..n : m = c.files[i].name
        BY <1>6, <1>7, <2>2, <3>2
      <4>2. i \in 1..n + 1
        OBVIOUS
      <4> QED
        BY <1>2, <4>1, <4>2
    <3> QED
      BY <3>1, <3>2
  <2> QED
    BY <2>1, <2>2
<1>10. ASSUME NEW i \in 1..n + 1
       PROVE  E[q.files[i].name] = Stored(q, i)
  <2>1. CASE i = n + 1
    <3>1. E[e.name] = <<>>
      BY <1>6
    <3>2. Stored(q, i) = <<>>
      BY <1>2, <1>4, <2>1 DEF Stored, vfs_read_data
    <3> QED
      BY <1>2, <2>1, <3>1, <3>2
  <2>2. CASE i \in 1..n
    <3>1. E[c.files[i].name] = D[c.files[i].name]
      BY <1>4, <1>6, <1>7, <2>2
    <3>2. Stored(q, i) = Stored(c, i)
      BY <1>2, <1>4, <2>2 DEF Stored, vfs_read_data
    <3> QED
      BY <1>2, <1>7, <2>2, <3>1, <3>2
  <2>3. i = n + 1 \/ i \in 1..n
    OBVIOUS
  <2> QED
    BY <2>1, <2>2, <2>3
<1>11. E = [m \in DOMAIN E |-> E[m]]
  BY <1>6
<1> QED
  BY <1>2, <1>5, <1>8, <1>9, <1>10, <1>11 DEF Lists

\* The entries that stay when one is removed.
Stay(c, q, i) ==
    /\ \A j \in 1..Len(q.files) : \E k \in 1..Len(c.files) : k # i /\ q.files[j] = c.files[k]
    /\ \A k \in 1..Len(c.files) : k # i => \E j \in 1..Len(q.files) : q.files[j] = c.files[k]

LEMMA DropsKeeps ==
    ASSUME NEW c, Sound(c), NEW q, NEW i, Drops(c, q, i)
    PROVE  i \in 1..Len(c.files) /\ Stay(c, q, i)
<1>1. PICK n \in Nat : n = Len(c.files)
  BY SoundIs
<1>2. /\ i \in 1..n /\ Len(q.files) = n - 1
      /\ \A j \in 1..(n - 1) : q.files[j] = IF j < i THEN c.files[j] ELSE c.files[j + 1]
  BY <1>1 DEF Drops, Without
<1>3. ASSUME NEW j \in 1..(n - 1)
      PROVE  \E k \in 1..n : k # i /\ q.files[j] = c.files[k]
  <2>1. CASE j < i
    <3>1. j \in 1..n /\ j # i
      BY <1>2, <2>1
    <3> QED
      BY <1>2, <2>1, <3>1
  <2>2. CASE ~(j < i)
    <3>1. j + 1 \in 1..n /\ j + 1 # i
      BY <1>2, <2>2
    <3> QED
      BY <1>2, <2>2, <3>1
  <2> QED
    BY <2>1, <2>2
<1>4. ASSUME NEW k \in 1..n, k # i
      PROVE  \E j \in 1..(n - 1) : q.files[j] = c.files[k]
  <2>1. CASE k < i
    <3>1. k \in 1..(n - 1)
      BY <1>2, <2>1
    <3> QED
      BY <1>2, <2>1, <3>1
  <2>2. CASE ~(k < i)
    <3>1. k - 1 \in 1..(n - 1) /\ ~(k - 1 < i) /\ (k - 1) + 1 = k
      BY <1>2, <1>4, <2>2
    <3> QED
      BY <1>2, <3>1
  <2> QED
    BY <2>1, <2>2
<1> QED
  BY <1>1, <1>2, <1>3, <1>4 DEF Stay

LEMMA DropsLists ==
    ASSUME ~IOErrors, NEW c, Sound(c), Unique(c), Apart(c), NEW q, NEW i, Drops(c, q, i),
           NEW D, Lists(c, D)
    PROVE  Lists(q, FS!Unlinked(D, c.files[i].name))
<1>1. /\ i \in 1..Len(c.files)
      /\ \A j \in 1..Len(q.files) :
           \E k \in 1..Len(c.files) : k # i /\ q.files[j] = c.files[k]
      /\ \A k \in 1..Len(c.files) :
           k # i => \E j \in 1..Len(q.files) : q.files[j] = c.files[k]
  <2>1. i \in 1..Len(c.files) /\ Stay(c, q, i)
    BY DropsKeeps
  <2> QED
    BY <2>1 DEF Stay
<1>2. PICK n : n = c.files[i].name
  OBVIOUS
<1>3. PICK E : E = FS!Unlinked(D, n)
  OBVIOUS
<1>4. DOMAIN E = DOMAIN D \ {n} /\ E = [m \in DOMAIN E |-> E[m]] /\ \A m \in DOMAIN E : E[m] = D[m]
  BY <1>3 DEF FS!Unlinked
<1>5. /\ DOMAIN D = {c.files[k].name : k \in 1..Len(c.files)}
      /\ \A k \in 1..Len(c.files) : D[c.files[k].name] = Stored(c, k)
  BY DEF Lists
<1>6. ASSUME NEW k \in 1..Len(c.files), k # i
      PROVE  c.files[k].name \in DOMAIN E
  <2>1. c.files[k].name # n
    BY <1>1, <1>2, <1>6 DEF Unique
  <2> QED
    BY <1>4, <1>5, <2>1
<1>7. Sound(q)
  BY DropsPreserves DEF Preserves
<1>8. ASSUME NEW k \in 1..Len(c.files), k # i, NEW j \in 1..Len(q.files), q.files[j] = c.files[k]
      PROVE  Stored(q, j) = Stored(c, k)
  <2>1. ASSUME NEW x \in Bytes(c.files[k])
        PROVE  q.area[x] = c.area[x]
    <3>1. x \in Cell
      BY BytesIn
    <3>2. x \notin Bytes(c.files[i])
      BY <1>1, <1>8, BytesApart
    <3> QED
      BY <3>1, <3>2 DEF Drops
  <2> QED
    BY <1>7, <1>8, <2>1, StoredSame
<1>9. DOMAIN E = {q.files[j].name : j \in 1..Len(q.files)}
  <2>1. ASSUME NEW j \in 1..Len(q.files)
        PROVE  q.files[j].name \in DOMAIN E
    BY <1>1, <1>6
  <2>2. ASSUME NEW m \in DOMAIN E
        PROVE  \E j \in 1..Len(q.files) : m = q.files[j].name
    <3>1. PICK k \in 1..Len(c.files) : m = c.files[k].name
      BY <1>4, <1>5
    <3>2. k # i
      BY <1>2, <1>4, <3>1
    <3> QED
      BY <1>1, <3>1, <3>2
  <2> QED
    BY <2>1, <2>2
<1>10. ASSUME NEW j \in 1..Len(q.files)
       PROVE  E[q.files[j].name] = Stored(q, j)
  <2>1. PICK k \in 1..Len(c.files) : k # i /\ q.files[j] = c.files[k]
    BY <1>1
  <2>2. q.files[j].name \in DOMAIN E /\ Stored(q, j) = Stored(c, k)
    BY <1>6, <1>8, <2>1
  <2>3. E[q.files[j].name] = D[c.files[k].name]
    BY <1>4, <2>1, <2>2
  <2> QED
    BY <1>5, <2>2, <2>3
<1> QED
  BY <1>2, <1>3, <1>4, <1>9, <1>10 DEF Lists

LEMMA NamesLists ==
    ASSUME NEW c, Sound(c), Unique(c), NEW q, NEW i, NEW n, Names(c, q, i, n),
           \A j \in 1..Len(c.files) : c.files[j].name # n, NEW D, Lists(c, D)
    PROVE  Lists(q, FS!Renamed(D, c.files[i].name, n))
<1>1. PICK from : from = c.files[i].name
  OBVIOUS
<1>2. /\ i \in 1..Len(c.files) /\ Len(q.files) = Len(c.files) /\ q.area = c.area
      /\ \A j \in 1..Len(c.files) : j # i => q.files[j] = c.files[j]
      /\ q.files[i].name = n /\ q.files[i].offset = c.files[i].offset
      /\ q.files[i].size = c.files[i].size
  BY DEF Names, Others
<1>3. PICK E : E = FS!Renamed(D, from, n)
  OBVIOUS
<1>4. /\ DOMAIN E = (DOMAIN D \ {from}) \cup {n} /\ E = [m \in DOMAIN E |-> E[m]]
      /\ \A m \in DOMAIN E : E[m] = IF m = n THEN D[from] ELSE D[m]
  BY <1>3 DEF FS!Renamed
<1>5. /\ DOMAIN D = {c.files[k].name : k \in 1..Len(c.files)}
      /\ \A k \in 1..Len(c.files) : D[c.files[k].name] = Stored(c, k)
  BY DEF Lists
<1>6. \A k \in 1..Len(c.files) : k # i => c.files[k].name \in DOMAIN E /\ c.files[k].name # n
  BY <1>1, <1>2, <1>4, <1>5 DEF Unique
<1>7. \A k \in 1..Len(c.files) : Stored(q, k) = Stored(c, k)
  <2>1. \A k \in 1..Len(c.files) : /\ q.files[k].offset = c.files[k].offset
                                   /\ q.files[k].size = c.files[k].size
    BY <1>2
  <2> QED
    BY <1>2, <2>1 DEF Stored, vfs_read_data
<1>8. DOMAIN E = {q.files[j].name : j \in 1..Len(q.files)}
  <2>1. ASSUME NEW j \in 1..Len(q.files)
        PROVE  q.files[j].name \in DOMAIN E
    BY <1>2, <1>4, <1>6
  <2>2. ASSUME NEW m \in DOMAIN E
        PROVE  \E j \in 1..Len(q.files) : m = q.files[j].name
    <3>1. CASE m = n
      BY <1>2, <3>1
    <3>2. CASE m # n
      <4>1. PICK k \in 1..Len(c.files) : m = c.files[k].name
        BY <1>4, <1>5, <3>2
      <4>2. k # i
        BY <1>1, <1>4, <3>2, <4>1
      <4> QED
        BY <1>2, <4>1, <4>2
    <3> QED
      BY <3>1, <3>2
  <2> QED
    BY <2>1, <2>2
<1>9. ASSUME NEW j \in 1..Len(q.files)
      PROVE  E[q.files[j].name] = Stored(q, j)
  <2>1. CASE j = i
    BY <1>1, <1>2, <1>4, <1>5, <1>7, <2>1
  <2>2. CASE j # i
    <3>1. q.files[j] = c.files[j] /\ Stored(q, j) = Stored(c, j) /\ j \in 1..Len(c.files)
      BY <1>2, <1>7, <2>2
    <3>2. E[c.files[j].name] = D[c.files[j].name]
      BY <1>4, <1>6, <2>2, <3>1
    <3> QED
      BY <1>5, <3>1, <3>2
  <2> QED
    BY <2>1, <2>2
<1> QED
  BY <1>1, <1>3, <1>4, <1>8, <1>9 DEF Lists

\* A file that is deleted first leaves no trace in a rename over it.
LEMMA RenamedOver ==
    ASSUME NEW D, NEW from \in DOMAIN D, NEW to, from # to
    PROVE  FS!Renamed(FS!Unlinked(D, to), from, to) = FS!Renamed(D, from, to)
<1>1. PICK E : E = FS!Unlinked(D, to)
  OBVIOUS
<1>2. DOMAIN E = DOMAIN D \ {to} /\ \A m \in DOMAIN E : E[m] = D[m]
  BY <1>1 DEF FS!Unlinked
<1>3. (DOMAIN E \ {from}) \cup {to} = (DOMAIN D \ {from}) \cup {to}
  BY <1>2
<1>4. E[from] = D[from] /\ \A m \in (DOMAIN D \ {from}) \cup {to} : m # to => E[m] = D[m]
  BY <1>2
<1>5. FS!Renamed(E, from, to) = FS!Renamed(D, from, to)
  BY <1>3, <1>4 DEF FS!Renamed
<1> QED
  BY <1>1, <1>5

\* The other entries keep their bytes under a resize.
LEMMA SizesOthers ==
    ASSUME ~IOErrors, NEW c, Sound(c), Apart(c), NEW q, NEW i, NEW o, NEW size,
           Sizes(c, q, i, o, size), Sound(q), Apart(q), NEW j \in 1..Len(c.files), j # i
    PROVE  Stored(q, j) = Stored(c, j)
<1>1. /\ i \in 1..Len(c.files) /\ Len(q.files) = Len(c.files) /\ q.files[j] = c.files[j]
      /\ q.files[i].offset = o /\ q.files[i].size = size
  BY DEF Sizes, Others
<1>2. ASSUME NEW x \in Bytes(c.files[j])
      PROVE  q.area[x] = c.area[x]
  <2>1. x \in Cell
    BY BytesIn
  <2>2. x \notin Bytes(c.files[i])
    BY <1>1, BytesApart
  <2>3. x \notin Bytes(q.files[i])
    BY <1>1, BytesApart
  <2>4. x \notin o..o + size - 1
    BY <1>1, <2>3 DEF Bytes
  <2>5. \A y \in Cell \ (o..o + size - 1) :
           q.area[y] = IF y \in Bytes(c.files[i]) THEN Zero ELSE c.area[y]
    BY DEF Sizes
  <2> QED
    BY <2>1, <2>2, <2>4, <2>5
<1>3. j \in 1..Len(q.files) /\ q.files[j].offset = c.files[j].offset /\ q.files[j].size = c.files[j].size
  BY <1>1
<1> QED
  BY <1>2, <1>3, StoredSame

LEMMA SizesLists ==
    ASSUME ~IOErrors, NEW c, Sound(c), Unique(c), Apart(c), FreeZero(c),
           NEW q, NEW i, NEW o \in Nat, NEW size \in Nat,
           Sizes(c, q, i, o, size), Carries(c, q, i, o, size), Sound(q), Apart(q),
           o = c.files[i].offset
             \/ Bytes(c.files[i]) \cap (o..o + c.files[i].size - 1) = {},
           NEW D, Lists(c, D)
    PROVE  Lists(q, FS!Truncated(D, c.files[i].name, size))
<1>1. /\ i \in 1..Len(c.files) /\ Len(q.files) = Len(c.files)
      /\ \A j \in 1..Len(c.files) : j # i => q.files[j] = c.files[j]
      /\ q.files[i].name = c.files[i].name
      /\ q.files[i].offset = o /\ q.files[i].size = size
  BY DEF Sizes, Others
<1>2. PICK n : n = c.files[i].name
  OBVIOUS
<1>3. PICK f \in Nat, m \in Nat : f = c.files[i].offset /\ m = c.files[i].size
  BY <1>1, PlacedIs
<1>4. /\ DOMAIN D = {c.files[k].name : k \in 1..Len(c.files)} /\ n \in DOMAIN D
      /\ D = [k \in DOMAIN D |-> D[k]]
      /\ \A k \in 1..Len(c.files) : D[c.files[k].name] = Stored(c, k)
  BY <1>1, <1>2 DEF Lists
<1>5. D[n] = [k \in 1..m |-> c.area[f + k - 1]] /\ Len(D[n]) = m
  <2>1. Stored(c, i) = [k \in 1..m |-> c.area[f + k - 1]] /\ Len(Stored(c, i)) = m
    BY <1>1, <1>3, StoredIs
  <2> QED
    BY <1>1, <1>2, <1>4, <2>1
<1>6. PICK t : t = [k \in 1..size |-> IF k <= Len(D[n]) THEN D[n][k] ELSE Zero]
  OBVIOUS
<1>7. PICK E : E = FS!Truncated(D, n, size)
  OBVIOUS
<1>8. DOMAIN E = DOMAIN D /\ E = [k \in DOMAIN E |-> E[k]]
      /\ E[n] = t /\ \A k \in DOMAIN D : k # n => E[k] = D[k]
  <2>1. E = [D EXCEPT ![n] = t]
    BY <1>6, <1>7 DEF FS!Truncated
  <2> QED
    BY <1>4, <2>1
<1>9. Stored(q, i) = [k \in 1..size |-> q.area[o + k - 1]]
  BY <1>1 DEF Stored, vfs_read_data
<1>10. ASSUME NEW k \in 1..size
       PROVE  q.area[o + k - 1] = t[k]
  <2>1. CASE k <= m
    <3>1. PICK l \in Nat : l <= m /\ l <= size /\ k \in 1..l
      BY <2>1
    <3>2. Copied(c, q, i, o, l)
      BY <1>3, <3>1 DEF Carries
    <3>3. q.area[o + k - 1] = c.area[f + k - 1]
      BY <1>3, <3>1, <3>2 DEF Copied
    <3>4. k \in 1..m
      BY <2>1
    <3>5. D[n][k] = c.area[f + k - 1]
      BY <1>5, <3>4
    <3> QED
      BY <1>5, <1>6, <2>1, <3>3, <3>5
  <2>2. CASE ~(k <= m)
    <3>1. k > m
      BY <2>2
    <3>2. q.area[o + k - 1] = Zero
      BY <1>3, <3>1 DEF Carries
    <3> QED
      BY <1>5, <1>6, <2>2, <3>2
  <2> QED
    BY <2>1, <2>2
<1>11. Stored(q, i) = t
  BY <1>6, <1>9, <1>10
<1>12. ASSUME NEW j \in 1..Len(c.files), j # i
       PROVE  c.files[j].name # n /\ Stored(q, j) = Stored(c, j)
  <2>1. c.files[j].name # n
    BY <1>1, <1>2, <1>12 DEF Unique
  <2> QED
    BY <1>12, <2>1, SizesOthers
<1>13. \A j \in 1..Len(c.files) : q.files[j].name = c.files[j].name
  BY <1>1
<1>14. DOMAIN E = {q.files[j].name : j \in 1..Len(q.files)}
  <2>1. PICK l : l = Len(c.files)
    OBVIOUS
  <2>2. {q.files[j].name : j \in 1..l} = {c.files[j].name : j \in 1..l}
    BY <1>13, <2>1
  <2> QED
    BY <1>1, <1>4, <1>8, <2>1, <2>2
<1>15. ASSUME NEW j \in 1..Len(q.files)
       PROVE  E[q.files[j].name] = Stored(q, j)
  <2>1. CASE j = i
    BY <1>1, <1>2, <1>8, <1>11, <2>1
  <2>2. CASE j # i
    BY <1>1, <1>4, <1>8, <1>12, <1>13, <2>2, SMTT(30)
  <2> QED
    BY <2>1, <2>2
<1> QED
  BY <1>2, <1>7, <1>8, <1>14, <1>15 DEF Lists

\* Where data is written into a file, the directory says so.
LEMMA WrittenLists ==
    ASSUME NEW c, Sound(c), Unique(c), Apart(c), NEW k \in 1..Len(c.files),
           NEW off \in Nat, NEW len \in Nat, NEW d, off + len <= c.files[k].size,
           NEW q, Keeps(c, q),
           q.area = Put(c.area, c.files[k].offset + off, [j \in 1..len |-> d]),
           NEW D, Lists(c, D)
    PROVE  Lists(q, FS!Written(D, c.files[k].name, off, len, d))
<1>1. q \in Context /\ q.files = c.files
  BY DEF Keeps
<1>2. PICK n : n = c.files[k].name
  OBVIOUS
<1>3. PICK f \in Nat, m \in Nat : f = c.files[k].offset /\ m = c.files[k].size
  BY PlacedIs
<1>4. PICK p \in Nat : p = f + off
  OBVIOUS
<1>5. \A x \in Cell : q.area[x] = IF x \in p..p + len - 1 THEN d ELSE c.area[x]
  <2>1. PICK s : s = [j \in 1..len |-> d]
    OBVIOUS
  <2>2. Len(s) = len
    BY <2>1
  <2>3. q.area = Put(c.area, p, s)
    BY <1>3, <1>4, <2>1
  <2>4. ASSUME NEW x \in Cell, x \in p..p + len - 1
        PROVE  s[x - p + 1] = d
    <3>1. x - p + 1 \in 1..len
      BY <2>4
    <3> QED
      BY <2>1, <3>1
  <2> QED
    BY <2>2, <2>3, <2>4 DEF Put
<1>6. /\ DOMAIN D = {c.files[j].name : j \in 1..Len(c.files)} /\ n \in DOMAIN D
      /\ D = [j \in DOMAIN D |-> D[j]]
      /\ \A j \in 1..Len(c.files) : D[c.files[j].name] = Stored(c, j)
  BY <1>2 DEF Lists
<1>7. D[n] = [j \in 1..m |-> c.area[f + j - 1]] /\ Len(D[n]) = m
  <2>1. Stored(c, k) = [j \in 1..m |-> c.area[f + j - 1]] /\ Len(Stored(c, k)) = m
    BY <1>3, StoredIs
  <2> QED
    BY <1>2, <1>6, <2>1
<1>8. PICK t : t = [j \in 1..m |-> IF j > off /\ j <= off + len THEN d ELSE D[n][j]]
  OBVIOUS
<1>9. PICK E : E = FS!Written(D, n, off, len, d)
  OBVIOUS
<1>10. /\ DOMAIN E = DOMAIN D /\ E = [j \in DOMAIN E |-> E[j]]
       /\ E[n] = t /\ \A j \in DOMAIN D : j # n => E[j] = D[j]
  <2>1. ~(off + len > m)
    BY <1>3
  <2>2. E = [D EXCEPT ![n] = [j \in 1..m |-> IF j > off /\ j <= off + len THEN d
                                             ELSE IF j <= m THEN D[n][j] ELSE Zero]]
    BY <1>7, <1>9, <2>1 DEF FS!Written
  <2>3. t = [j \in 1..m |-> IF j > off /\ j <= off + len THEN d
                            ELSE IF j <= m THEN D[n][j] ELSE Zero]
    BY <1>8
  <2> QED
    BY <1>6, <2>2, <2>3
<1>11. Bytes(c.files[k]) = f..f + m - 1
  BY <1>3 DEF Bytes
<1>12. Stored(q, k) = t
  <2>1. Stored(q, k) = [j \in 1..m |-> q.area[f + j - 1]]
    BY <1>1, <1>3 DEF Stored, vfs_read_data
  <2>2. ASSUME NEW j \in 1..m
        PROVE  q.area[f + j - 1] = t[j]
    <3>1. PICK x \in Nat : x = f + j - 1
      OBVIOUS
    <3>2. x \in f..f + m - 1
      BY <3>1
    <3>3. x \in Cell
      BY <1>11, <3>2, BytesIn
    <3>4. x \in p..p + len - 1 <=> j > off /\ j <= off + len
      BY <1>4, <3>1
    <3>5. D[n][j] = c.area[x]
      BY <1>7, <3>1
    <3> QED
      BY <1>5, <1>8, <3>1, <3>3, <3>4, <3>5
  <2> QED
    BY <1>8, <2>1, <2>2
<1>13. ASSUME NEW j \in 1..Len(c.files), j # k
       PROVE  c.files[j].name # n /\ Stored(q, j) = Stored(c, j)
  <2>1. c.files[j].name # n
    BY <1>2, <1>13 DEF Unique
  <2>2. ASSUME NEW x \in Bytes(c.files[j])
        PROVE  q.area[x] = c.area[x]
    <3>1. x \in Cell
      BY BytesIn
    <3>2. x \notin f..f + m - 1
      BY <1>11, <1>13, BytesApart
    <3>3. x \notin p..p + len - 1
      <4>1. x \in Int
        BY <3>1, SizesAre DEF Cell
      <4>2. off + len <= m
        BY <1>3
      <4>3. ASSUME x \in p..p + len - 1
            PROVE  f <= x /\ x <= f + m - 1
        BY <1>4, <4>1, <4>2, <4>3
      <4> QED
        BY <3>2, <4>1, <4>3
    <3> QED
      BY <1>5, <3>1, <3>3
  <2>3. Sound(q)
    BY <1>1 DEF Sound, Keeps
  <2> QED
    BY <1>1, <2>1, <2>2, <2>3, StoredSame
<1>14. DOMAIN E = {q.files[j].name : j \in 1..Len(q.files)}
  BY <1>1, <1>6, <1>10
<1>15. ASSUME NEW j \in 1..Len(q.files)
       PROVE  E[q.files[j].name] = Stored(q, j)
  <2>1. CASE j = k
    BY <1>1, <1>2, <1>10, <1>12, <2>1
  <2>2. CASE j # k
    BY <1>1, <1>6, <1>10, <1>13, <2>2
  <2> QED
    BY <2>1, <2>2
<1> QED
  BY <1>2, <1>9, <1>10, <1>14, <1>15 DEF Lists

\* Growing a file to where a write ends, and writing.
LEMMA WrittenGrown ==
    ASSUME NEW D, NEW n \in DOMAIN D, D = [k \in DOMAIN D |-> D[k]], Len(D[n]) \in Nat,
           NEW off \in Nat, NEW len \in Nat, NEW d, off + len > Len(D[n])
    PROVE  FS!Written(FS!Truncated(D, n, off + len), n, off, len, d)
             = FS!Written(D, n, off, len, d)
<1>1. PICK e \in Nat, m \in Nat : e = off + len /\ m = Len(D[n])
  OBVIOUS
<1>2. PICK t : t = [k \in 1..e |-> IF k <= m THEN D[n][k] ELSE Zero]
  OBVIOUS
<1>3. Len(t) = e
  BY <1>2
<1>4. PICK E : E = [D EXCEPT ![n] = t]
  OBVIOUS
<1>5. FS!Truncated(D, n, e) = E
  BY <1>1, <1>2, <1>4 DEF FS!Truncated
<1>6. E[n] = t
  BY <1>4
<1> DEFINE w(s, l) == [k \in 1..e |-> IF k > off /\ k <= e THEN d
                                      ELSE IF k <= l THEN s[k] ELSE Zero]
<1>7. FS!Written(E, n, off, len, d) = [E EXCEPT ![n] = w(t, e)]
  <2>1. ~(e > e)
    OBVIOUS
  <2> QED
    BY <1>1, <1>3, <1>6, <2>1 DEF FS!Written
<1>8. FS!Written(D, n, off, len, d) = [D EXCEPT ![n] = w(D[n], m)]
  BY <1>1 DEF FS!Written
<1>9. w(t, e) = w(D[n], m)
  BY <1>1, <1>2
<1>10. [E EXCEPT ![n] = w(D[n], m)] = [D EXCEPT ![n] = w(D[n], m)]
  <2> HIDE DEF w
  <2> QED
    BY <1>4
<1> QED
  BY <1>1, <1>5, <1>7, <1>8, <1>9, <1>10

------------------------------------------------------------------------------
(* Answers *)

\* The directory after r is the one of c, or done when r succeeds.
Right(c, r, done) == \/ OverlapIn(r.ctx) \/ Slid(c, r.ctx)
                     \/ ContentsOf(r.ctx) = IF r.ok THEN done ELSE ContentsOf(c)

LEMMA OverlapIs ==
    ASSUME NEW c, Sound(c)
    PROVE  OverlapIn(c) <=> ~Apart(c)
<1>1. DOMAIN c.files = 1..Len(c.files)
  BY SoundIs
<1> QED
  BY <1>1 DEF OverlapIn, Apart

LEMMA ListedIs ==
    ASSUME NEW c, Sound(c), Unique(c)
    PROVE  \A n : (n \in DOMAIN ContentsOf(c) <=> vfs_find_file(c, n) # {})
<1>1. Lists(c, ContentsOf(c)) /\ c \in Context
  BY ContentsList DEF Sound
<1>2. DOMAIN ContentsOf(c) = {c.files[i].name : i \in 1..Len(c.files)}
  BY <1>1 DEF Lists
<1> QED
  BY <1>1, <1>2, FoundIs

LEMMA CreateAnswers ==
    ASSUME ~IOErrors, NEW c, Sound(c), Unique(c), NEW n \in Name,
           NEW r \in vfs_create_empty_file(c, n)
    PROVE  /\ Right(c, r, FS!Created(ContentsOf(c), n))
           /\ r.ok => n \notin DOMAIN ContentsOf(c)
<1>1. Creates(c, r, n)
  BY CreateIs
<1>2. CASE r = Failed(c)
  BY <1>2 DEF Failed, Right
<1>3. ASSUME NEW e, e.name = n, Adds(c, r.ctx, e), r.ok
      PROVE  /\ Right(c, r, FS!Created(ContentsOf(c), n))
             /\ n \notin DOMAIN ContentsOf(c)
  <2>1. Lists(c, ContentsOf(c))
    BY ContentsList
  <2>2. Lists(r.ctx, FS!Created(ContentsOf(c), n)) /\ n \notin DOMAIN ContentsOf(c)
    BY <1>3, <2>1, AddsLists
  <2>3. Sound(r.ctx) /\ Unique(r.ctx)
    BY <1>3, AddsPreserves DEF Preserves
  <2>4. ContentsOf(r.ctx) = FS!Created(ContentsOf(c), n)
    BY <2>2, <2>3, ContentsOnly
  <2> QED
    BY <1>3, <2>2, <2>4 DEF Right
<1> QED
  BY <1>1, <1>2, <1>3 DEF Creates

LEMMA DeleteAnswers ==
    ASSUME ~IOErrors, NEW c, Sound(c), Unique(c), Apart(c), NEW n, NEW r, Deletes(c, r, n)
    PROVE  /\ Right(c, r, FS!Unlinked(ContentsOf(c), n))
           /\ r.ok => n \in DOMAIN ContentsOf(c)
<1>1. CASE ~r.ok /\ r.ctx = c
  BY <1>1 DEF Right
<1>2. ASSUME r.ok, NEW i \in vfs_find_file(c, n), Drops(c, r.ctx, i)
      PROVE  /\ Right(c, r, FS!Unlinked(ContentsOf(c), n))
             /\ n \in DOMAIN ContentsOf(c)
  <2>1. Lists(c, ContentsOf(c)) /\ c \in Context
    BY ContentsList DEF Sound
  <2>2. c.files[i].name = n
    BY <2>1, FoundIs
  <2>3. Lists(r.ctx, FS!Unlinked(ContentsOf(c), n))
    BY <1>2, <2>1, <2>2, DropsLists
  <2>4. Sound(r.ctx) /\ Unique(r.ctx)
    BY <1>2, DropsPreserves DEF Preserves
  <2>5. ContentsOf(r.ctx) = FS!Unlinked(ContentsOf(c), n)
    BY <2>3, <2>4, ContentsOnly
  <2> QED
    BY <1>2, <2>5, ListedIs DEF Right
<1> QED
  BY <1>1, <1>2 DEF Deletes

LEMMA RenameAnswers ==
    ASSUME ~IOErrors, NEW c, Sound(c), Unique(c), Apart(c), NEW from, NEW to, from # to,
           NEW r, Renames(c, r, from, to)
    PROVE  /\ Right(c, r, FS!Renamed(ContentsOf(c), from, to))
           /\ r.ok => from \in DOMAIN ContentsOf(c)
<1>1. Lists(c, ContentsOf(c)) /\ c \in Context
  BY ContentsList DEF Sound
<1>2. CASE r = Failed(c)
  BY <1>2 DEF Failed, Right
<1>3. Sound(r.ctx) /\ Unique(r.ctx)
  BY RenamePreserves DEF Preserves
<1>4. ASSUME r.ok, vfs_find_file(c, to) = {}, NEW i \in vfs_find_file(c, from),
             Names(c, r.ctx, i, to)
      PROVE  /\ Right(c, r, FS!Renamed(ContentsOf(c), from, to))
             /\ from \in DOMAIN ContentsOf(c)
  <2>1. c.files[i].name = from /\ \A j \in 1..Len(c.files) : c.files[j].name # to
    BY <1>1, <1>4, FoundIs
  <2>2. Lists(r.ctx, FS!Renamed(ContentsOf(c), from, to))
    BY <1>1, <1>4, <2>1, NamesLists
  <2>3. ContentsOf(r.ctx) = FS!Renamed(ContentsOf(c), from, to)
    BY <1>3, <2>2, ContentsOnly
  <2> QED
    BY <1>4, <2>3, ListedIs DEF Right
<1>5. ASSUME r.ok, vfs_find_file(c, to) # {}, NEW d, Deletes(c, d, to),
             NEW i \in vfs_find_file(d.ctx, from), Names(d.ctx, r.ctx, i, to)
      PROVE  /\ Right(c, r, FS!Renamed(ContentsOf(c), from, to))
             /\ from \in DOMAIN ContentsOf(c)
  <2>1. PICK k \in vfs_find_file(c, to) : Drops(c, d.ctx, k)
    BY <1>5 DEF Deletes
  <2>2. c.files[k].name = to
    BY <1>1, FoundIs
  <2>3. PICK E : E = FS!Unlinked(ContentsOf(c), to)
    OBVIOUS
  <2>4. Lists(d.ctx, E)
    BY <1>1, <2>1, <2>2, <2>3, DropsLists
  <2>5. Sound(d.ctx) /\ Unique(d.ctx)
    BY <2>1, DropsPreserves DEF Preserves
  <2>6. \A j \in 1..Len(d.ctx.files) : d.ctx.files[j].name # to
    BY <2>1, <2>2, DropsFrees
  <2>7. i \in 1..Len(d.ctx.files) /\ d.ctx.files[i].name = from
    BY <2>5, FoundIs DEF Sound
  <2>8. Lists(r.ctx, FS!Renamed(E, from, to))
    BY <1>5, <2>4, <2>5, <2>6, <2>7, NamesLists
  <2>9. from \in DOMAIN ContentsOf(c)
    <3>1. from \in DOMAIN E
      BY <2>4, <2>7 DEF Lists
    <3> QED
      BY <2>3, <3>1 DEF FS!Unlinked
  <2>10. FS!Renamed(E, from, to) = FS!Renamed(ContentsOf(c), from, to)
    BY <2>3, <2>9, RenamedOver
  <2>11. ContentsOf(r.ctx) = FS!Renamed(ContentsOf(c), from, to)
    BY <1>3, <2>8, <2>10, ContentsOnly
  <2> QED
    BY <1>5, <2>9, <2>11 DEF Right
<1> QED
  BY <1>2, <1>4, <1>5 DEF Renames, Failed

LEMMA TruncatedSame ==
    ASSUME NEW D, NEW n \in DOMAIN D, D = [k \in DOMAIN D |-> D[k]], NEW size \in Nat,
           Len(D[n]) = size, D[n] = [k \in 1..size |-> D[n][k]]
    PROVE  FS!Truncated(D, n, size) = D
<1>1. PICK t : t = D[n]
  OBVIOUS
<1>2. [k \in 1..size |-> IF k <= Len(t) THEN t[k] ELSE Zero] = t
  <2>1. \A k \in 1..size : k <= Len(t)
    BY <1>1
  <2>2. t = [k \in 1..size |-> t[k]]
    BY <1>1
  <2>3. [k \in 1..size |-> IF k <= Len(t) THEN t[k] ELSE Zero] = [k \in 1..size |-> t[k]]
    BY <2>1
  <2> QED
    BY <2>2, <2>3
<1>3. FS!Truncated(D, n, size) = [D EXCEPT ![n] = t]
  BY <1>1, <1>2 DEF FS!Truncated
<1>4. [D EXCEPT ![n] = t] = D
  BY <1>1
<1> QED
  BY <1>3, <1>4

\* What a resize that succeeds does to the directory.
LEMMA ResizeLists ==
    ASSUME ~IOErrors, NEW c, Sound(c), Unique(c), Apart(c), FreeZero(c), NEW n,
           NEW size \in Nat, NEW r, Resizes(c, r, n, size), r.ok, Apart(r.ctx), ~Slid(c, r.ctx),
           NEW D, Lists(c, D)
    PROVE  Lists(r.ctx, FS!Truncated(D, n, size)) /\ n \in DOMAIN D
<1>1. c \in Context /\ DOMAIN c.files = 1..Len(c.files)
  BY SoundIs
<1>2. ASSUME NEW i \in vfs_find_file(c, n)
      PROVE  i \in 1..Len(c.files) /\ c.files[i].name = n /\ n \in DOMAIN D
             /\ D[n] = Stored(c, i)
  <2>1. i \in 1..Len(c.files) /\ c.files[i].name = n
    BY <1>1, FoundIs
  <2> QED
    BY <2>1 DEF Lists
<1>3. ASSUME r.ctx = c, NEW i \in vfs_find_file(c, n), c.files[i].size = size
      PROVE  Lists(r.ctx, FS!Truncated(D, n, size)) /\ n \in DOMAIN D
  <2>1. /\ D[n] = [k \in 1..size |-> c.area[c.files[i].offset + k - 1]]
        /\ Len(D[n]) = size
    <3>1. i \in 1..Len(c.files) /\ D[n] = Stored(c, i)
      BY <1>2, <1>3
    <3>2. /\ Stored(c, i) = [k \in 1..c.files[i].size |-> c.area[c.files[i].offset + k - 1]]
          /\ Len(Stored(c, i)) = c.files[i].size
      BY <3>1, StoredIs
    <3> QED
      BY <1>3, <3>1, <3>2
  <2>2. D = [k \in DOMAIN D |-> D[k]]
    BY DEF Lists
  <2>3. D[n] = [k \in 1..size |-> D[n][k]]
    BY <2>1
  <2>4. FS!Truncated(D, n, size) = D
    BY <1>2, <2>1, <2>2, <2>3, TruncatedSame
  <2> QED
    BY <1>2, <1>3, <2>4
<1>4. ASSUME NEW i \in vfs_find_file(c, n), NEW o \in Nat,
             Sizes(c, r.ctx, i, o, size), Carries(c, r.ctx, i, o, size)
      PROVE  Lists(r.ctx, FS!Truncated(D, n, size)) /\ n \in DOMAIN D
  <2>1. Sound(r.ctx)
    BY ResizePreserves DEF Preserves
  <2>2. Len(r.ctx.files) = Len(c.files) /\ r.ctx.files[i].offset = o
    BY <1>4 DEF Sizes, Others
  <2>3. o = c.files[i].offset \/ Bytes(c.files[i]) \cap (o..o + c.files[i].size - 1) = {}
    BY <1>1, <1>2, <2>2 DEF Slid
  <2>4. Lists(r.ctx, FS!Truncated(D, c.files[i].name, size))
    BY <1>4, <2>1, <2>3, SizesLists
  <2> QED
    BY <1>2, <2>4
<1> QED
  BY <1>3, <1>4 DEF Resizes

LEMMA ResizeAnswers ==
    ASSUME ~IOErrors, NEW c, Sound(c), Unique(c), Apart(c), FreeZero(c), NEW n,
           NEW size \in Nat, NEW r, Resizes(c, r, n, size)
    PROVE  /\ Right(c, r, FS!Truncated(ContentsOf(c), n, size))
           /\ r.ok => n \in DOMAIN ContentsOf(c)
<1>1. Lists(c, ContentsOf(c))
  BY ContentsList
<1>2. Sound(r.ctx) /\ Unique(r.ctx)
  BY ResizePreserves DEF Preserves
<1>3. CASE ~r.ok
  <2>1. r.ctx = c
    BY <1>3 DEF Resizes
  <2> QED
    BY <1>3, <2>1 DEF Right
<1>4. ASSUME r.ok, Apart(r.ctx), ~Slid(c, r.ctx)
      PROVE  ContentsOf(r.ctx) = FS!Truncated(ContentsOf(c), n, size)
  <2>1. Lists(r.ctx, FS!Truncated(ContentsOf(c), n, size))
    BY <1>1, <1>4, ResizeLists
  <2> QED
    BY <1>2, <2>1, ContentsOnly
<1>5. r.ok => n \in DOMAIN ContentsOf(c)
  <2>1. r.ok => vfs_find_file(c, n) # {}
    BY DEF Resizes
  <2> QED
    BY <2>1, ListedIs
<1> QED
  BY <1>2, <1>3, <1>4, <1>5, OverlapIs DEF Right

\* What tsuki_write does on a volume whose accesses succeed: g is the volume it
\* writes to, grown if need be.
Grown(c, g, n, end) ==
    \/ g = c
    \/ \E r : /\ Resizes(c, r, n, end) /\ r.ok /\ g = r.ctx
              /\ \A i \in vfs_find_file(c, n) : end > c.files[i].size

Writes(c, r, n, off, s) ==
    \/ ~r.ok /\ r.ctx = c
    \/ /\ r.ok
       /\ \E g : /\ Grown(c, g, n, off + Len(s))
                 /\ \E k \in vfs_find_file(g, n) :
                      /\ off + Len(s) <= g.files[k].size
                      /\ Keeps(g, r.ctx) /\ r.ctx.disk = g.disk
                      /\ r.ctx.area = Put(g.area, g.files[k].offset + off, s)

LEMMA TsukiIs ==
    ASSUME ~IOErrors, NEW c, Sound(c), NEW n, NEW off \in Nat, NEW s \in Seq(Content),
           NEW r \in tsuki_write(c, n, off, s)
    PROVE  Writes(c, r, n, off, s)
<1> DEFINE into(q) == UNION {vfs_write_data(q, q.files[i].offset + off, s) :
                               i \in vfs_find_file(q, n)}
           grow == \A i \in vfs_find_file(c, n) : off + Len(s) > c.files[i].size
<1>1. c \in Context /\ Len(s) \in Nat /\ off + Len(s) \in Nat
  <2>1. Len(s) \in Nat
    BY LenProperties
  <2> QED
    BY <2>1 DEF Sound
<1>2. ASSUME NEW g, Sound(g), Grown(c, g, n, off + Len(s)), r \in into(g),
             \A k \in vfs_find_file(g, n) : off + Len(s) <= g.files[k].size
      PROVE  Writes(c, r, n, off, s)
  <2>1. PICK k \in vfs_find_file(g, n) : r \in vfs_write_data(g, g.files[k].offset + off, s)
    BY <1>2
  <2>2. g \in Context /\ k \in 1..Len(g.files)
    BY <1>2, FoundIs DEF Sound
  <2>3. g.files[k].offset + off \in Nat
    BY <1>2, <2>2, PlacedIs
  <2>4. PICK o \in Nat : o = g.files[k].offset + off
    BY <2>3
  <2>5. r \in vfs_write_data(g, o, s)
    BY <2>1, <2>4
  <2>6. Keeps(g, r.ctx) /\ r.ok /\ r.ctx.area = Put(g.area, o, s) /\ r.ctx.disk = g.disk
    BY <2>2, <2>5, WriteIs
  <2> QED
    BY <1>2, <2>1, <2>4, <2>6 DEF Writes
<1>3. CASE r = Failed(c)
  BY <1>3 DEF Failed, Writes
<1>4. ASSUME NEW g \in vfs_resize_file(c, n, off + Len(s)), grow,
             r \in IF g.ok THEN into(g.ctx) ELSE {g}
      PROVE  Writes(c, r, n, off, s)
  <2> HIDE DEF into
  <2>1. Resizes(c, g, n, off + Len(s))
    BY <1>1, ResizeIs
  <2>2. Sound(g.ctx)
    BY <2>1, ResizePreserves DEF Preserves
  <2>3. CASE g.ok
    <3>1. ASSUME NEW k \in vfs_find_file(g.ctx, n)
          PROVE  off + Len(s) <= g.ctx.files[k].size
      BY <1>1, <2>1, <2>3, ResizedTo
    <3>2. Grown(c, g.ctx, n, off + Len(s))
      BY <1>4, <2>1, <2>3 DEF Grown
    <3> QED
      BY <1>2, <1>4, <2>2, <2>3, <3>1, <3>2
  <2>4. CASE ~g.ok
    <3>1. g.ctx = c
      BY <2>1, <2>4 DEF Resizes
    <3> QED
      BY <1>4, <2>4, <3>1 DEF Writes
  <2> QED
    BY <2>3, <2>4
<1>5. ASSUME ~grow, r \in into(c)
      PROVE  Writes(c, r, n, off, s)
  <2>1. PICK i \in vfs_find_file(c, n) : ~(off + Len(s) > c.files[i].size)
    BY <1>5
  <2>2. c.files[i].size \in Nat
    BY <1>1, FoundIs, PlacedIs
  <2>3. off + Len(s) <= c.files[i].size
    BY <1>1, <2>1, <2>2
  <2>4. \A k \in vfs_find_file(c, n) : off + Len(s) <= c.files[k].size
    BY <1>1, <2>3, FoundOnce
  <2>5. Grown(c, c, n, off + Len(s))
    BY DEF Grown
  <2> HIDE DEF into
  <2> QED
    BY <1>2, <1>5, <2>4, <2>5
<1>6. \/ r = Failed(c)
      \/ grow /\ \E g \in vfs_resize_file(c, n, off + Len(s)) :
                    r \in IF g.ok THEN into(g.ctx) ELSE {g}
      \/ ~grow /\ r \in into(c)
  BY DEF tsuki_write
<1> QED
  BY <1>3, <1>4, <1>5, <1>6

LEMMA GrownPreserves ==
    ASSUME NEW c, Sound(c), NEW g, NEW n, NEW end, Grown(c, g, n, end)
    PROVE  Preserves(c, g)
BY StaysPreserves, ResizePreserves DEF Grown

LEMMA WriteAnswers ==
    ASSUME ~IOErrors, NEW c, Sound(c), Unique(c), Apart(c), FreeZero(c), NEW n,
           NEW off \in Nat, NEW len \in Nat, NEW d \in Content, NEW r,
           Writes(c, r, n, off, [k \in 1..len |-> d])
    PROVE  /\ Right(c, r, FS!Written(ContentsOf(c), n, off, len, d))
           /\ r.ok => n \in DOMAIN ContentsOf(c)
<1>1. PICK s : s = [k \in 1..len |-> d]
  OBVIOUS
<1>2. Len(s) = len
  BY <1>1
<1>3. PICK end \in Nat : end = off + len
  OBVIOUS
<1>4. PICK D : D = ContentsOf(c)
  OBVIOUS
<1>5. Lists(c, D) /\ c \in Context
  BY <1>4, ContentsList DEF Sound
<1>6. CASE ~r.ok /\ r.ctx = c
  BY <1>6 DEF Right
<1>7. ASSUME r.ok, NEW g, Grown(c, g, n, end), NEW k \in vfs_find_file(g, n),
             end <= g.files[k].size, Keeps(g, r.ctx),
             r.ctx.area = Put(g.area, g.files[k].offset + off, s)
      PROVE  /\ Right(c, r, FS!Written(D, n, off, len, d))
             /\ n \in DOMAIN D
  <2>1. Sound(g) /\ Unique(g)
    BY <1>7, GrownPreserves DEF Preserves
  <2>2. r.ctx \in Context /\ r.ctx.files = g.files /\ r.ctx.used_sectors = g.used_sectors
    BY <1>7 DEF Keeps
  <2>3. Sound(r.ctx) /\ Unique(r.ctx) /\ (Apart(r.ctx) => Apart(g))
    BY <2>1, <2>2 DEF Sound, Unique, Apart
  <2>4. Slid(c, g) => Slid(c, r.ctx)
    BY <2>2 DEF Slid
  <2>5. k \in 1..Len(g.files) /\ g.files[k].name = n
    BY <2>1, FoundIs DEF Sound
  <2>6. ASSUME NEW E, Lists(g, E), Apart(g)
        PROVE  Lists(r.ctx, FS!Written(E, n, off, len, d))
    <3>1. off + len <= g.files[k].size
      BY <1>3, <1>7
    <3>2. r.ctx.area = Put(g.area, g.files[k].offset + off, [j \in 1..len |-> d])
      BY <1>1, <1>7
    <3> QED
      BY <1>7, <2>1, <2>5, <2>6, <3>1, <3>2, WrittenLists
  <2>7. CASE g = c
    <3>1. n \in DOMAIN D
      BY <1>5, <2>5, <2>7 DEF Lists
    <3>2. Lists(r.ctx, FS!Written(D, n, off, len, d))
      BY <1>5, <2>6, <2>7
    <3>3. ContentsOf(r.ctx) = FS!Written(D, n, off, len, d)
      BY <2>3, <3>2, ContentsOnly
    <3> QED
      BY <1>7, <3>1, <3>3 DEF Right
  <2>8. ASSUME NEW z, Resizes(c, z, n, end), z.ok, g = z.ctx,
               \A i \in vfs_find_file(c, n) : end > c.files[i].size
        PROVE  /\ Right(c, r, FS!Written(D, n, off, len, d))
               /\ n \in DOMAIN D
    <3>1. n \in DOMAIN D
      BY <1>4, <2>8, ResizeAnswers
    <3>2. ASSUME Apart(r.ctx), ~Slid(c, r.ctx)
          PROVE  ContentsOf(r.ctx) = FS!Written(D, n, off, len, d)
      <4>1. Apart(g) /\ ~Slid(c, g)
        BY <2>3, <2>4, <3>2
      <4>2. PICK E : E = FS!Truncated(D, n, end)
        OBVIOUS
      <4>3. Lists(g, E)
        BY <1>5, <2>8, <4>1, <4>2, ResizeLists
      <4>4. Lists(r.ctx, FS!Written(E, n, off, len, d))
        BY <2>6, <4>1, <4>3
      <4>5. Len(D[n]) \in Nat /\ off + len > Len(D[n]) /\ D = [j \in DOMAIN D |-> D[j]]
        <5>1. PICK i \in vfs_find_file(c, n) : TRUE
          BY <1>4, <3>1, ListedIs
        <5>2. i \in 1..Len(c.files) /\ c.files[i].name = n
          BY <1>5, FoundIs
        <5>3. D[n] = Stored(c, i) /\ D = [j \in DOMAIN D |-> D[j]]
          BY <1>5, <5>2 DEF Lists
        <5>4. Len(D[n]) = c.files[i].size /\ c.files[i].size \in Nat
          BY <5>2, <5>3, StoredIs, PlacedIs
        <5> QED
          BY <1>3, <2>8, <5>3, <5>4
      <4>6. FS!Written(E, n, off, len, d) = FS!Written(D, n, off, len, d)
        BY <1>3, <3>1, <4>2, <4>5, WrittenGrown
      <4>7. Lists(r.ctx, FS!Written(D, n, off, len, d))
        BY <4>4, <4>6
      <4> QED
        BY <2>3, <4>7, ContentsOnly
    <3> QED
      BY <1>7, <2>3, <3>1, <3>2, OverlapIs DEF Right
  <2> QED
    BY <1>7, <2>7, <2>8 DEF Grown
<1>8. Writes(c, r, n, off, s) /\ off + Len(s) = end
  BY <1>1, <1>2, <1>3
<1> QED
  BY <1>4, <1>6, <1>7, <1>8 DEF Writes

LEMMA AnswersRight ==
    ASSUME ~IOErrors, Inv, NamesUnique, FreeSpaceIsZero, NoOverlap
    PROVE  /\ Sound(Ctx) /\ Unique(Ctx) /\ Apart(Ctx) /\ FreeZero(Ctx)
           /\ \A n \in Name : \A r \in vfs_create_empty_file(Ctx, n) :
                 /\ Right(Ctx, r, FS!Created(Contents, n))
                 /\ r.ok => n \notin DOMAIN Contents
           /\ \A n \in Name, off \in Nat, d \in Data : \A len \in Nat :
                 \A r \in tsuki_write(Ctx, n, off, [k \in 1..len |-> d]) :
                    /\ Right(Ctx, r, FS!Written(Contents, n, off, len, d))
                    /\ r.ok => n \in DOMAIN Contents
           /\ \A n \in Name, size \in Nat : \A r \in vfs_resize_file(Ctx, n, size) :
                 /\ Right(Ctx, r, FS!Truncated(Contents, n, size))
                 /\ r.ok => n \in DOMAIN Contents
           /\ \A n \in Name : \A r \in vfs_delete_file(Ctx, n) :
                 /\ Right(Ctx, r, FS!Unlinked(Contents, n))
                 /\ r.ok => n \in DOMAIN Contents
           /\ \A n \in Name : \A to \in Name \ {n} : \A r \in vfs_rename_file(Ctx, n, to) :
                 /\ Right(Ctx, r, FS!Renamed(Contents, n, to))
                 /\ r.ok => n \in DOMAIN Contents
<1>1. Sound(Ctx)
  BY DEF Inv
<1>2. Unique(Ctx) /\ FreeZero(Ctx)
  BY UniqueIs, FreeZeroIs
<1>3. Apart(Ctx)
  BY <1>1, OverlapIs DEF NoOverlap
<1>4. PICK c : c = Ctx
  OBVIOUS
<1>5. Sound(c) /\ Unique(c) /\ FreeZero(c) /\ Apart(c) /\ ContentsOf(c) = Contents
  BY <1>1, <1>2, <1>3, <1>4 DEF Contents
<1>6. ASSUME NEW n \in Name, NEW r \in vfs_create_empty_file(c, n)
      PROVE  /\ Right(c, r, FS!Created(ContentsOf(c), n))
             /\ r.ok => n \notin DOMAIN ContentsOf(c)
  BY <1>5, CreateAnswers
<1>7. ASSUME NEW n \in Name, NEW off \in Nat, NEW d \in Data, NEW len \in Nat,
             NEW r \in tsuki_write(c, n, off, [k \in 1..len |-> d])
      PROVE  /\ Right(c, r, FS!Written(ContentsOf(c), n, off, len, d))
             /\ r.ok => n \in DOMAIN ContentsOf(c)
  <2>1. PICK s : s = [k \in 1..len |-> d]
    OBVIOUS
  <2>2. s \in Seq(Content)
    BY <2>1 DEF Content
  <2>3. Writes(c, r, n, off, s)
    BY <1>5, <1>7, <2>1, <2>2, TsukiIs
  <2>4. d \in Content
    BY DEF Content
  <2> QED
    BY <1>5, <2>1, <2>3, <2>4, WriteAnswers
<1>8. ASSUME NEW n \in Name, NEW size \in Nat, NEW r \in vfs_resize_file(c, n, size)
      PROVE  /\ Right(c, r, FS!Truncated(ContentsOf(c), n, size))
             /\ r.ok => n \in DOMAIN ContentsOf(c)
  <2>1. Resizes(c, r, n, size)
    BY <1>5, ResizeIs
  <2> QED
    BY <1>5, <2>1, ResizeAnswers
<1>9. ASSUME NEW n \in Name, NEW r \in vfs_delete_file(c, n)
      PROVE  /\ Right(c, r, FS!Unlinked(ContentsOf(c), n))
             /\ r.ok => n \in DOMAIN ContentsOf(c)
  <2>1. Deletes(c, r, n)
    BY <1>5, DeleteIs
  <2> QED
    BY <1>5, <2>1, DeleteAnswers
<1>10. ASSUME NEW n \in Name, NEW to \in Name \ {n}, NEW r \in vfs_rename_file(c, n, to)
       PROVE  /\ Right(c, r, FS!Renamed(ContentsOf(c), n, to))
              /\ r.ok => n \in DOMAIN ContentsOf(c)
  <2>1. Renames(c, r, n, to)
    BY <1>5, RenameIs
  <2> QED
    BY <1>5, <2>1, RenameAnswers
<1>11. /\ \A n \in Name : \A r \in vfs_create_empty_file(Ctx, n) :
                 /\ Right(Ctx, r, FS!Created(Contents, n))
                 /\ r.ok => n \notin DOMAIN Contents
       /\ \A n \in Name : \A r \in vfs_delete_file(Ctx, n) :
                 /\ Right(Ctx, r, FS!Unlinked(Contents, n))
                 /\ r.ok => n \in DOMAIN Contents
  BY <1>4, <1>5, <1>6, <1>9
<1>12. \A n \in Name, off \in Nat, d \in Data : \A len \in Nat :
          \A r \in tsuki_write(Ctx, n, off, [k \in 1..len |-> d]) :
             /\ Right(Ctx, r, FS!Written(Contents, n, off, len, d))
             /\ r.ok => n \in DOMAIN Contents
  BY <1>4, <1>5, <1>7
<1>13. \A n \in Name, size \in Nat : \A r \in vfs_resize_file(Ctx, n, size) :
          /\ Right(Ctx, r, FS!Truncated(Contents, n, size))
          /\ r.ok => n \in DOMAIN Contents
  BY <1>4, <1>5, <1>8
<1>14. \A n \in Name : \A to \in Name \ {n} : \A r \in vfs_rename_file(Ctx, n, to) :
          /\ Right(Ctx, r, FS!Renamed(Contents, n, to))
          /\ r.ok => n \in DOMAIN Contents
  BY <1>4, <1>5, <1>10
<1> QED
  BY <1>1, <1>2, <1>3, <1>11, <1>12, <1>13, <1>14

\* On a volume whose accesses succeed, an operation that answers success has done to
\* the directory what was asked, and one that answers failure nothing, unless files
\* overlap after it or one was copied onto itself.
THEOREM AnswersHoldTrue ==
    ASSUME ~IOErrors
    PROVE  Spec => []AnswersAreTrue
<1>1. Inv /\ NamesUnique /\ FreeSpaceIsZero => AnswersAreTrue
  <2>1. SUFFICES ASSUME Inv, NamesUnique, FreeSpaceIsZero, NoOverlap, NEW n \in Name
        PROVE
          /\ \A r \in vfs_create_empty_file(Ctx, n) : Right(Ctx, r, FS!Created(Contents, n))
          /\ \A off \in 0 .. MaxSize - 1, d \in Data :
               \A len \in 1 .. MaxSize - off :
                  \A r \in tsuki_write(Ctx, n, off, [k \in 1 .. len |-> d]) :
                     Right(Ctx, r, FS!Written(Contents, n, off, len, d))
          /\ \A size \in 0 .. MaxSize :
               \A r \in vfs_resize_file(Ctx, n, size) : Right(Ctx, r, FS!Truncated(Contents, n, size))
          /\ \A r \in vfs_delete_file(Ctx, n) : Right(Ctx, r, FS!Unlinked(Contents, n))
          /\ \A to \in Name \ {n} :
               \A r \in vfs_rename_file(Ctx, n, to) : Right(Ctx, r, FS!Renamed(Contents, n, to))
    BY DEF AnswersAreTrue, Right, Contents
  <2>2. /\ \A off \in 0..MaxSize - 1 : off \in Nat /\ \A len \in 1..MaxSize - off : len \in Nat
        /\ \A size \in 0..MaxSize : size \in Nat
    BY SizesAre
  <2>3. \A r \in vfs_create_empty_file(Ctx, n) : Right(Ctx, r, FS!Created(Contents, n))
    BY <2>1, AnswersRight
  <2>4. \A off \in 0 .. MaxSize - 1, d \in Data :
          \A len \in 1 .. MaxSize - off :
             \A r \in tsuki_write(Ctx, n, off, [k \in 1 .. len |-> d]) :
                Right(Ctx, r, FS!Written(Contents, n, off, len, d))
    BY <2>1, <2>2, AnswersRight
  <2>5. \A size \in 0 .. MaxSize :
          \A r \in vfs_resize_file(Ctx, n, size) : Right(Ctx, r, FS!Truncated(Contents, n, size))
    BY <2>1, <2>2, AnswersRight
  <2>6. \A r \in vfs_delete_file(Ctx, n) : Right(Ctx, r, FS!Unlinked(Contents, n))
    BY <2>1, AnswersRight
  <2>7. \A to \in Name \ {n} :
          \A r \in vfs_rename_file(Ctx, n, to) : Right(Ctx, r, FS!Renamed(Contents, n, to))
    BY <2>1, AnswersRight
  <2> QED
    BY <2>3, <2>4, <2>5, <2>6, <2>7
<1> QED
  BY <1>1, Invariance, NamesStayUnique, FreeSpaceStaysZero, PTL

\* ContentsOf depends on the table and on what reads return.
View(F, a) == [n \in {F[i].name : i \in DOMAIN F} |->
                 LET f == F[CHOOSE i \in {i \in DOMAIN F : /\ F[i].name = n
                                                        /\ \A j \in 1 .. i - 1 : F[j].name # n} : TRUE]
                 IN [k \in 1 .. f.size |-> a[f.offset + k - 1]]]

LEMMA ViewIs == \A c : ContentsOf(c) = View(c.files, c.area)
BY DEF ContentsOf, View, vfs_find_file, vfs_read_data

LEMMA SameContents ==
    ASSUME NEW c, NEW q, q.files = c.files, q.area = c.area
    PROVE  ContentsOf(q) = ContentsOf(c)
BY ViewIs

\* A step of the file system, seen as a step of the directory.
LEMMA StepIs ==
    ASSUME ~IOErrors, Inv, NamesUnique, FreeSpaceIsZero, [Next]_vars,
           NoOverlap, NoOverlap', ~Slid(Ctx, Ctx')
    PROVE  FS!Next \/ Contents' = Contents
<1>1. Sound(Ctx)
  BY DEF Inv
<1>2. ASSUME NEW r, Preserves(Ctx, r.ctx), Becomes(r.ctx), NEW done, Right(Ctx, r, done)
      PROVE  Contents' = IF r.ok THEN done ELSE Contents
  <2>1. r.ctx \in Context
    BY <1>2 DEF Preserves, Sound
  <2>2. Ctx' = r.ctx
    BY <1>2, <2>1, Becoming
  <2>3. Contents' = ContentsOf(r.ctx) /\ ~OverlapIn(r.ctx) /\ ~Slid(Ctx, r.ctx)
    BY <2>2 DEF Contents, NoOverlap
  <2> QED
    BY <1>2, <2>3 DEF Right, Contents
<1>3. ASSUME NEW n \in Name, Create(n)
      PROVE  FS!Next \/ Contents' = Contents
  <2>1. PICK r \in vfs_create_empty_file(Ctx, n) : Becomes(r.ctx)
    BY <1>3 DEF Create
  <2>2. Preserves(Ctx, r.ctx)
    BY <1>1, <2>1, CreateIs, CreatePreserves
  <2>3. Right(Ctx, r, FS!Created(Contents, n)) /\ (r.ok => n \notin DOMAIN Contents)
    BY <2>1, AnswersRight
  <2>4. Contents' = IF r.ok THEN FS!Created(Contents, n) ELSE Contents
    BY <1>2, <2>1, <2>2, <2>3
  <2>5. r.ok => FS!Create(n)
    BY <2>3, <2>4 DEF FS!Create, FS!Names
  <2> QED
    BY <2>4, <2>5 DEF FS!Next
<1>4. ASSUME NEW n \in Name, NEW off \in 0..MaxSize - 1, NEW d \in Data,
             NEW len \in 1..MaxSize - off, Write(n, off, len, d)
      PROVE  FS!Next \/ Contents' = Contents
  <2>1. PICK r \in tsuki_write(Ctx, n, off, [k \in 1..len |-> d]) : Becomes(r.ctx)
    BY <1>4 DEF Write
  <2>2. off \in Nat /\ len \in Nat /\ len \in 1..MaxSize
    BY SizesAre
  <2>3. [k \in 1..len |-> d] \in Seq(Content)
    BY <2>2 DEF Content
  <2>4. Preserves(Ctx, r.ctx)
    BY <1>1, <2>1, <2>2, <2>3, WritePreserves
  <2>5. Right(Ctx, r, FS!Written(Contents, n, off, len, d)) /\ (r.ok => n \in DOMAIN Contents)
    BY <2>1, <2>2, AnswersRight
  <2>6. Contents' = IF r.ok THEN FS!Written(Contents, n, off, len, d) ELSE Contents
    BY <1>2, <2>1, <2>4, <2>5
  <2>7. r.ok => FS!Write(n, off, len, d)
    BY <2>5, <2>6 DEF FS!Write, FS!Names
  <2> QED
    BY <2>2, <2>6, <2>7 DEF FS!Next
<1>5. ASSUME NEW n \in Name, NEW size \in 0..MaxSize, Truncate(n, size)
      PROVE  FS!Next \/ Contents' = Contents
  <2>1. PICK r \in vfs_resize_file(Ctx, n, size) : Becomes(r.ctx)
    BY <1>5 DEF Truncate
  <2>2. size \in Nat
    BY SizesAre
  <2>3. Resizes(Ctx, r, n, size)
    BY <1>1, <2>1, <2>2, ResizeIs
  <2>4. Preserves(Ctx, r.ctx)
    BY <1>1, <2>3, ResizePreserves
  <2>5. Right(Ctx, r, FS!Truncated(Contents, n, size)) /\ (r.ok => n \in DOMAIN Contents)
    BY <2>1, <2>2, AnswersRight
  <2>6. Contents' = IF r.ok THEN FS!Truncated(Contents, n, size) ELSE Contents
    BY <1>2, <2>1, <2>4, <2>5
  <2>7. r.ok => FS!Truncate(n, size)
    BY <2>5, <2>6 DEF FS!Truncate, FS!Names
  <2> QED
    BY <2>6, <2>7 DEF FS!Next
<1>6. ASSUME NEW n \in Name, Unlink(n)
      PROVE  FS!Next \/ Contents' = Contents
  <2>1. PICK r \in vfs_delete_file(Ctx, n) : Becomes(r.ctx)
    BY <1>6 DEF Unlink
  <2>2. Deletes(Ctx, r, n)
    BY <1>1, <2>1, DeleteIs
  <2>3. Preserves(Ctx, r.ctx)
    BY <1>1, <2>2, DeletePreserves
  <2>4. Right(Ctx, r, FS!Unlinked(Contents, n)) /\ (r.ok => n \in DOMAIN Contents)
    BY <2>1, AnswersRight
  <2>5. Contents' = IF r.ok THEN FS!Unlinked(Contents, n) ELSE Contents
    BY <1>2, <2>1, <2>3, <2>4
  <2>6. r.ok => FS!Unlink(n)
    BY <2>4, <2>5 DEF FS!Unlink, FS!Names
  <2> QED
    BY <2>5, <2>6 DEF FS!Next
<1>7. ASSUME NEW n \in Name, NEW to \in Name, Rename(n, to)
      PROVE  FS!Next \/ Contents' = Contents
  <2>1. PICK r \in vfs_rename_file(Ctx, n, to) : Becomes(r.ctx)
    BY <1>7 DEF Rename
  <2>2. to \in Name \ {n}
    BY <1>7 DEF Rename
  <2>3. Renames(Ctx, r, n, to)
    BY <1>1, <2>1, RenameIs
  <2>4. Preserves(Ctx, r.ctx)
    BY <1>1, <2>3, RenamePreserves
  <2>5. Right(Ctx, r, FS!Renamed(Contents, n, to)) /\ (r.ok => n \in DOMAIN Contents)
    BY <2>1, <2>2, AnswersRight
  <2>6. Contents' = IF r.ok THEN FS!Renamed(Contents, n, to) ELSE Contents
    BY <1>2, <2>1, <2>4, <2>5
  <2>7. r.ok => FS!Rename(n, to)
    BY <2>5, <2>6 DEF FS!Rename, FS!Names
  <2> QED
    BY <2>2, <2>6, <2>7 DEF FS!Next
<1>8. ASSUME files' = files, area' = area
      PROVE  Contents' = Contents
  <2>1. Ctx'.files = Ctx.files /\ Ctx'.area = Ctx.area
    BY <1>8 DEF Ctx
  <2> QED
    BY <2>1, SameContents DEF Contents
<1>9. ASSUME NEW p, WriteBack(p)
      PROVE  Contents' = Contents
  BY <1>8, <1>9 DEF WriteBack
<1>10. CASE UNCHANGED vars
  BY <1>8, <1>10 DEF vars
<1> QED
  BY <1>3, <1>4, <1>5, <1>6, <1>7, <1>9, <1>10 DEF Next

\* Where files do not overlap and none was copied onto itself, every step of the
\* volume is a step of the directory of FileSystem, or leaves the directory alone.
THEOREM StepsAreFileSystem ==
    ASSUME ~IOErrors
    PROVE  Spec => StepsImplementFileSystem
<1>1. (Inv /\ NamesUnique /\ FreeSpaceIsZero) /\ [Next]_vars =>
         [NoOverlap /\ NoOverlap' /\ ~Slid(Ctx, Ctx') => [FS!Next]_Contents]_vars
  BY StepIs
<1> QED
  BY <1>1, Invariance, NamesStayUnique, FreeSpaceStaysZero, PTL
     DEF Spec, StepsImplementFileSystem

------------------------------------------------------------------------------
(* What is given up *)

\* What a removed or relocated entry leaves behind is zero on the disk.
Wipes(c, q) ==
    /\ Len(q.files) < Len(c.files) =>
          \A i \in 1..Len(c.files) : \A x \in Bytes(c.files[i]) :
             InFile(q, x) \/ q.disk[x] = Zero
    /\ Len(q.files) = Len(c.files) =>
          \A i \in 1..Len(c.files) :
             q.files[i].offset # c.files[i].offset =>
                \A x \in Bytes(c.files[i]) : Phys(x) < Phys(End(c.files[i])) => q.disk[x] = Zero

LEMMA StaysWipes ==
    ASSUME NEW c, Sound(c), NEW q, Len(q.files) = Len(c.files),
           \A i \in 1..Len(c.files) : q.files[i].offset = c.files[i].offset
    PROVE  Wipes(c, q)
<1>1. PICK n \in Nat : n = Len(c.files)
  BY SoundIs
<1>2. ~(Len(q.files) < Len(c.files))
  BY <1>1
<1> QED
  BY <1>2 DEF Wipes

LEMMA AddsWipes ==
    ASSUME NEW c, Sound(c), NEW q, NEW e, Adds(c, q, e)
    PROVE  Wipes(c, q)
<1>1. PICK n \in Nat : n = Len(c.files)
  BY SoundIs
<1>2. Len(q.files) = n + 1
  <2>1. e \in File /\ q.files = Append(c.files, e) /\ c.files \in Seq(File)
    BY SoundIs DEF Adds, Placed
  <2> QED
    BY <1>1, <2>1, AppendProperties
<1>3. ~(Len(q.files) < Len(c.files)) /\ Len(q.files) # Len(c.files)
  BY <1>1, <1>2
<1> QED
  BY <1>3 DEF Wipes

LEMMA DropsWipes ==
    ASSUME ~IOErrors, NEW c, Sound(c), NEW q, NEW i, Drops(c, q, i)
    PROVE  Wipes(c, q) /\ Len(q.files) # Len(c.files)
<1>1. PICK n \in Nat : n = Len(c.files)
  BY SoundIs
<1>2. Len(q.files) = n - 1
  BY <1>1 DEF Drops, Without
<1>3. i \in 1..Len(c.files) /\ Stay(c, q, i)
  BY DropsKeeps
<1>4. ASSUME NEW k \in 1..Len(c.files), NEW x \in Bytes(c.files[k])
      PROVE  InFile(q, x) \/ q.disk[x] = Zero
  <2>1. CASE k = i
    <3>1. x \in Cell
      BY BytesIn
    <3> QED
      BY <1>4, <2>1, <3>1 DEF Drops
  <2>2. CASE k # i
    <3>1. PICK j \in 1..Len(q.files) : q.files[j] = c.files[k]
      BY <1>3, <2>2 DEF Stay
    <3> QED
      BY <1>4, <3>1 DEF InFile
  <2> QED
    BY <2>1, <2>2
<1>5. Len(q.files) # Len(c.files)
  BY <1>1, <1>2
<1> QED
  BY <1>4, <1>5 DEF Wipes

LEMMA NamesWipes ==
    ASSUME NEW c, Sound(c), NEW d, Wipes(c, d), NEW q, NEW i, NEW n, Names(d, q, i, n)
    PROVE  Wipes(c, q)
<1>1. /\ i \in 1..Len(d.files) /\ Len(q.files) = Len(d.files) /\ q.disk = d.disk
      /\ \A j \in 1..Len(d.files) : /\ q.files[j].offset = d.files[j].offset
                                    /\ q.files[j].size = d.files[j].size
  BY DEF Names, Others
<1>2. \A j \in 1..Len(d.files) : Bytes(q.files[j]) = Bytes(d.files[j])
  BY <1>1 DEF Bytes
<1>3. \A x : InFile(d, x) => InFile(q, x)
  BY <1>1, <1>2 DEF InFile
<1> QED
  BY <1>1, <1>3 DEF Wipes

LEMMA DeleteWipes ==
    ASSUME ~IOErrors, NEW c, Sound(c), NEW r, NEW n, Deletes(c, r, n)
    PROVE  Wipes(c, r.ctx)
BY StaysWipes, DropsWipes DEF Deletes

LEMMA RenameWipes ==
    ASSUME ~IOErrors, NEW c, Sound(c), NEW r, NEW from, NEW to, Renames(c, r, from, to)
    PROVE  Wipes(c, r.ctx)
<1>1. Wipes(c, c)
  BY StaysWipes
<1>2. CASE r = Failed(c)
  BY <1>1, <1>2 DEF Failed
<1>3. ASSUME NEW d, Wipes(c, d), NEW i, Names(d, r.ctx, i, to)
      PROVE  Wipes(c, r.ctx)
  BY <1>3, NamesWipes
<1>4. ASSUME NEW d, Deletes(c, d, to)
      PROVE  Wipes(c, d.ctx)
  BY <1>4, DeleteWipes
<1> QED
  BY <1>1, <1>2, <1>3, <1>4 DEF Renames

LEMMA ResizeWipes ==
    ASSUME ~IOErrors, NEW c, Sound(c), NEW n, NEW size \in Nat, NEW r, Resizes(c, r, n, size)
    PROVE  Wipes(c, r.ctx)
<1>1. CASE r.ctx = c
  BY <1>1, StaysWipes
<1>2. ASSUME NEW i \in vfs_find_file(c, n), NEW o \in Nat,
             Sizes(c, r.ctx, i, o, size), Carries(c, r.ctx, i, o, size)
      PROVE  Wipes(c, r.ctx)
  <2>1. PICK l \in Nat : l = Len(c.files)
    BY SoundIs
  <2>2. /\ i \in 1..l /\ Len(r.ctx.files) = l /\ r.ctx.files[i].offset = o
        /\ \A j \in 1..l : j # i => r.ctx.files[j] = c.files[j]
    BY <1>2, <2>1 DEF Sizes, Others
  <2>3. Copied(c, r.ctx, i, o, 0)
    <3>1. 0 \in Nat /\ 0 <= c.files[i].size /\ 0 <= size
      BY <2>1, <2>2, PlacedIs
    <3> QED
      BY <1>2, <3>1 DEF Carries
  <2>4. ASSUME NEW j \in 1..l, r.ctx.files[j].offset # c.files[j].offset,
               NEW x \in Bytes(c.files[j]), Phys(x) < Phys(End(c.files[j]))
        PROVE  r.ctx.disk[x] = Zero
    <3>1. j = i
      BY <2>2, <2>4
    <3> QED
      BY <2>2, <2>3, <2>4, <3>1 DEF Copied
  <2>5. ~(Len(r.ctx.files) < Len(c.files))
    BY <2>1, <2>2
  <2> QED
    BY <2>1, <2>4, <2>5 DEF Wipes
<1> QED
  BY <1>1, <1>2 DEF Resizes

LEMMA WriteWipes ==
    ASSUME ~IOErrors, NEW c, Sound(c), NEW n, NEW off \in Nat, NEW s \in Seq(Content),
           NEW r, Writes(c, r, n, off, s)
    PROVE  Wipes(c, r.ctx)
<1>1. CASE r.ctx = c
  BY <1>1, StaysWipes
<1>2. PICK end \in Nat : end = off + Len(s)
  <2>1. Len(s) \in Nat
    BY LenProperties
  <2> QED
    BY <2>1
<1>3. ASSUME NEW g, Grown(c, g, n, end)
      PROVE  Wipes(c, g)
  BY <1>3, StaysWipes, ResizeWipes DEF Grown
<1>4. ASSUME NEW g, Wipes(c, g), r.ctx.files = g.files, r.ctx.disk = g.disk
      PROVE  Wipes(c, r.ctx)
  BY <1>4 DEF Wipes, InFile
<1> QED
  BY <1>1, <1>2, <1>3, <1>4 DEF Writes, Keeps

LEMMA StepWipes ==
    ASSUME ~IOErrors, Inv, Next
    PROVE  Wipes(Ctx, Ctx')
<1>1. Sound(Ctx)
  BY DEF Inv
<1>2. ASSUME NEW q, Wipes(Ctx, q), Preserves(Ctx, q), Becomes(q)
      PROVE  Wipes(Ctx, Ctx')
  <2>1. q \in Context
    BY <1>2 DEF Preserves, Sound
  <2> QED
    BY <1>2, <2>1, Becoming
<1>3. ASSUME NEW n \in Name, Create(n)
      PROVE  Wipes(Ctx, Ctx')
  <2>1. PICK r \in vfs_create_empty_file(Ctx, n) : Becomes(r.ctx)
    BY <1>3 DEF Create
  <2>2. Creates(Ctx, r, n)
    BY <1>1, <2>1, CreateIs
  <2>3. Wipes(Ctx, r.ctx)
    BY <1>1, <2>2, StaysWipes, AddsWipes DEF Creates, Failed
  <2> QED
    BY <1>1, <1>2, <2>1, <2>2, <2>3, CreatePreserves
<1>4. ASSUME NEW n \in Name, NEW off \in 0..MaxSize - 1, NEW d \in Data,
             NEW len \in 1..MaxSize - off, Write(n, off, len, d)
      PROVE  Wipes(Ctx, Ctx')
  <2>1. PICK s : s = [k \in 1..len |-> d]
    OBVIOUS
  <2>2. PICK r \in tsuki_write(Ctx, n, off, s) : Becomes(r.ctx)
    BY <1>4, <2>1 DEF Write
  <2>3. off \in Nat /\ len \in Nat
    BY SizesAre
  <2>4. s \in Seq(Content)
    BY <2>1, <2>3 DEF Content
  <2>5. Preserves(Ctx, r.ctx)
    BY <1>1, <2>2, <2>3, <2>4, WritePreserves
  <2>6. Writes(Ctx, r, n, off, s)
    BY <1>1, <2>2, <2>3, <2>4, TsukiIs
  <2>7. Wipes(Ctx, r.ctx)
    BY <1>1, <2>3, <2>4, <2>6, WriteWipes
  <2> QED
    BY <1>2, <2>2, <2>5, <2>7
<1>5. ASSUME NEW n \in Name, NEW size \in 0..MaxSize, Truncate(n, size)
      PROVE  Wipes(Ctx, Ctx')
  <2>1. PICK r \in vfs_resize_file(Ctx, n, size) : Becomes(r.ctx)
    BY <1>5 DEF Truncate
  <2>2. size \in Nat
    BY SizesAre
  <2>3. Resizes(Ctx, r, n, size)
    BY <1>1, <2>1, <2>2, ResizeIs
  <2> QED
    BY <1>1, <1>2, <2>1, <2>2, <2>3, ResizePreserves, ResizeWipes
<1>6. ASSUME NEW n \in Name, Unlink(n)
      PROVE  Wipes(Ctx, Ctx')
  <2>1. PICK r \in vfs_delete_file(Ctx, n) : Becomes(r.ctx)
    BY <1>6 DEF Unlink
  <2>2. Deletes(Ctx, r, n)
    BY <1>1, <2>1, DeleteIs
  <2> QED
    BY <1>1, <1>2, <2>1, <2>2, DeletePreserves, DeleteWipes
<1>7. ASSUME NEW n \in Name, NEW to \in Name, Rename(n, to)
      PROVE  Wipes(Ctx, Ctx')
  <2>1. PICK r \in vfs_rename_file(Ctx, n, to) : Becomes(r.ctx)
    BY <1>7 DEF Rename
  <2>2. Renames(Ctx, r, n, to)
    BY <1>1, <2>1, RenameIs
  <2> QED
    BY <1>1, <1>2, <2>1, <2>2, RenamePreserves, RenameWipes
<1>8. ASSUME NEW p, WriteBack(p)
      PROVE  Wipes(Ctx, Ctx')
  <2>1. Ctx'.files = Ctx.files
    BY <1>8 DEF WriteBack, Ctx
  <2> QED
    BY <1>1, <2>1, StaysWipes
<1> QED
  BY <1>3, <1>4, <1>5, <1>6, <1>7, <1>8 DEF Next

\* On a volume whose accesses succeed, what a deleted file held is zero on the disk
\* when the deletion returns, unless another file holds the cell, and what a relocated
\* file leaves behind is, but for the last sector of the cache it reached into.
THEOREM VacatedIsWiped ==
    ASSUME ~IOErrors
    PROVE  Spec => VacatedIsWipedOnDisk
<1> DEFINE Free(i) == Bytes(files[i]) \ UNION {Bytes(files'[j]) : j \in DOMAIN files'}
<1>1. ASSUME Inv, Next
      PROVE  \A i \in DOMAIN files :
                /\ Len(files') < Len(files) => \A x \in Free(i) : disk'[x] = Zero
                /\ Moves(i) => \A x \in Free(i) : Phys(x) < Phys(End(files[i])) => disk'[x] = Zero
  <2>1. Wipes(Ctx, Ctx')
    BY <1>1, StepWipes
  <2>2. Ctx'.files = files' /\ Ctx'.disk = disk'
    BY DEF Ctx
  <2>3. DOMAIN files = 1..Len(files) /\ Ctx.files = files
    BY <1>1, CtxType, CtxIs
  <2>4. DOMAIN files' = 1..Len(files')
    <3>1. Sound(Ctx')
      BY <1>1, StepPreserves DEF Preserves
    <3> QED
      BY <2>2, <3>1, SoundIs
  <2>5. ASSUME NEW i \in DOMAIN files, NEW x \in Free(i)
        PROVE  x \in Bytes(files[i]) /\ ~InFile(Ctx', x)
    BY <2>2, <2>4, <2>5 DEF InFile
  <2>6. ASSUME NEW i \in DOMAIN files, Len(files') < Len(files), NEW x \in Free(i)
        PROVE  disk'[x] = Zero
    BY <2>1, <2>2, <2>3, <2>5, <2>6 DEF Wipes
  <2>7. ASSUME NEW i \in DOMAIN files, Moves(i), NEW x \in Free(i),
               Phys(x) < Phys(End(files[i]))
        PROVE  disk'[x] = Zero
    BY <2>1, <2>2, <2>3, <2>5, <2>7 DEF Wipes, Moves
  <2> QED
    BY <2>6, <2>7
<1>2. Inv /\ [Next]_vars =>
        [\A i \in DOMAIN files :
           LET f == files[i]
               free == Bytes(f) \ UNION {Bytes(files'[j]) : j \in DOMAIN files'}
           IN /\ Len(files') < Len(files) => \A c \in free : disk'[c] = Zero
              /\ Moves(i) => \A c \in free : Phys(c) < Phys(End(f)) => disk'[c] = Zero]_vars
  BY <1>1
<1> QED
  BY <1>2, Invariance, PTL DEF Spec, VacatedIsWipedOnDisk
================================================================================
