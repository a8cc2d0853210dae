--------------------------------- MODULE Vfs ---------------------------------
(***************************************************************************)
(* The file system of src/engine/graph.c, driven by the FUSE operations of *)
(* src/engine/plot.c (one thread: fuse_loop).                              *)
(*                                                                         *)
(* The unit of size and offset is a cell; a VFS sector has SectorCells of  *)
(* them.  The header and the file table end inside a sector of the cache   *)
(* (36 bytes into sector 76), so user data starts at a Base that is not a  *)
(* multiple of SectorCells, and a sector of a file lies in two of the      *)
(* cache.                                                                  *)
(*                                                                         *)
(* The state of a volume is a record [files, used_sectors, area, disk]:    *)
(* vfs_context_t, what reading through the cache returns, and what the     *)
(* file holds below the cache.  A function of graph.c is the set of its    *)
(* outcomes [ok, ctx] from such a state.  With IOErrors any access to a    *)
(* sector may fail.                                                        *)
(***************************************************************************)
EXTENDS Integers, Sequences, FiniteSets

LOCAL INSTANCE FiniteSetsExt
LOCAL INSTANCE SequencesExt

CONSTANTS Name,           \* file names
          Data,           \* contents of a cell, Zero not among them
          Zero,
          SectorCells,    \* VFS_SECTOR_SIZE
          Base,           \* end of the header and the file table
          total_sectors,  \* header.total_sectors
          MaxFiles,       \* VFS_MAX_FILES
          MaxSize,        \* bound on the size a user asks for
          IOErrors        \* may accesses to the volume fail?

ASSUME SizesAssumption == /\ SectorCells \in Nat \ {0}
                          /\ Base \in Nat
                          /\ total_sectors \in Nat
                          /\ MaxFiles \in Nat
                          /\ MaxSize \in Nat
ASSUME ZeroAssumption == Zero \notin Data
ASSUME IOErrorsAssumption == IOErrors \in BOOLEAN

VARIABLES files,          \* files[0 .. file_count - 1], in table order
          used_sectors,   \* header.used_sectors
          area,           \* the cells as reads return them
          disk            \* the cells as last written to the volume file

vars == <<files, used_sectors, area, disk>>

DataEnd == Base + total_sectors * SectorCells

Cell == 0 .. DataEnd - 1

\* The sector of the cache a cell is in.
Phys(c) == c \div SectorCells

File == [name : Name, offset : Nat, size : Nat, sectors : Nat]

Init == /\ files = <<>>
        /\ used_sectors = 0
        /\ area = [c \in Cell |-> Zero]
        /\ disk = area

Ctx == [files |-> files, used_sectors |-> used_sectors, area |-> area, disk |-> disk]

Becomes(c) == /\ files' = c.files
              /\ used_sectors' = c.used_sectors
              /\ area' = c.area
              /\ disk' = c.disk

Done(c) == [ok |-> TRUE, ctx |-> c]
Failed(c) == [ok |-> FALSE, ctx |-> c]

SectorsFor(size) == (size + SectorCells - 1) \div SectorCells

End(f) == f.offset + f.sectors * SectorCells

------------------------------------------------------------------------------
(* Data *)

Zeros(n) == [k \in 1 .. n |-> Zero]

Put(a, o, s) == [c \in Cell |-> IF c \in o .. o + Len(s) - 1 THEN s[c - o + 1] ELSE a[c]]

\* It goes sector by sector of the cache and stops at the first that fails.
vfs_write_data(c, o, s) ==
    {Done([c EXCEPT !.area = Put(@, o, s)])}
    \cup {Failed([c EXCEPT !.area = Put(@, o, SubSeq(s, 1, k))]) :
            k \in {k \in 0 .. Len(s) - 1 : IOErrors /\ (k = 0 \/ (o + k) % SectorCells = 0)}}

vfs_read_data(c, o, len) == [k \in 1 .. len |-> c.area[o + k - 1]]

\* The loops of vfs_resize_file that write zeros in chunks of 4096 bytes and ignore
\* what each vfs_write_data returns: of a chunk, all, nothing, or the part in its
\* first sector is written.
zero_chunks(c, o, len) ==
    LET chunk(j) == {x \in o .. o + len - 1 : (x - o) \div SectorCells = j}
        writes(j) == {chunk(j)} \cup
                     (IF IOErrors THEN {{}, {x \in chunk(j) : Phys(x) = Phys(o + j * SectorCells)}}
                      ELSE {})
    IN {[c EXCEPT !.area = [x \in Cell |-> IF x \in T THEN Zero ELSE @[x]]] :
          T \in {T \in SUBSET (o .. o + len - 1) :
                   \A j \in 0 .. (len - 1) \div SectorCells : T \cap chunk(j) \in writes(j)}}

\* cache_flush_sector on the sectors of P, whose result the callers ignore.
flush_sectors(c, P) ==
    {[c EXCEPT !.disk = [x \in Cell |-> IF Phys(x) \in Q THEN c.area[x] ELSE @[x]]] :
       Q \in IF IOErrors THEN SUBSET P ELSE {P}}

------------------------------------------------------------------------------
(* Allocation *)

\* current_pos when the scan of the sorted table F reaches offset o.
Reached(F, o) == Max({Base} \cup {End(f) : f \in {g \in F : g.offset < o}})

\* Mutant: the data area is taken to be one sector longer.
GapsTooFar(F) == {g \in {[start |-> Reached(F, o), end |-> o] :
                           o \in {f.offset : f \in F} \cup {DataEnd + SectorCells}} : g.start < g.end}

Gaps(F) == {g \in {[start |-> Reached(F, o), end |-> o] :
                     o \in {f.offset : f \in F} \cup {DataEnd}} : g.start < g.end}

\* The smallest gap that is large enough; the first of several.
BestFit(F, size) ==
    LET Length(g) == g.end - g.start
        fits == {g \in Gaps(F) : Length(g) >= size}
    IN {g \in fits : \A h \in fits : \/ Length(g) < Length(h)
                                     \/ Length(g) = Length(h) /\ g.start <= h.start}

EntriesOf(c) == {c.files[i] : i \in DOMAIN c.files}

vfs_find_file(c, n) ==
    {i \in DOMAIN c.files : /\ c.files[i].name = n
                            /\ \A j \in 1 .. i - 1 : c.files[j].name # n}

\* vfs_add_file with no data, the only use of it.
vfs_create_empty_file(c, n) ==
    LET F == EntriesOf(c)
        best == BestFit(F, 0)
        offset == IF best # {} THEN (CHOOSE g \in best : TRUE).start ELSE Reached(F, DataEnd + 1)
    IN IF Len(c.files) >= MaxFiles \/ vfs_find_file(c, n) # {} \/ offset > DataEnd
       THEN {Failed(c)}
       ELSE {Done([c EXCEPT !.files =
                     Append(@, [name |-> n, offset |-> offset, size |-> 0, sectors |-> 0])])}

\* Mutant: the sectors of a deleted file stay counted.
DeletedStillCounted(c, n) ==
    IF vfs_find_file(c, n) = {} THEN {Failed(c)}
    ELSE {Done([c EXCEPT !.files = RemoveAt(@, i)]) : i \in vfs_find_file(c, n)}

\* Mutant: the flush counts sectors from the first one, as vfs_resize_file does.
DeletedFlushShort(c, n) ==
    IF vfs_find_file(c, n) = {} THEN {Failed(c)}
    ELSE UNION {
        LET f == c.files[i]
        IN UNION {{Done([q EXCEPT !.files = RemoveAt(@, i), !.used_sectors = @ - f.sectors]) :
                     q \in flush_sectors(w.ctx, Phys(f.offset) .. Phys(f.offset) + f.sectors - 1)}
                    : w \in vfs_write_data(c, f.offset, Zeros(f.size))}
        : i \in vfs_find_file(c, n)}

\* The wipe must succeed; the flush of the wiped sectors need not.
vfs_delete_file(c, n) ==
    IF vfs_find_file(c, n) = {} THEN {Failed(c)}
    ELSE UNION {
        LET f == c.files[i]
            wiped == Phys(f.offset) .. (f.offset + f.size + SectorCells - 1) \div SectorCells - 1
        IN UNION {IF ~w.ok THEN {w}
                  ELSE {Done([q EXCEPT !.files = RemoveAt(@, i),
                                       !.used_sectors = @ - f.sectors]) :
                          q \in flush_sectors(w.ctx, wiped)}
                    : w \in vfs_write_data(c, f.offset, Zeros(f.size))}
        : i \in vfs_find_file(c, n)}

Renamed(c, from, to) ==
    {Done([c EXCEPT !.files[i].name = to]) : i \in vfs_find_file(c, from)}

\* Mutant: the file that has the new name is not deleted.
RenamedOnly(c, from, to) ==
    IF vfs_find_file(c, from) = {} THEN {Failed(c)} ELSE Renamed(c, from, to)

\* The index is looked up again after the deletion, whose result is ignored.
vfs_rename_file(c, from, to) ==
    IF vfs_find_file(c, from) = {} THEN {Failed(c)}
    ELSE IF vfs_find_file(c, to) = {} THEN Renamed(c, from, to)
    ELSE UNION {Renamed(r.ctx, from, to) : r \in vfs_delete_file(c, to)}

\* Mutant: a file that shrinks gives all its old sectors back.
ResizedAllBack(c, i, offset, size) ==
    LET f == c.files[i]
        kept == IF SectorsFor(size) < f.sectors THEN 0 ELSE SectorsFor(size)
    IN [c EXCEPT !.files[i] = [name |-> f.name, offset |-> offset, size |-> size,
                               sectors |-> SectorsFor(size)],
                 !.used_sectors = @ + kept - f.sectors]

\* The entry with its new place and size.
Resized(c, i, offset, size) ==
    LET f == c.files[i]
    IN [c EXCEPT !.files[i] = [name |-> f.name, offset |-> offset, size |-> size,
                               sectors |-> SectorsFor(size)],
                 !.used_sectors = @ + SectorsFor(size) - f.sectors]

\* Mutant: what is cut off is not wiped.
WithinSectorsUnwiped(c, i, size) == {Done(Resized(c, i, c.files[i].offset, size))}

WithinSectors(c, i, size) ==
    LET f == c.files[i]
    IN {Done(Resized(q, i, f.offset, size)) :
          q \in IF size < f.size THEN zero_chunks(c, f.offset + size, f.size - size) ELSE {c}}

\* Mutant: an entry that starts where the file ends does not bound it.
NextOffsetBeyond(c, i) ==
    Min({DataEnd} \cup {c.files[j].offset : j \in {j \in DOMAIN c.files \ {i} :
                                                     c.files[j].offset > End(c.files[i])}})

\* Where the contiguous free space after the file ends.
NextOffset(c, i) ==
    Min({DataEnd} \cup {c.files[j].offset : j \in {j \in DOMAIN c.files \ {i} :
                                                     c.files[j].offset >= End(c.files[i])}})

ExpandedInPlace(c, i, size) ==
    LET f == c.files[i]
    IN {Done(q) : q \in zero_chunks(Resized(c, i, f.offset, size), f.offset + f.size, size - f.size)}

\* The entries the gap scan of a relocation takes for occupied.  A sorted entry is
\* recognised by its offset: the first of the table with that offset stands for it.
Occupied(c, i) ==
    LET first(k) == Min({j \in DOMAIN c.files : c.files[j].offset = c.files[k].offset})
    IN {c.files[k] : k \in {k \in DOMAIN c.files : first(k) # i}}

\* Mutant: the old place is wiped before it is copied.
MovedAfterWipe(c, i, start, size) ==
    LET f == c.files[i]
    IN {Done(Resized([c EXCEPT !.area = Put(@, f.offset, Zeros(f.size))], i, start, size))}

\* Copy, wipe, flush what the wipe touched, update the entry, zero the rest.
MovedTo(c, i, start, size) ==
    LET f == c.files[i]
        old_sectors == Phys(f.offset) .. Phys(f.offset) + f.sectors - 1
        finish(q) == {Done(z) : z \in zero_chunks(Resized(q, i, start, size), start + f.size,
                                                  size - f.size)}
        wipe(q) == UNION {flush_sectors(w.ctx, old_sectors) :
                            w \in vfs_write_data(q, f.offset, Zeros(f.size))}
    IN IF f.size = 0 THEN finish(c)
       ELSE (IF IOErrors THEN {Failed(c)} ELSE {})
            \cup UNION {IF w.ok THEN UNION {finish(q) : q \in wipe(w.ctx)} ELSE {w} :
                          w \in vfs_write_data(c, start, vfs_read_data(c, f.offset, f.size))}

Relocated(c, i, size) ==
    LET best == BestFit(Occupied(c, i), SectorsFor(size) * SectorCells)
    IN IF best = {} THEN {Failed(c)} ELSE UNION {MovedTo(c, i, g.start, size) : g \in best}

vfs_resize_file(c, n, size) ==
    IF vfs_find_file(c, n) = {} THEN {Failed(c)}
    ELSE UNION {
        LET f == c.files[i]
            additional == SectorsFor(size) - f.sectors
        IN CASE size = f.size -> {Done(c)}
             [] size # f.size /\ additional <= 0 -> WithinSectors(c, i, size)
             [] additional > 0 /\ c.used_sectors + additional > total_sectors -> {Failed(c)}
             [] OTHER -> IF NextOffset(c, i) - End(f) >= additional * SectorCells
                         THEN ExpandedInPlace(c, i, size)
                         ELSE Relocated(c, i, size)
        : i \in vfs_find_file(c, n)}

\* Mutant: the data goes to where the file was before it grew.
WrittenToOldPlace(c, n, off, s) ==
    UNION {LET f == c.files[i]
           IN IF off + Len(s) > f.size
              THEN UNION {vfs_write_data(r.ctx, f.offset + off, s) :
                            r \in {r \in vfs_resize_file(c, n, off + Len(s)) : r.ok}}
              ELSE vfs_write_data(c, f.offset + off, s)
           : i \in vfs_find_file(c, n)}

\* Grow if the write ends beyond the file, look the entry up again, write.
tsuki_write(c, n, off, s) ==
    LET into(q) == UNION {vfs_write_data(q, q.files[i].offset + off, s) : i \in vfs_find_file(q, n)}
        grow == \A i \in vfs_find_file(c, n) : off + Len(s) > c.files[i].size
    IN IF vfs_find_file(c, n) = {} THEN {Failed(c)}
       ELSE IF grow THEN UNION {IF r.ok THEN into(r.ctx) ELSE {r} :
                                  r \in vfs_resize_file(c, n, off + Len(s))}
       ELSE into(c)

------------------------------------------------------------------------------
(* Operations *)

Create(n) == \E r \in vfs_create_empty_file(Ctx, n) : Becomes(r.ctx)

Write(n, off, len, d) ==
    \E r \in tsuki_write(Ctx, n, off, [k \in 1 .. len |-> d]) : Becomes(r.ctx)

Truncate(n, size) == \E r \in vfs_resize_file(Ctx, n, size) : Becomes(r.ctx)

Unlink(n) == \E r \in vfs_delete_file(Ctx, n) : Becomes(r.ctx)

\* The kernel answers a rename of a file to itself without asking the daemon.
Rename(from, to) == from # to /\ \E r \in vfs_rename_file(Ctx, from, to) : Becomes(r.ctx)

\* The cache writes a sector back when it evicts it.
WriteBack(p) ==
    /\ disk' = [c \in Cell |-> IF Phys(c) = p THEN area[c] ELSE disk[c]]
    /\ UNCHANGED <<files, used_sectors, area>>

Next == \/ \E n \in Name :
              \/ Create(n)
              \/ \E off \in 0 .. MaxSize - 1, d \in Data :
                    \E len \in 1 .. MaxSize - off : Write(n, off, len, d)
              \/ \E size \in 0 .. MaxSize : Truncate(n, size)
              \/ Unlink(n)
              \/ \E to \in Name : Rename(n, to)
        \/ \E p \in 0 .. Phys(DataEnd) : WriteBack(p)

Spec == Init /\ [][Next]_vars
------------------------------------------------------------------------------
(* Properties *)

\* The table is one vfs_context_t can hold; used_sectors, which is unsigned, never
\* goes below zero.
TypeOK == /\ files \in Seq(File) /\ Len(files) <= MaxFiles
          /\ used_sectors \in Nat
          /\ area \in [Cell -> Data \cup {Zero}]
          /\ disk \in [Cell -> Data \cup {Zero}]

\* Every file has the sectors its size needs, inside the data area: growth,
\* relocation and the misaligned end never let one reach into the file table or
\* past the last sector.
InsideDataArea ==
    \A i \in DOMAIN files : /\ files[i].sectors = SectorsFor(files[i].size)
                            /\ files[i].offset >= Base
                            /\ End(files[i]) <= DataEnd

Total(F) == LET sum[k \in 0 .. Len(F)] == IF k = 0 THEN 0 ELSE sum[k - 1] + F[k].sectors
            IN sum[Len(F)]

\* header.used_sectors, on which all space checks rely, is kept by addition and
\* subtraction only; it stays the sum over the table and within the volume.
Accounting == /\ used_sectors = Total(files)
              /\ used_sectors <= total_sectors

\* Creations and renames never give two entries one name (vfs_find_file would hide
\* the second for ever).  Needs a volume without I/O errors: vfs_rename_file
\* ignores a failed deletion.
NamesUnique == \A i, j \in DOMAIN files : files[i].name = files[j].name => i = j

Extent(f) == f.offset .. End(f) - 1
Bytes(f) == f.offset .. f.offset + f.size - 1

OverlapIn(c) ==
    \E i, j \in DOMAIN c.files : i # j /\ Extent(c.files[i]) \cap Extent(c.files[j]) # {}

\* No two files share a cell.
NoOverlap == ~OverlapIn(Ctx)

Grows(i) == Len(files') = Len(files) /\ files'[i].size > files[i].size

\* Files come to overlap in one way only: an empty file gets data while its offset
\* lies in the extent of a file with data.
OverlapStartsAtEmptyFile ==
    [][NoOverlap /\ ~NoOverlap' =>
         \E i, j \in DOMAIN files : /\ i # j /\ Grows(i) /\ files[i].sectors = 0
                                   /\ files[i].offset \in Extent(files[j])]_vars

\* All that is not in a file reads as zero, the tail of a last sector too:
\* vfs_resize_file relies on it when a file grows within its sectors, and what was
\* deleted or truncated cannot be read again.
FreeSpaceIsZero ==
    \A c \in Cell : c \in UNION {Bytes(files[i]) : i \in DOMAIN files} \/ area[c] = Zero

\* Only vfs_resize_file moves an entry.
Moves(i) == Len(files') = Len(files) /\ files'[i].offset # files[i].offset

\* When the operation that gives cells up returns, the volume file does not hold
\* their content any more (graph.c:304, 620): a deleted file as a whole, a relocated
\* one but for the last sector of the cache it reached into.
VacatedIsWipedOnDisk ==
    [][\A i \in DOMAIN files :
         LET f == files[i]
             free == Bytes(f) \ UNION {Bytes(files'[j]) : j \in DOMAIN files'}
         IN /\ Len(files') < Len(files) => \A c \in free : disk'[c] = Zero
            /\ Moves(i) => \A c \in free : Phys(c) < Phys(End(f)) => disk'[c] = Zero]_vars

\* The directory a user sees.
ContentsOf(c) == [n \in {c.files[i].name : i \in DOMAIN c.files} |->
                    LET f == c.files[CHOOSE i \in vfs_find_file(c, n) : TRUE]
                    IN vfs_read_data(c, f.offset, f.size)]

Contents == ContentsOf(Ctx)

FS == INSTANCE FileSystem WITH content <- Contents

\* A file is relocated to a place that its old one overlaps.
Slid(c, r) ==
    \E i \in DOMAIN c.files :
       LET f == c.files[i]
       IN /\ Len(r.files) = Len(c.files) /\ r.files[i].offset # f.offset
          /\ Bytes(f) \cap (r.files[i].offset .. r.files[i].offset + f.size - 1) # {}

\* Every operation does to the directory what FileSystem says or nothing, from and
\* to states in which files do not overlap, unless a file slides over itself.
StepsImplementFileSystem ==
    [][NoOverlap /\ NoOverlap' /\ ~Slid(Ctx, Ctx') => [FS!Next]_Contents]_vars

\* The same without the exception: relocation copies all the data first
\* (graph.c:600) and wipes only the old place (graph.c:618).
RelocationKeepsContents ==
    [][NoOverlap /\ NoOverlap' => [FS!Next]_Contents]_vars

\* What an operation answers is true.  One that succeeds has done to the directory
\* just what was asked, to the last byte of the right file; one that fails has done
\* nothing.  Needs a volume without I/O errors, and the two exceptions above.
AnswersAreTrue ==
    LET right(r, done) == \/ OverlapIn(r.ctx) \/ Slid(Ctx, r.ctx)
                          \/ ContentsOf(r.ctx) = IF r.ok THEN done ELSE Contents
    IN NoOverlap =>
       \A n \in Name :
          /\ \A r \in vfs_create_empty_file(Ctx, n) : right(r, FS!Created(Contents, n))
          /\ \A off \in 0 .. MaxSize - 1, d \in Data :
               \A len \in 1 .. MaxSize - off :
                  \A r \in tsuki_write(Ctx, n, off, [k \in 1 .. len |-> d]) :
                     right(r, FS!Written(Contents, n, off, len, d))
          /\ \A size \in 0 .. MaxSize :
               \A r \in vfs_resize_file(Ctx, n, size) : right(r, FS!Truncated(Contents, n, size))
          /\ \A r \in vfs_delete_file(Ctx, n) : right(r, FS!Unlinked(Contents, n))
          /\ \A to \in Name \ {n} :
               \A r \in vfs_rename_file(Ctx, n, to) : right(r, FS!Renamed(Contents, n, to))
==============================================================================
