# Verification of Axis Secret

TLA+ modules, TLC runs and TLAPS proofs about this repository: a calculator that
starts an encrypted-volume manager ("Axis"). Paths below are relative to the
repository; `engine/` stands for `src/engine/`.

## The system

| Component | Code | State | Operations | Talks to |
|---|---|---|---|---|
| Sector cache | `engine/numcache.c` | slots (sector, plaintext, dirty, pinned, last access), a C stream | init, destroy, get, mark dirty, pin, flush one, flush all | the volume file; called by the file system and the volume |
| File system | `engine/graph.c` | file table (up to 1024 entries), `used_sectors` | create, delete, rename, resize, read, write | the cache; called by FUSE |
| FUSE operations | `engine/plot.c` | daemon thread, `g_vol`, mount point | getattr, read, write, truncate, create, unlink, rename; start and stop | the file system, from its own thread |
| Volume | `engine/functions.c` | keys, cache, file handle, `is_open`, `is_mounted` | create, open, close, mount, unmount | cache, crypto, progress callback |
| Panel | `engine/panel.c` | one `current_volume` | button handlers, quit | volume and FUSE; re-entered through `progress_callback` |
| Launcher | `src/gui.c`, `engine/module_main.c` | child process, token | launch, check token | the panel's process |
| Calculator | `src/gui.c`, `src/calc.c`, `src/history.c` | expression, last result, flags, display, history of 50 and its file | keys, evaluate, toggle sign, recall, clear | the parser, the history, the launcher |
| Kyber-1024 | `engine/solver/` | none | key generation, encapsulation, decapsulation | called by the crypto glue |
| Hashing | `engine/solver/fips202.c`, `symmetric-shake.c` | a sponge of 25 lanes | absorb, squeeze | called by Kyber |
| Crypto glue | `engine/polynomial.c`, `engine/helpers.c` | none | derive, wrap, encapsulate | libsodium, OpenSSL, Kyber; called by the volume |

What is hard in it:

* *failure*: every layer above the stream ignores some error of the layer below
  (`cache_destroy`, `vfs_delete_file`'s flush, `vfs_resize_file`'s wipes,
  `volume_close` in the panel);
* *ordering*: stdio reports a failed write late and to another operation; a
  relocation copies, wipes, flushes and updates the table in that order;
* *crash*: sectors reach the file when they are evicted, the file table when the
  volume is closed;
* *re-entrance*: progress callbacks run the event loop, so that button handlers
  run inside `volume_open` and `volume_close`;
* *two threads*: the daemon changes the table that the panel reads;
* *order of keys*: the calculator edits one text from eight handlers, each looking for
  operators, signs and numbers in what the others left;
* *arithmetic*: the reductions, the transform and the compression of Kyber rely on ranges that
  nothing in the code checks, and on branches that one seed in hundreds takes.

Per component, what makes it correct: the cache is an array of sectors whose
acknowledged content survives a crash; files do not overlap, stay in the data
area, are accounted for, keep their contents, and leave nothing readable behind;
keys are gone when a volume is closed, and the panel never uses a freed volume;
a volume opens with its password and with the key its sectors have, or says why not; the
display shows what the next key will work on; the parser is that of its grammar; the history
keeps the newest 50 entries, also over restarts; the arithmetic returns the right residues.
`PROJECT.json` lists the hazards, each at its line.

## Modules

| Module | What it is |
|---|---|
| `SectorStore` | abstract: an array of sectors with Write, Sync and Restart |
| `SectorCache` | `numcache.c` over a C stream and a medium that may fail; implements `SectorStore` |
| `SectorCacheProofs` | theorems about `SectorCache` |
| `FileSystem` | abstract: names mapped to contents |
| `Vfs` | `graph.c`, driven by the operations of `plot.c` |
| `VfsProofs` | theorems about `Vfs` |
| `Panel` | `panel.c`'s handlers, `functions.c`, and the FUSE thread's start and stop in `plot.c` |
| `PanelProofs` | theorems about `Panel` |
| `Calc` | `calc.c` as functions on texts, doubles of a few digits, and the grammar |
| `History` | `history.c`: the array, the file, and reading it back |
| `Calculator` | the handlers of `gui.c`, with `History` and the life of the two processes |
| `HistoryProofs`, `CalculatorProofs` | theorems about `History` and `Calculator` |
| `Induction` | induction and recursion over sets of numbers, prefixes of sequences |
| `Arrays` | sequences filled like C arrays |
| `Ring` | Kyber's polynomials: `reduce.c`, `ntt.c`, `poly.c`, `polyvec.c`, `cbd.c` |
| `Arithmetic` | what the operators of `Ring` and `Sponge` are to compute, as properties of a sample |
| `ArithmeticProofs` | theorems about the reductions, the compression, the packing and the sponge |
| `Sponge` | Keccak, SHAKE and SHA3: `fips202.c`, `symmetric-shake.c` |
| `Kem` | `indcpa.c`, `kem.c`, `verify.c`, over `Ring` and `Sponge` |
| `KemSamples` | what the operators of `Kem` are to compute |
| `VolumeKeys` | `polynomial.c` and the keys and header in `functions.c`; Kyber is a parameter, `Kem` its value |
| `VolumeKeysProofs` | theorems about `VolumeKeys` |
| `MCSectorCache`, `MCVfs`, `MCPanel`, `MCCalculator`, `MCVolumeKeys` | instances for TLC |

### SectorCache

`entries` is `cache->entries`; `valid` and `sector_idx` change together in the code
and are one field. `last_access` keeps only the order of the counter, as a rank,
which is all `lru_victim` looks at. `vol` is what the code cannot see of its
stream: `disk` (what a read returns), `media` (what may be left of each sector by a
power loss), `tail` (the sector whose record still ends in the stdio buffer) and
the observer `lost`. A plaintext is a member of `Data`; a record that fails
authentication is `Torn`. `legal` is an observer: the contents of each sector since the
last acknowledged `cache_flush_all`.

Each operation is one action (the cache is used by one thread at a time) and makes
every call of its C function. A function that can end in several ways is
the set of its outcomes. The assumptions about the environment are: `fseeko` and
`fflush` write out what is buffered, and when this fails glibc drops it; a failed
`fwrite` leaves the old record or an unreadable one; a failed `fsync` leaves the
pages as they were; a power loss leaves of each sector one of the records it had
since the last `fsync`, or a torn one. That `cache_get_sector` fails when all slots are
pinned changes nothing and is no action of its own; a failed get inside a write
or a pin is the same step as a failed get.

### Vfs

`files` and `used_sectors` are the table and counter of `vfs_context_t`; `area`
is what reading through the cache returns, `disk` what has been written below it.
A flush or an eviction (`WriteBack`, at any time) copies a sector of `area` to
`disk`. This is the view `SectorCache` is shown to give. Unreadable records are not
carried into `Vfs`; with `IOErrors` a read fails instead, and a write stops at
a boundary of the cache's sectors.

Sizes are counted in cells, `SectorCells` to a sector. The header and table take
311332 bytes, which is 76 sectors and 36 bytes, so every file is misaligned with the
sectors of the cache; `Base` not divisible by `SectorCells` keeps this. The bubble
sort and scan for gaps are given by what they compute: a gap ends at an
entry's offset and begins at the largest end among the entries with smaller offsets,
which is `current_pos` for every order of the table (entries with equal offsets open
no gap between them). `vfs_add_file` is called with no data only, by
`vfs_create_empty_file`. Time stamps, and `calloc` returning NULL, are left out.

### Panel

`current` is `app->current_volume`; `vol` holds every `volume_context_t` the process has
allocated, freed ones too; `g_vol` and `g_fuse` are the globals of `plot.c`, `session` the
FUSE threads, `file` the volume files. Of what a volume holds, the file table is kept, at its three places:
`table` in the context, `cached` in the pinned sectors of the cache, and `file`.

A handler is a frame on `stack`, and is cut where something else may happen: where it
dispatches events, where it waits for the FUSE thread, and between the steps of
`volume_close`. `Click` begins a handler, `Handle` runs the innermost one to its next
point; a handler that begins at a dispatch point returns before the outer one goes on,
as on the C stack. `MaxDepth` bounds the frames. `volume_open` is `open_file` to `volume_opened`,
`volume_close` is `write_back_table`, `flush`, `destroy`; `volume_create` writes the file
in one step after it emptied it. A handler whose volume was freed meanwhile has no defined
behaviour and takes no step (`InUse`).

External and assumed: dialogs are modal, so that no button is clicked while one is
shown; `fusermount3` is refused when the file system is in use, and the thread then
sees that it was told to exit at its next request only; `fuse_mount` may fail unnoticed.
Memory and the volume file fail only where `IOErrors` allows. There is one window:
launching the program again while it runs opens a second one in the same process, which shares `g_vol`
and `g_fuse` with the first, and then nothing keeps one window from freeing what the other
serves. When the window manager closes the window (`close_window`), `on_shutdown` finds no
active window and the volume is not closed.

### Calculator

`expression`, `last_result`, `has_error` and `clear_on_next_input` are the fields of
`app_state`, texts as sequences of characters; `input_label` is what the display shows. A key or a
button runs one handler to its end, so that each handler is one action; `C`, `CE`, Escape and
Delete are one. `×` and `÷` are two bytes each, as the formula of the history has them, so that
writing a formula, saving it, reading it and clicking its row goes through the code's own
conversions. `history_file` is the file byte by byte: `fgets` cuts lines longer than its
buffer, and a kill between `fopen "w"` and `fclose` leaves a prefix. `module`
and `token` are the launched process and its environment.

`done`, `sound` and `genuine` are observers: the evaluations since the history was cleared; whether the
file was last written to its end, in lines that fit the buffer it is read to; and whether every process
started from such a file.
`Fits` keeps the last byte but one of the expression's buffer free, as the handlers do; `Cut` is what
`snprintf` leaves of a result or a row that is too long.

`Calc` has doubles with `Digits` decimal digits and exponents up to `Exponents`, with rounding,
overflow, signed zeros, infinities and NaN, and `%.{Precision}g`. The parser's
functions return a value and a place in the text, like their C counterparts; the
grammar beside it derives values from texts without knowing of places.

What the model showed that is not stated as a property: `+/-` after `)`, `%` or the `f` of `inf`
appends a `-` that is an operator; `inf` and `nan` cannot be worked on; a result such as
`1e+20` shortened with backspace and negated becomes `1e+-20`, which is an error; the comment
`main.c:21` announces that the history is saved at the end, where nothing is left to save; a file
that was cut short shifts formulas against results at the next start. Then a row's result may be a piece of a
formula, with spaces in it: entering one that ends in an operator, a row that strips its spaces can
put three operators side by side. A formula longer than `LINE` does the same to a file that is whole: it
is reread as two lines. `OperatorsApart`, `AnswerStands` and what is said about results therefore hold as
long as every process started from a file written to its end in lines that fit (`genuine`).

### Kyber and the keys of a volume

`Ring`, `Sponge` and `Kem` compute what the C code computes, at its scale: 256 coefficients, rank
4, lanes of 64 bits, 24 rounds. `Int16` is the conversion that wraps, and it is where the C code
converts. Constants may be smaller for experiments; then the lengths follow. While these modules were
written, SHA3-256 and SHAKE128 were compared with another implementation, and keys,
ciphertexts and secrets with those of the compiled C functions for the same random bytes:
all bytes were equal. (The comparison is not part of the runs.)

`VolumeKeys` is the way of the key of the sectors: `volume_create` from the derivation to the last
sector, in its order, with each call whose result the code ignores failing or not; a
crash anywhere in between; `volume_open` with either password, in both formats, the older one as an
earlier release would have written it (`EarlierRelease`, known from how `volume_open` reads it). Argon2, BLAKE2b, X448 and
the two AEADs are ideal; Kyber is a parameter of the module, and the run computes it with `Kem`. `made` observes what was asked of `volume_create`, what it
answered and what failed silently.

It shows what becomes of the ignored results (`functions.c:79`, `86`, `123`): `volume_create` answers
success for a volume that no password opens. And the other way round: a volume whose creation was
cut short after the sectors of the file table opens, though `volume_create` answered -1.
That Panel sees only whether a header opens is the abstraction this module justifies.

## Runs

| Run | Instance | Checks |
|---|---|---|
| `cache_eviction` | 3 sectors, 2 slots | types and distinct recencies, no sector in two slots, pinned sectors stay |
| `cache_store` | 3 sectors, 1 slot, 2 contents | clean slots are on disk, acknowledged contents survive unless lost, refinement of `SectorStore` |
| `cache_acknowledged` | the same | **violated**: acknowledged contents survive, without exception |
| `vfs_allocation` | 3 names, 5 sectors, no data, failures | table inside the data area, `used_sectors` is the sum, how overlap starts |
| `vfs_contents` | 2 names, 4 sectors | types, unique names, answers are true, steps are those of `FileSystem` |
| `vfs_wipe` | 2 names, 3 sectors of 2 cells, misaligned | what is free reads zero, what is given up is wiped on disk, answers are true |
| `vfs_overlap` | 2 names, 3 sectors | **violated**: files do not overlap |
| `vfs_sliding` | 2 names, 4 sectors | **violated**: relocation keeps the contents |
| `panel` | 2 volumes, 2 files, 2 threads, failures, handlers not nested | types, only open volumes are served, closing saves, nothing unsaved is freed silently, freed memory holds no keys, handlers return |
| `panel_nested` | 2 volumes, 1 file, handlers nested once | **violated**: the cache is destroyed after unmounting |
| `calculator` | 5 events of 6 keys, a history of 2, buffers of 8 bytes, lines and results of 7 | types and the buffer's bound, operators apart, display, answers, sign, history, grammar, results as operands |
| `volume_keys` | full scale, 2 passwords, 3 sectors, 65536 samples | types, what opens and what is refused; reductions, transform, compression, packing, sponge, matrix, rejection |

Why the bounds are enough: with one slot every access evicts, and three sectors
let the record whose end is buffered, the victim and the sector being loaded be
three different ones; two slots bring recency and pins into play. In the file
system, two files with a free sector on each side show every case of
`vfs_resize_file` (within its sectors, in place, relocated before, behind, onto
itself, refused), and three names let the table shift under a rename and put an
empty entry inside another file. In the panel, two volumes let one be opened in place of
another, two files let one be created while the other is open, and a process that exits or is
killed starts with both volumes unused again, so that the bound ends no behaviour. A thread is used
again once it was joined; a second one shows whether it is. In the calculator, five events are
enough to type an operand, an operator and an operand, evaluate, and recall or negate the result; to fill
the expression's buffer, and the history of two with one entry more; and to evaluate, be killed while
saving, restart and recall. A double of three digits of which one is printed makes rounding and
exponents appear in expressions of a few characters. `99` is the constant that launches the module. In
`volume_keys` the 65536 samples are all values of an `int16_t`; `SpongeIncremental` takes the lengths
around a block, `MatrixIsRejectionSampling` all 16 entries for a seed chosen because three of them need a
fourth block, `ImplicitRejection` (in `MCVolumeKeys`) a damage in either part of the ciphertext, `NttMultiplies` sixteen
pairs of polynomials. Two sectors of metadata and one more let a creation stop before, between and after them.

Only `HandlersReturn` assumes fairness: weak fairness of `Handle`, since the GTK thread is
scheduled and the user answers dialogs, and of a FUSE thread's `fuse_mount` and `fuse_unmount`,
which return. The kernel need not send requests, so `fuse_loop` has none; a mount that is in
use may therefore keep the handler waiting, and the property says so. Deadlock is checked except in
`calculator`, where the bound on events stops the model, and `volume_keys`, where nothing follows
the last samples.

### Four disagreements with the code's own comments and documentation

1. `numcache.c:419-420` says an acknowledged flush survives a crash. `dirty` is reset
   when `encrypt_sector_at` returns, with the end of the record still in the stdio
   buffer. If writing that buffer fails, `cache_flush_all` returns -1, but the next
   call finds nothing dirty and returns 0. `AcknowledgedUnlessLost` shows that this is
   the only way: every sector outside `lost` is as promised.
2. `graph.c:573` treats the resized file's old sectors as free, but recognises that file by
   its offset, which empty files share with others. Create a, create b, write b,
   write a: both own the same sectors. `OverlapStartsAtEmptyFile` shows that overlap
   starts only when an empty file inside another's extent gets data.
3. `graph.c:605-622` copies a file to its new place and wipes the old one; since the
   old place counts as free, the two may overlap, and the wipe erases a part of the
   copy. `StepsImplementFileSystem` and `AnswersAreTrue` show that apart from 2 and 3
   every step is what a file system should do. The first maps the steps to
   those of `FileSystem`, any of them; the second holds each operation to its own
   effect: with it done it succeeds, with nothing done it fails.
4. `functions.c:419` destroys the cache "after unmount", but `volume_unmount` only resets
   flags, and `volume_close` has dispatched events since the handler ended the FUSE session. Mount
   clicked there starts a new session for the volume that is then freed. Without nesting
   `ServesOpenVolume` holds: the order of the calls protects the thread, the event loop breaks it.

Smaller ones are listed as hazards: the flush after a relocation misses the last
sector of the cache (`graph.c:627`), failures ignored by rename, delete, resize and
`volume_create`. `README.md:330` says that Unmount Volume flushes data; nothing is written before the volume is
closed (`SavedOnClose` shows that then it is). `README.md:345` has XChaCha20-Poly1305 for the header and
the wrapped key, where volumes of version 4 use AES-256-GCM.

## Proofs

`SectorCacheProofs` proves for every set of sectors and contents and every positive
number of slots that `TypeOK`, `OneSlotPerSector`, `CleanCopyMatchesDisk` and
`AcknowledgedUnlessLost` are invariants, that `PinnedStays` holds of every step, and
that `SectorCache` implements `SectorStore`. Assumptions: there is a slot; `Torn`, `Wiped` and
`NoSector` are not contents or sectors.

The invariants are not inductive by themselves. `Inv` adds: a lost sector is unreadable and
the only kind whose medium may hold less than was acknowledged (`VolumeOK`); a sector
whose end is buffered, and a dirty slot, are not acknowledged yet; what a read
returns is among what a crash may leave; a free slot is wiped; a used one
holds a readable content (`SlotsOK`). Its parts take the slots, volume and observer as
parameters, so that the lemmas follow an operation through the states between its
calls: `EncryptOK` and `DecryptOK` for the file, `LoadOK`, `EvictOK`, `GetOK` for
`cache_get_sector`, `FlushedOK`, `FailAtOK`, `AllWrittenOK` for `cache_flush_all`.
`Harmless` is what all operations but a write have in common; `HarmlessStep` turns it
into a step of `SectorStore`, where the sectors whose view changed (`Spoiled`) witness
the existential of its action.

`ArithmeticProofs` proves that `ReductionsCongruent` holds of every integer sample. `BarrettReduces`: the
quotient is at most 10 and leaves a remainder in the centred range; the product of 10 and Q does not fit
an `int16_t` and wraps, but so does the difference, and back (`WrapCancels`). `MontgomeryReduces`: a
conversion adds a multiple of 65536 (`Int16Wraps`), `QINV * Q` is one more than such a multiple, so that
`a - t * Q` is one exactly, and the bounds on `a` and `t` bound the quotient.

It also proves `CompressionRounds` of every sample. `MulShift27` and `MulShift31` say that the multiplication by
halves of `Ring` is the shifted product; `Divides5` and `Divides11` that this is the quotient by Q. For eleven bits
it would not be for every number: with the remainder 3328 a quotient above 651 is too large. `Divides11` shows that no numerator
`(x << 11) + 1664` with that remainder has one above 650, so that the constants are right for what they get.

And `PackingInverts`. Numbers of d bits one after the other are a stream of bits (`Stream`), of which each is a
`Field`: the k bits from n on, as a number, defined by recursion (`FieldIs`). `Cuts` joins two fields next to each other and parts
them again; each shift, mask and sum of `Pack5` to `Unpack12` is an instance of it (`PackCuts5` to `UnpackCuts12`). `Packing5`, `Packing11`
and `Packing12` hold for any block of numbers, not only for those of a sample.

And `SpongeIncremental`, from `IncrementalIsOneShot`: of any input, rate, cut and length of output. The permutation is opaque to this
proof. The loops of `keccak_absorb`, `keccak_squeeze` and `keccak_squeezeblocks` are functions of their number of rounds (`After`), and
a round more is a first one before the others (`AfterFirst`). So a call stays in the block (`AbsorbWithin`, `SqueezeWithin`) or does what
a call does with the rest in the next block (`AbsorbAcross`, `SqueezeAcross`). `AbsorbTwice` and `SqueezeTwice` are by induction over the
length of the first call; in a block two calls come to one because bytes that are added (`AddedTwice`) or extracted (`ExtractedTwice`) in two
pieces are those of one, and `SqueezeNext` says that the used-up block, `pos` being the rate, is permuted once. `AbsorbOnce` and
`SqueezeWhole` bring the one-shot functions, which fill whole blocks, to the incremental ones.

`VfsProofs` proves for any names, sizes, bounds and contents of the volume that `TypeOK`,
`InsideDataArea`, `Accounting` and `OverlapStartsAtEmptyFile` are invariants, with failures and without;
and `NamesUnique` and `FreeSpaceIsZero` where nothing fails (`~IOErrors`, as in the runs that check them: a
rename whose flush fails, or a wipe that fails, breaks them). `InsideDataArea` is not inductive:
an entry ends where its sectors do, and how many it has is a matter of its size. `Sound` says that the table
has at most `MaxFiles` entries, that `used_sectors` is their `Total` and at most `total_sectors`, and that each
entry has the sectors its size needs, within the area (`Placed`). What a call of C does to a context
is named by its effect (`Adds`, `Drops`, `Names`, `Sizes`, `Fills`), one lemma says of each C function
which effects it may have, and `Preserves` what they keep. `GapIs`, `FitIs`, `NextIs` say what
`Gaps`, `BestFit` and `NextOffset` return: a place that meets no entry with sectors, and ends within the area,
except entries with the file's own offset. That exception is disagreement 2.
`TotalAppend`, `TotalReplace` and `TotalRemove` are the sum under an edit of the table, by induction over its length.

It also proves what the cells hold, where nothing fails (`~IOErrors`): `AnswersAreTrue`, that every step implements
a step of `FileSystem` (`StepsImplementFileSystem`), and `VacatedIsWipedOnDisk`. With failures TLC
has counterexamples to all three: a `tsuki_write` answers failure after the file grew, and a failed wipe leaves data. `Lists(c, D)` relates table
and area to a directory: the names of the entries are its domain, and each maps to the bytes its entry owns
(`Stored`). Of each effect one lemma says what directory lists the result (`AddsLists`, `DropsLists`, `NamesLists`, `SizesLists`,
`WrittenLists`): where the entries are `Apart`, the bytes of one change only under its own effect (`StoredSame`). A resize
has to bring its data along (`Carries`), which a relocation does unless the file slides over itself, and finds zeros
where it grows, by `FreeZero`, so that the inductive invariant of `FreeSpaceIsZero` is needed here too. The two exceptions
of the properties are disagreements 2 and 3, and enter as `Apart(r.ctx)` and `~Slid(c, r.ctx)`. `AnswersRight` puts
the operations together and serves both `AnswersHoldTrue` and `StepIs`, the step of the refinement. `Wipes` says
of a step what `VacatedIsWipedOnDisk` says of the table, and is kept by a write that follows a resize.

`PanelProofs` proves `TypeOK` for any depth of handlers, and for handlers that are not nested
(`MaxDepth = 1`) `ServesOpenVolume`, `FreedHoldsNoKeys`, `SavedOnClose`, `FreedIsSaved` and
`DestroyedAfterUnmount`. The condition is needed: with two handlers TLC has counterexamples to
all of them but `FreedIsSaved`. `Inv` says what types do not: what a frame holds at its point is its volume
(`FrameOK`), and two frames close different volumes. `Alone` says for each point of the only handler what became of the
session and of its volume (`TopAlone`): before `close_unmounted` the session is served from `current`, after it
there is none. Both were checked by TLC before they were proved.

`VolumeKeysProofs` proves `TypeOK`, `OpensTruly` and `RefusedForCause` for any KEM, any passwords and any
number of sectors; the third assumes that decapsulation inverts encapsulation (`KyberDecapsulates(Random)`),
which TLC evaluates for Kyber-1024 as a part of `ImplicitRejection`. `Inv` follows a creation through its steps: what
the variables of `volume_create` hold at each (`MakingOK`), which password and which failures the bytes in
the file come from (`FileOK`), what an answer says of them (`AnswerOK`).

`HistoryProofs` proves `ReadAsWritten`: a list whose lines fit the buffer is read back from the file as
it was, in any length, by induction over the list. `CalculatorProofs` rests on it: `TypeOK`,
`OperatorsApart`, `DisplayAgrees`, `AnswerStands`, `ToggleRestores` and `HistoryKept` hold for any sizes of the buffers, any
length of the history, any keys in any number. The parser and the conversions of numbers are opaque
to these proofs: they assume that what is printed is an error or a text of `Result` (`PrintsResults`; TLC evaluates it for
all texts of up to three bytes), and of `Result` what `ResultAssumption` says (evaluated for every text the instance has).
`Inv` adds: what `done` and the rows of the history hold are formulas of expressions whose operators are apart, with their
results (`Lists`), also in the file (`Genuine`), so that what recall strips and rewrites is the expression
that was evaluated; and no result is on the display beside a formula it is not of (`Display`).

The library's induction theorems take an operator, which no installed prover instantiates. `Induction`
states them about sets instead: a set of numbers that holds 0 and with every number the
next holds all (`SetInduction`), and a function defined by recursion satisfies its equation (`Recursion`).

Only model-checked:

* `HandlersReturn`, which is liveness; `DestroyedAfterUnmount` and the like of nested handlers, where they fail;
* `ParserFollowsGrammar` and `ResultsAreOperands`: `Calc` is recursive, and `CalculatorProofs` knows it by its results only;
* `NttMultiplies`, `MatrixIsRejectionSampling`, `ImplicitRejection`: folds and recursions over 256 coefficients, whose invariants are facts of
  number theory or of the constants in a table;
* of `Vfs` with failures, all but `TypeOK`, `InsideDataArea`, `Accounting` and `OverlapStartsAtEmptyFile`.

## Plan

Done: the modules and runs of all components; the proofs of `SectorCache`, `Vfs`, `Panel`, `VolumeKeys`,
`History`, `Calculator`, and of the arithmetic the reductions, the compression, the packing and the sponge.

Left, of what the provers can reach: `AnswersAreTrue` with failures, once it says which part of an operation a
failed access leaves done.

## Not modelled

* libsodium, OpenSSL and glibc, but for what the code sees of them: a box opens or not, a stream loses
  what it could not write, `strtod` and `%g` round.
* `aes256ctr.c`, `sha256.c`, `sha512.c`, `symmetric-aes.c`, `kex.c` and `randombytes.c`: no target of the
  Makefile compiles them.
* Of `helpers.c`: locking memory, shredding a file, the look for swap. Of the panel: password visibility, dialogs
  and labels without effect.
* A second window. Launching the calculator again activates the running process (`main.c:5-8`), which builds a second
  window over the same `app_state`; the panel does the same over `g_vol`. `Calculator` and `Panel` have one window.
* Timing, in `verify` and `cmov` too; what the compiler leaves in memory; layout, themes, the Makefile and resources.
