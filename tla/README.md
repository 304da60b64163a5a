# Specifications of armaz

armaz is a bare-metal AArch64 system for the Raspberry Pi 4: boot code, interrupts, a UART
console, pins and a timer, a heap, an SD card driver, a small file system of its own (ThornFAT) and an
interactive shell (`src/Test.cpp`) that is its only application and its only test. This
directory holds TLA+ specifications of its parts, the TLC models that check them and TLAPS
proofs about them. Every definition is translated from the code; `PROJECT.json` names, for each
one, the lines it stands for. Paths below are relative to the repository (`src/...` there is
`src/src/...` in `PROJECT.json`).

The configuration modelled is the one the makefile builds: `RASPPI=4`, one core
(`ARM_ALLOW_MULTI_CORE` undefined), interrupts as IRQ and not FIQ, `SHRINK_DIRS` and
`READDIR_MAX_INCLUDE` defined.

## 1. Inventory

| Component | State it keeps | Operations | What is hard | What makes it correct |
|---|---|---|---|---|
| **ThornFAT** `src/fs/tfat/`, 2000 lines | on disk: superblock, file allocation table, 64-byte-name directory entries in chains of blocks; in memory: cached superblock, cached root entry | `make`, `create`, `mkdir`, `unlink`, `rmdir`, `rename`, `truncate`, `read`, `write`, `utimens`, `chmod`, `chown`, `readdir`, `getsize`, `statfs`, `isdir` | a call is a sequence of device writes, some before the last check that can fail, and the power may fail between any two; entries of removed files stay in their slots; the root is kept twice; two encodings of "free" | no block has two owners or none, chains end, a failing call changes nothing, a name occurs once, the cache is the disk, a file reads back as it was written |
| **FS helpers** `src/fs/FS.cpp` | none | `simplifyPath`, `pathFirst`, `pathLast`, `pathParent` | `..` above the root; four functions that take paths apart in different ways | shell and driver mean the same file by the same path |
| **Partition / partition tables** `src/storage/` | offset and length | `read`, `write` | bounds at the last byte; nothing takes back what was written before a failing call | nothing outside the partition is touched |
| **EMMC** `src/storage/EMMC.cpp`, 2100 lines | last command, last interrupt, last error, card RCA, block count of the transfer, `cardRemoval` | card reset, card initialisation, command issue, data command with retries, byte reads and writes on top of whole blocks | every step can time out or be interrupted by card removal; retries after an error; state left by a failed try; a 32-bit microsecond counter that wraps | a transfer that reports success moved all its blocks; retries are bounded; a failed try does not leak into the next |
| **UART** `src/pi/UART.cpp` | two ring buffers and their indices, sticky receive error, spinlock | interrupt handler; `read`, `write`, `availableToRead` | handler and callers interleave on one core; lock order; error return inside the lock | no byte lost, doubled or reordered; lock always released; waiting code is woken |
| **Critical sections, spinlock** `src/aarch64/Synchronize.cpp`, `Spinlock.cpp` | stack of saved interrupt masks (20 levels) | `enterCritical`, `leaveCritical`, `acquire`, `release` | nesting, unbalanced callers, entering from a handler | the mask on return is the mask on entry; the stack never overflows |
| **Interrupts** `src/interrupts/` | handler table (72 entries), distributor enable bits | `connect`, `disconnect`, `callHandler`, the GIC's acknowledge / end loop | a table smaller than the lines that index it; an interrupt between two statements of a call | no enabled line is without a handler |
| **Timers** `src/aarch64/Timer.cpp` | compare value, whether connected | `init`, `disconnect`, handler, `getSystemTimer`, waits | two-register counter read; an alarm served late | a wait is never cut short, no period is lost |
| **Heap** `src/Memory.cpp` | list of block headers, `end`, `allocated` | `allocate`, `free`, split, merge | first fit with in-place splitting and merging; alignment; no check against the end of memory | blocks never overlap; freed memory is reusable; counters match |
| **Mailbox, property tags** `src/pi/` | a page shared with the firmware; hardware FIFOs | `getTag`, `getTags`, `writeRead`, `flush` | messages left behind or sent on other channels | the answer is the one to the request |
| **GPIO** `src/pi/GPIO.cpp` | of each pin: mode, handler, expected events; the manager's table; registers shared by 32 pins | `setMode`, `connect`, `enableInterrupt` and their opposites, the manager's handler, `write`, `read` | read-modify-write of registers that handlers also change; an event that comes while a call is half done | no bit of another pin is lost, no event of a pin is lost |
| **Shell** `src/Test.cpp` | selected device, partition, driver, input line | its commands call the driver | - | - |
| **Main loop, panic, log** `src/main.cpp`, `Kernel.cpp` | - | start-up; poll-and-sleep loop | lost wake-up between test and `wfi` | input is eventually handled |
| **Boot, MMU, registers** | - | straight-line set-up | - | not modelled |
| **C library parts** | - | `memcpy`, `memmove`, `memset`; vendored `printf`, libcxx, musl | units, alignment, overlap | the bytes asked for are moved, no others |

How they interact: the shell owns one `ThornFATDriver`, which reads and writes through a
`Partition`, which adds its offset and calls the `EMMC` device; the device polls its registers
and measures time with the system timer. The UART interrupt is taken by the vector code
(`asm/irq.S`), dispatched by the GIC code to the handler table and fills the ring buffer that
the main loop empties into the shell; both sides use the spinlock, which on one core is a
critical section. Timer and GPIO manager hang on the same table of handlers; start-up asks the
firmware for clock rates and memory through the mailbox. All of them allocate from the one heap.

## 2. Plan

Ordered by how much depends on the part and how hard it is to test:

1. **ThornFAT namespace** (done, section 3): table, directories, cached root; an abstract file
   tree; the table, the chains and the cached root proved sound under every call, the tree
   implemented and nothing leaked under disciplined ones, also proved.
2. **Console** (done, section 4): handler against main loop on one core; either direction implements
   a channel, both proved; liveness under fairness.
3. **Heap** (done, section 5): first fit with split and merge; implements disjoint regions, proved.
4. **SD card** (done, section 6): commands, timeouts, retries, card removal against an abstract block
   device, and byte access on top, both proved.
5. **Contents and power cuts** (done, section 3): `ThornFATFiles`, the calls on files of the root
   directory at the granularity of writes to the partition, with the bytes of the files; all its invariants proved.
6. **Board** (done, section 7): interrupt table, timer, pins and mailbox, composed with one
   program and the interrupts between its statements; all its invariants proved.
7. **Routines** (done, section 6): paths, memory routines, clock arithmetic, against reference
   definitions.
8. Next: power cuts inside calls on subdirectories; the levels of pins; `printf`.

## 3. ThornFAT

### Modules

| Module | What it is | Code |
|---|---|---|
| `ThornFATTable` | the table as a value: initial table, search for a free block, walks, chain, `forget`, growing and shrinking | `initFAT`, `findFreeBlock`, `hasFree`, `chainLength`, `forget`, the loops of `resize` |
| `ThornFAT` | the driver: variables `fat`, `disk` (an entry at every entry-sized offset of the partition), `root` (the cached entry), `times` (of the root's entry, on disk and cached), `call` and `ret` (the last call and what it returned); an action per call | `ThornFAT.cpp`, `ThornFATUtil.cpp` |
| `ThornFATProperties` | what a sound file system is; the tree on the disk | properties only |
| `FileTree` | the abstract specification: a set of paths with a type and a length; each successful call does to the path it is made with what its name says, a failing one nothing | what callers rely on |
| `MCThornFAT` | names, paths, symmetry, views for TLC | - |
| `NatSetInduction` | induction over sets of naturals, from the library's well-founded minimum | proofs only |
| `ThornFATProofs` | the theorems that hold under every call, then those of disciplined calls | proofs only |
| `ThornFATFiles` | `create`, `unlink`, `truncate`, `write`, `read`, `readdir` on files of the root, byte by byte, with a step per write to the partition and power cuts between them | the same functions of `ThornFAT.cpp` |
| `ThornFATFilesProofs` | the theorems about it | proofs only |
| `MCThornFATFiles` | files, calls and view for TLC | - |

**Data abstraction.** Lengths and offsets are counted in directory entries. `EntriesPerBlock` is
`blockSize / sizeof(DirEntry)` (the shell's `make` uses blocks of 5 entries), so where an entry
lies, which block a slot is in and whether a length needs another block are exact; bytes inside
an entry are not. A name is a model value; a path is the sequence of names that `simplifyPath`
and the splitting in `find` leave; some names are longer than `THORNFAT_PATH_MAX` (`TooLong`). What `write` stores is kept as what each entry-sized
piece of it reads as (`Contents`), and so are the zeroes that `resize` writes behind the end of a shrunk file, because both
can land on directory entries; the bytes of files are in `ThornFATFiles`. Of the times those of the root's entry are kept, which
has two copies. Other times, modes, owners and `blocksFree` are left out: no branch of a modelled call reads them.
(`blocksFree` drifts in the code and is only reported by `statfs`.)

**Control.** `find` is `Walk`: one step per component, with the errors in the code's order and
the first entry that matches and is not free. `newFile` is `NewFile` and `Insert`, its
refusal of names that are too long and its four scenarios in the code's order, including what it leaves behind when it fails late: the block
already marked FINAL stays marked in the returns after a missing or unreadable parent. `rename`
writes entries directly and not through `writeEntry`, as the code does, so the cached root is not
updated there. `rmdir` takes an error of `directoryEmpty` for "empty". A write past the end of the
partition panics after the pieces before it were written (`PANIC`, after which only a restart
follows). `readDir` may leave `first_index` uninitialised; the index is then any number up to the
length. `write` is `Resize`, then data over the slots of the chain, then the entry once more (`Fill`); it does not ask whether the
path is a directory's. `utimens` and `read` write the entry they found back, the first with other times (`Touch`). Of an entry of the root that it is given,
`writeEntry` takes only the length over into the cached one (`CacheEntry`, `Become`).

**The device works.** In `ThornFAT` every read and write of the partition succeeds. Left out are therefore the returns of `newFile` and `resize` on an error of the
device: after a failed read of the parent (`ThornFAT.cpp:574`, which is modelled for parents that are unreadable because damaged), a failed write of zeroes (853) and of the root's `..` (733, 890). The others behind `writeEntry`, with their `status < 0`
(614, 641, 715, 722), cannot be taken in the code either: `writeEntry` reports a failed first write as a positive number (247), and goes on to a second only for the root. A failed
write is thus mostly not noticed, which nothing here covers. A call that ends between two of its writes is in `ThornFATFiles`, where the power fails there.

**Not a step: trimming.** With `SHRINK_DIRS`, `readFile` cuts surplus blocks off a directory while
it reads it. The model has no such step; `NothingToTrim` (part of `SoundTable`, run `interface`) shows that in the
reached states there is nothing to cut, so that leaving it out changes nothing there. `Make` is
only among the disciplined calls for that reason: over an old file system it leaves old blocks'
entries in place, and a root that is then grown by `truncate` could show them.

**Calls are atomic.** One call is one step. The driver runs on one core, is called only from the
main loop and no interrupt handler touches it, so no other step can come between, except that the
power fails; `ThornFATFiles` has that.

**`ThornFATFiles`: a step per write.** `Begin` computes the writes a call makes from the state it starts in, which
nothing else changes while it runs; each `Write` puts one on the disk, `Return` ends the call, `PowerCut`
ends it early and keeps what is on the disk. After a cut nothing else is lost: the driver caches only what it also writes,
and has no repair tool. Marks in the table, entries, the length of the directory and pieces of data
are separate writes, in the code's order. A call that fails before it has written has no plan and no step. `read`
writes the entry it read back unchanged, which is no step. A file that grows is not zeroed; its new
bytes are `Any`. `content` is the history the property compares the disk with.

**Three specifications.** `ShellSpec` has the calls the shell makes, in any order and with any arguments. Its writes are of bytes that are `Harmless`:
the shell's `write` takes any path, also that of a directory, whose entries are then what was written, and the driver believes them. An entry made
up so that it names the block of another file gives that block two owners; nothing in the code prevents it, and no property survives it. So the bytes written over a directory are any that
name no block: they can give its entries names, types and lengths, and end them, but start no chain. That is a restriction on what is typed, which the shell does not make. `Spec` adds `utimens` and `rename`, which the driver
implements and nothing calls; the source of a `rename` is not `/`, whose entry it would overwrite with
zeroes. `DisciplinedSpec` has the calls under the preconditions the code leaves to its callers:
there is a slot in the last block of the parent (`HasRoom`), `mkdir` only of a name that
does not exist, `write` only to files, but of any bytes (`Writable`), `truncate` only of files and not across a block boundary to a length inside a
block (`Truncatable`), `rename` to another name and of a directory only inside its parent
(`Movable`). Each precondition is there because of what the code does without it:

- `Writable`: a directory that is written to lists what was written (`ThornFAT.cpp:1312` looks at no type).
- `HasRoom`: a directory that fills its last block is linked the wrong way round (run `expand`).
- `mkdir` of an existing name makes a second entry that no path reaches: `mkdir` calls `newFile`
  without looking (`ThornFAT.cpp:1418`; the comment at 1289 calls that "a pretty dumb thing to do").
- `Truncatable`: shrinking writes zeroes behind the new end without following the chain (`ThornFAT.cpp:988`);
  truncating a directory is not refused.
- `Movable`: `rename` of a file to itself removes its blocks, writes the entry to its own slot and
  then overwrites that slot (`ThornFAT.cpp:1236`); `..` of a directory that moves is not updated.

Outside them the properties of `disciplined` do not all hold. `ThornFATFiles` has the same precondition on
truncation (`Disciplined`), and two of its own: no call is made on a partition that a power cut has damaged
(`Undamaged`), because the blocks a broken entry names may be free and given to another file; and only reads that
start with a block or stay within one are compared (`Readable`), because `read` loses the chain otherwise (`ThornFAT.cpp:1584`).
No specification states fairness: every call ends by itself, nothing waits.

### Runs

| Run | Specification, bounds | What it shows |
|---|---|---|
| `interface` | `Spec`, 6 blocks (4 data), 2 entries per block, 5 paths, one of them too long, lengths 0, 1, 3 | whatever is called, also through directories already damaged or written over with harmless bytes: the cached root is, but for its times, the one on disk (`RootCacheCoherent`), no two entries share a block (`NoSharedBlocks`), and the table is sound (`SoundTable`): its own blocks stay out of use (`ReservedIntact`), no chain runs into a free block (`ChainsTerminate`), readFile has nothing to trim (`NothingToTrim`); and a call that fails has changed nothing, except that `create` and `mkdir` under a missing or unreadable parent lose the one block they took first (`FailureIsAtomic`, `BlockLost`) |
| `disciplined` | `DisciplinedSpec`, 6 blocks, 4 entries per block, 7 paths over 2 names and one too long, lengths 0, 3, 4, 5 | no block leaked or doubly owned (`EveryBlockHasOneOwner`), directories are sound (`SoundDirectories`: names unique, length and chain agree, `..` names the parent), and the driver implements `FileTree`: each call does to its path what its name says, and only that |
| `files` | `ThornFATFiles`, 7 blocks (4 data) of 2 bytes, 2 files, 1 power cut | a file reads back as it was last written, byte by byte, whatever happens to the other, also when that is cut off (`FilesReadBack`); no block on two chains, at most one lost by a cut that damages nothing (`BlocksAreOwned`); a file is created as a whole or not at all (`CreateIsAtomic`) |
| `expand` | `ShellSpec`, violation | a directory that fills its block becomes unreadable |

*Bounds.* Four data blocks are the root's and three more: enough for a directory in a directory
with a file in it, for a file of two blocks while another exists, and for the disk to be full in the
middle of a call that needs two blocks. Two entries per block let a directory fill its block with the
first entry made in it (scenario 3 of `newFile`, both the allocating and the non-allocating form, and
a full disk in each); four let it stay below. Lengths 0, 3, 4, 5 with 4 entries per block are
empty, inside a block, exactly one block, and one over; 0, 1, 3 with 2 are empty, one block, two blocks.

In `files` a file has up to three blocks, so with the root's block the disk is full when one is long and the other is there;
writes are within a block, across one, from the middle of one, and behind a gap. One cut at any write of any call, with all
calls after it, is what a property about a disk can tell apart: the driver keeps nothing across it. The run may stop
(`CHECK_DEADLOCK FALSE`): after a cut that leaves a broken entry no call is made.

*Views.* `Relevant` of `MCThornFATFiles` drops the bytes of free blocks and freed entries, which are written before they are
read again or are `Any`. `Relevant` (run `interface`) hides the last call, the return code, but for a panic, the times, which no guard reads, and the content of
entries whose `start` is 0: `IsFree` and `HasStuff` treat those alike, `Located` skips them, and
an action either overwrites them or leaves them. `LiveView` (run `disciplined`) keeps the entries
in use and the first entry of each directory in use: under the disciplined calls a slot becomes part of a
directory only by being written. `ret` is an input of no action but the panic test, `call` of none, and the properties of steps
that read them, `FailureIsAtomic` and the refinement, look at their new values only, which is checked on every transition TLC generates. Symmetry: the two names are interchangeable; no liveness is checked under it.

*Mutants.* Each property of the passing runs is shown to fail for a plausible bug in the code it
rests on (`PROJECT.json`, "mutants"; the variants stand before the definitions they vary).

### Proved

The first half of `ThornFATProofs` proves for every partition size, table size, entries per block, set of names, of
paths and of lengths:

- `TypeCorrect`, `DisciplinedTypeCorrect`: `[]TypeOK` of `Spec` and of `DisciplinedSpec`. Every link
  written to the table is a data block or a mark, every entry on disk or cached starts at a
  data block or 0, no call writes outside the partition, and only the listed codes are returned.
- `AllocatesDataBlocks`: what `findFreeBlock` returns is a data block, although it searches from block 0.
- `RootNeverStale`, `BlocksNeverShared`, `TableStaysSound`: `[]RootCacheCoherent`, `[]NoSharedBlocks`, `[]SoundTable` of
  `Spec`, that is under every call of the interface, also the ones that fail or that ruin a directory, and under writes of harmless bytes over directories.
  `RootCacheCoherent` is about name, type, first block and length; the times may differ, after `utimens` of `/`.
- `FailuresChangeNothing`: `FailureIsAtomic`, an action property of `Spec`.

*Argument.* `TypeOK` is not inductive: `newFile` makes the block that `findFreeBlock` returns the start of an entry,
which is only a data block if the blocks of the superblock and table are never free. The
inductive invariant adds that. Its preservation needs: walks along the table stay among
links (`HopType`, by induction on hops), `Chain` lies in the data blocks, so that `Forget` and `Shrink` free
only these; `Extend` links only free blocks; the walk down a path returns offsets of the
partition. There is one lemma per operator and one step per action. The recursive functions
are unfolded with `NatSetInduction`, which derives set induction from the library's minimum of
a well-founded relation.

The three properties are about live entries, the ones that paths reach, and are not inductive as such: a directory
that is truncated loses its last slots from view, and when it grows again the old bytes there are entries again. So the invariant `Keeps` is
about every entry anywhere on the partition that has a first block and is not `.` or `..` (`Holders`), reachable or not. Each of them, and the root, has a chain that
can be followed block by block to FINAL and that for a directory is no longer than its length needs (`Chained`), and no two of these chains have a block in common (`OwnChains`); the root on disk is the cached one
(`RootKept`). A call changes the chain of one holder and its entry (`Update`): `Remove`, `Place`, `Move` and the lemmas ending in `Refits` say for freeing, allocating, moving
and resizing which chains stay as they are. A write over other entries only makes fewer holders (`Lose`), so the zeroes of `zeroOutFree` are harmless wherever they land, as long as that is not the root's
entry (`ZeroesBehindRoot`). The data of `write` lands on the slots of the chain of what is written: over a directory it makes no new holder, because harmless bytes name no
block, and over a file it may only in blocks that no directory reads. `LiveHold` leads back: what a path reaches is a holder. `Make` is not in `Spec`: it leaves old entries on disk under a new table, so that `Keeps` does not hold after it.

`FailuresChangeNothing` needs of the invariant only the types. `newFile` returns an error before it writes, or with the block it marked and no other change (`FailsWith`, `NewFileFails`);
`resize` fails for lack of blocks before it links any (`ResizeFails`); behind them the calls only succeed or panic.

The second half of `ThornFATProofs` proves what the run `disciplined` checks, for the same parameters, of `DisciplinedSpec`, `Make` included:

- `NothingLeaks`: `[]EveryBlockHasOneOwner`. `DirectoriesStaySound`: `[]SoundDirectories`.
- `DriverIsFileTree`: `ImplementsFileTree`, that is, initial states map to initial states of `FileTree`, and each call to the
  step of its name and arguments, or to none.

*Argument.* `Nodes`, from which the properties are defined, is found by going down from the root, and what a call does to it cannot be read off directly.
The invariant `Ordinate` states instead what the tree is: there is a set `H` of entries and a path `at` for each with `Tidy(fat, disk, root, H, at)`. Its parts:
the root is in `H` and its second entry is a copy of it (`Rooted`); the slots of a directory in `H` lie within one block and hold
members of `H` or nothing (`Kempt`); every other member is listed in a directory of `H`, its path is that directory's with its name behind, and its `..` leads there (`Listed`);
no path belongs to two (`Hangs`); each has exactly the blocks it needs, no two share one, and every block that is not free belongs to one (`Owns`). The entries outside `H` may hold
anything, which `Make`, `unlink` and `rename` leave behind. For every call there is a lemma that it makes an `Advance`: either nothing changes, or it returns OK and there is a new
`H` and `at`, again tidy, whose tree is one the abstract operation makes of the old (`EnteredAdvance` for an entry that is made, `RemovedAdvance` for one removed, `MovesAdvance`, with the lemmas on `Shifted` paths, for one that is
renamed with all that lies below it). `FoundStep` and `Resolved` show that the driver's search by path ends at the member of `H` with that path, or with the error for there being none.
Last, `NodesAre`, `LiveAre` and `OnDiskIs` lead from `H` back to `Nodes`: a member at depth n has n directories above it, each with a first block of its own, so that `Nodes`
reaches them all within `BlockCount` levels (`DepthBound`, by counting blocks), and an entry listed in a directory of `H` is in `H`.

The only assumptions of both modules are `BlockAssumption`,
`NamespaceAssumption` and `ContentsAssumption`: there is at least one table block and one data block, at least two entries fit a block, names are
not `.`, `..` or empty, and what is written reads as entries whose first block, if any, is a data block.

`ThornFATFilesProofs` proves, for every partition and block size, every set of files and calls, and any number of power cuts:

- `NoBlockHasTwoFiles`: `[]BlocksAreOwned`. `CreatesWholeFiles`: `[]CreateIsAtomic`.
- `FilesAreReadBack`: `[]FilesReadBack`, the bytes of every file that was not cut off in the middle of a call, as `read` returns them.

*Argument.* The invariant `IInv` says at every point of a call what it has done to the disk and which writes are left. A call on an existing file
is about a row of blocks (`Row`): those of its chain in their order, then those it takes. The stages it goes through are that the chain is as it should be (`Settled`), that `forget` has freed
so many (`Forgetting`, `Gone`), that `resize` has freed so many of those behind the new last one (`Shrinking`), or has linked so many, perhaps with the next one linked
and not yet marked (`Growing`); each write leads from a stage to a stage (`StageStep`). All stages have in common (`StageShape`) that links from the row stay in the row, and that the
chain ends in it or runs into a free block. So the others are undisturbed (`Apart`): each of their chains ends and has the blocks it needs, no two share one, and the blocks nobody has are no
more than the cuts. `Creating` lists the points of `create`, where one block is at stake and the entry is never on the disk before the block's mark. Where a call is cut off, the file it was about
is either damaged or in order, and then nothing is lost (`FileCalm`); `create` may lose its block (`CreateCalm`). The rest shows that the writes the plans compute, read off the table as it is when the call
begins, are those of a first stage (`RemoveBegins`, `TruncateBegins`, `WriteBegins`, `CreateBegins`); `RoomForOne` counts names to show that the root's first block has a slot for every file. The facts about chains are
those of `ThornFATProofs`, stated again since the two specifications share the table but not their variables.

For the bytes, `KInv` adds to `IInv` what the disk owes to the callers. Between calls that is `Known` of every name: no entry has it and `content` says so, or exactly one has, of the
right length, on a chain of which every block holds its part of the bytes (`Holds`); or a cut has damaged the entry and nothing is promised. During a call the same is `Told` of all
other files, whose bytes no write of the call can reach, because every piece of data it still has to write lies in a block of its row (`DataStays`). The file it is about is `Handled`:

- a byte that the call has no business with is `Steady`: it is on the disk, and every write still to come that covers its place puts the same byte there, so a cut at any point leaves it;
- a byte of the result is `Coming`: it is on the disk or some write brings it, and all that cover it agree. When no write is left it is there, which is what `Return` claims;
- the last mark still to be written, or already made, is the FINAL that ends a chain with enough blocks for the result (`LastMark`), and the entries still to be written have its length.
  A chain that ends elsewhere while the call is under way is what `PowerCut` finds, and `LeftOf` promises only the bytes the call had no business with.

`Coming` does not imply `Steady`, nor the other way round: a byte of the old content that `write` replaces comes and is not steady, one that a shrinking `truncate` cuts off is neither.
Each is carried over a write byte by byte (`StoredByte`). What the calls set out with is the longest part: `ResizesSized`, `TruncateKnown` and `WriteKnown` show it of the three ways `resize`
takes and of the pieces `write` makes, of which `PiecesFill` says that they cover the range and nothing else. `zeroOutFree` is where `Disciplined` is used: within the last block its zeroes fall behind the new end. In the end
`ReadsPlace` equates the address that `read` computes, which starts over at the block it begins in, with the place of the byte on the whole chain.

The assumptions are `BlockAssumption`, `FilesAssumption` (a block has bytes, the files are finitely many, calls carry what they need) and `ContentAssumption`: the value that stands for "no such
file" is not itself a sequence of bytes.

### Disagreements between code and comments

`expand` is the one that a run shows (`PROJECT.json`, "findings"): the direction of the link in `newFile`'s third
scenario. Others, in all parts, that the specifications follow the code in and that have no run of their own:

- `utimens` of `/` writes the new times to the disk and not to the cached root (`ThornFAT.cpp:1274`, 265), although `getRoot` takes the one for the other (284); the next write of the
  root's entry puts the old ones back. `times` follows the code in this.
- `zeroOutFree` is said to clear the end of the last block (`ThornFAT.h:177`) and clears one run of bytes up to
  the old length (`ThornFAT.cpp:988`).
- `read` follows the chain from the first block again after its first piece (`ThornFAT.cpp:1584`); see `Readable`.
- `mkdir` of an existing name, `rename` of a file to itself: see the preconditions above.
- `UART::read` keeps the lock when it returns a receive error (`UART.cpp:227`), after which the assertion
  in `enterCritical` (`Synchronize.cpp:86`) fails sooner or later; `MaskRestored` excepts the state after it.
- `setMode` sets the bit of an output and clears it with the rest of the field (`GPIO.cpp:58`), so that in the hardware the pin stays an input.
- `disableAllInterrupts` leaves out the last register of the second bank (`GPIO.cpp:244`); the model does too (`Silenced`).
- `handlers` has 72 entries (`IRQ.cpp:63`) and the UART's line is 153: what lies there is up to the linker. The model has an entry per line.
- the assertion `fractdiv <= 63` behind the UART's divisor (`UART.cpp:149`) fails for rates whose fraction rounds up to 64; which those are is part of `BaudAgrees`.
- `getClockDivider` takes an inexact quotient down by one (`EMMC.cpp:620`), so that the clock can exceed the target; `DividerAgrees` says by how much.
- `newFile` marks a block before it looks for the parent (`ThornFAT.cpp:558`) and does not give it back when there is none (573); see `BlockLost`.
- `writeBytes` and `readBytes` pass the caller's address on with an offset (`EMMC.cpp:2103`, 2117), which may be off the word boundary that `doDataCommand` asserts (835).
- `getTag` returns true for a tag that nobody answered if it was sent with a value (`PropertyTags.cpp:37`); the caller then has its own bytes.
- `memset` with a negative character below -1 fills words with ones above the lowest byte (`memset.cpp:37`).

## 4. The console

The main loop (`src/main.cpp`), the UART driver (`src/pi/UART.cpp`) and the critical sections
(`src/aarch64/Synchronize.cpp`), on one core, with the handler of the UART's interrupt between
any two steps in which interrupts are not masked.

| Module | What it is | Code |
|---|---|---|
| `Synchronize` | the mask of the processor, the stack of saved masks, and the steps `enterCritical` and `leaveCritical` are made of | `Synchronize.cpp`, `Spinlock.cpp` |
| `Console` | the main loop, `read`, `write`, `flush`, the handler, the UART itself | `UART.cpp`, `main.cpp` |
| `ByteChannel` | the abstract specification of either direction: bytes come out in order and once, and after a loss none come out | what callers rely on |
| `ConsoleProperties` | properties and the two refinement mappings | properties only |
| `MCConsole` | scripts and views for TLC | - |
| `ConsoleProofs` | the theorems | proofs only |

**Steps.** A step of the main loop is at most one access to something the handler also uses: the
mask, the stack of masks, an index, a slot, the device. `task` is the place it is at; `moved`,
`saved`, `ch` are the locals of the functions that run. The places inside the lock are separate steps too,
although the handler cannot come between them: that it cannot is a property (`MutualExclusion`), not an
assumption. `enterCritical` reads the mask, disables, and stores in three steps. In the handler, where nothing but the
device moves, a step is one turn of a loop.

**The main loop is a script.** What `main` and the line editor print after a character is a sequence of items: one
for each character written with `write(char)`, one (`Drain`) for what `write(buffer, count)` and
`printf` do at the end, one for `flush`. `Reply` gives the scripts a newline, a deletion and any other character lead
to. `write(buffer, count)` stops at the first character that does not fit, which is `Remaining`.

**The device** is external: two FIFOs of `FifoDepth` bytes; a received byte that finds its FIFO full is lost
and the driver does not look at the flag that says so. The transmit interrupt is modelled as a level
(pending while enabled and the FIFO is at or below its trigger), the weakest reading of the PL011's
manual under which enabling the interrupt on an empty FIFO raises it, which is what `write(char)`
relies on. `wfi` ends when an interrupt is pending, masked or not; one that is not masked is taken first.
What `panic` prints is left out: it stops the machine.

**Fairness** (`Fairness`): strong for `Task` and `Interrupt`, weak for `Handler` and `Shift`. Handler and
main loop share a core that executes instructions faster than a line delivers bytes, so neither a pending, unmasked
interrupt nor the main loop is put off for ever, although each is disabled again and again by the other; this is
the strong part. Nothing is assumed of `Arrive`: nobody need type. `TypedIsRead` speaks of characters that are in the UART
while the main loop sleeps. It would be false of one that arrives between the last
`read` and `wfi`: the handler puts it in the buffer, and the loop then sleeps on it until another
interrupt comes. No comment of the code promises otherwise, so this is a stated hazard and not a finding.

| Run | Bounds | What it shows |
|---|---|---|
| `input` | rings of 4, FIFOs of 2, two characters typed at any time | the lock excludes the handler; masks are restored on every path; the input direction implements `ByteChannel`, with overruns |
| `output` | rings of 4, FIFOs of 1, one character typed | bytes in the output ring always have an interrupt to send them; the output direction implements `ByteChannel` without loss |
| `progress` | rings of 2, FIFOs of 1, commands that end with `printf`'s flush | `OutputProgress` and `TypedIsRead` under fairness |

*Bounds.* A ring of 4 holds 3 bytes, so it is empty, partly filled, full, and wraps, with FIFOs that fill independently
of it; the prompt alone overfills it, so the give-up path of `write` is taken. Rings of 2 hold one byte: full and
empty alternate, which is where a stuck direction would show. A stack of 2 masks is one more than correct nesting
needs. *Views:* `InputView` keeps the bytes of the input direction and only the number of bytes of the output, which is all
that guards of the input, the lock and the handler read of them; `OutputView` the reverse. Both drop slots
outside the rings and masks above the level, which are written before they are read, and the locals that are dead at a place.
`progress` uses no view.

*Proved* (`ConsoleProofs`), for every ring and FIFO size, depth of the stack, set of characters and
all well-formed scripts: `Exclusive` (`[]MutualExclusion`), `Armed` (`[]TransmitArmed`), `ConsoleTypeCorrect` (`[]TypeOK`),
`Restored` (`[]MaskRestored`), and that both directions implement `ByteChannel` (`InputImplementsChannel`,
`OutputImplementsChannel`). *Argument:* mutual exclusion is inductive together with "the main loop is inside the
lock only with IRQs masked" (`Excluded`). For `TransmitArmed` the invariant `Waiting` adds the places between storing a byte and
enabling the interrupt, all inside the lock. Types need that slots between the indices hold characters and not `None` (`Filled`, `Used`), that the
index taken from belongs to a slot in use at the places that rely on an earlier test, and that every suffix of a
script still ends its buffers with a drain (`Loop`). `MaskRestored` needs which mask is saved where at
each place (`MaskKept`). The refinements map a ring to the bytes between its indices, in order (`Rest`, whose length and elements `Place` gives);
a step that stores or takes a byte appends to that sequence or takes its head, at the place where the index moves and not where the slot
is written; every other step stutters. *Only model-checked:* the two liveness properties.

## 5. The heap

| Module | What it is | Code |
|---|---|---|
| `Heap` | the list of blocks with exact addresses and sizes; `allocate` (first fit, split or append) and `free` (with merge) | `Memory.cpp` |
| `Regions` | the abstract specification: a region handed out is aligned and shares no byte with one still held | what callers rely on |
| `HeapProperties` | properties and the refinement mapping | properties only |
| `HeapProofs` | the theorems | proofs only |

The linked list is the sequence of its headers in the order of their addresses; `live` is what the
callers hold, with the size they asked for. `realign`, the arithmetic of `split` (also the case in which no block follows,
where the code subtracts differently) and `merge`, which leaves alignment gaps out of the merged size,
are exact; sizes stay below 2 GB, so the code's truncation of one difference to `int` changes nothing and is left out.
Callers free what they hold, once. The heap is used only from the main loop, so a call is a step. There is no fairness and no
liveness: each call ends by itself.

Run `heap`: headers of 24 bytes and alignment of 32, sizes 8, 10 and 70, up to address 300. 8 fills an aligned place exactly,
10 leaves a gap, and a freed 70 can be split for either, with a rest or, since aligning the new header may use it up, without. `Limit` stops
requests that would extend the heap past it (the code itself never compares `end` with `high`); up to four
blocks fit below it, so a freed block merges with one in front, one behind, both, and neither.

One behaviour is a hazard without a property. A program that never holds more than two regions of 10
bytes can make the heap grow past every bound tried, because the gaps left out of merged sizes make freed
memory too small for what it held before. No document promises that it suffices.

*Proved* (`HeapProofs`), for every header size, alignment, start and set of positive sizes: all properties of the run.
`HeapTypeCorrect`, `HeadersAreSafe`, `MergedThroughout`, `HeldIsUsed`, `CounterNeverDrifts` are its invariants and `ImplementsRegions` is
`Spec => HandsOutRegions`. *Argument:* the inductive invariant `Inv` says that the blocks are in order
of their addresses with room for their bytes (`Ordered`), aligned (`Placed`), merged (`Unmerged`), and that used blocks and held
regions correspond (`Matches`). `BlocksFollow` itself compares neighbours only and is not what a step needs;
`Ordered` compares any two. `merge` is a recursive function: `MergeResult` proves, by induction on the number of
blocks merged (`AbsorbStep`), that it keeps the order, every used block, and the address of each block it keeps. In a split the
address of the new header is bounded by its alignment and the test `new_size > 0`. The refinement then follows from `Inv` in the state after the
call. For `CounterIsExact` a sum over blocks is a function of the number of blocks summed (`Sums`), unique by induction (`UsageIs`); to append, to
replace and to split a block shift that function (`UsageAppend`, `UsageExcept`, `UsageSplit`), and `merge` keeps the sum, since what a free block absorbs costs nothing
before and after (`UsageMerge`). The only assumption is `HeapAssumption`.

## 6. The SD card

`src/storage/EMMC.cpp` in the built configuration: SDHCI controller, no 1.8 V, no high speed, four data lines.

| Module | What it is | Code |
|---|---|---|
| `SDCard` | external: the card and the host controller, as the registers the driver polls show them | - |
| `EMMC` | the driver: initialisation, data mode, commands with timeouts and retries | `EMMC.cpp` up to `doWrite` |
| `BlockDevice` | the abstract specification: calls succeed or fail, and what a failed write may still store | what callers rely on |
| `EMMCProperties` | properties, fairness and the refinement mapping | properties only |
| `MCEMMC` | requests and places of faults for TLC | - |
| `EMMCProofs` | the theorems | proofs only |
| `Clocks` | the divider of the card's clock; also the UART's divisor and the system timer | `getClockDivider`, `UART::init`, `getSystemTimer` |
| `ByteAccess` | `readBytes`, `writeBytes`, and `read`, `write` at an offset, over a device of blocks | the end of `EMMC.cpp` |
| `MCByteAccess`, `ByteAccessProofs` | its instance; the theorems on byte access and on the routines | - |

**State and steps.** `dev` holds the members of `EMMCDevice` that some branch reads. `place` says which call of
`issueCommand` the driver is in, `phase` where in it: `handleInterrupts`, the CMD55 before an application command, the
command and its answer, the loop over the blocks, the wait for transfer complete, and back in the caller. One step is one wait
of the driver and what it does with the outcome; the hardware moves between any two. A command and its response are one step,
because the controller answers or times out within 64 clocks of the card, and the driver waits half a second at least. `moved` is what the
transfer put in the caller's buffer or took from it. Where the caller looks only at `lastCmdSuccess`, an error is `cmdTimeout`,
`other`, or `none` (a wait of the driver ran out: `TIMEOUT`).

**The hardware.** Blocks arrive, are taken and are programmed while the driver polls; errors can be latched, or lines stay
busy, at any time; commands and answers get lost, noise spoils answers, a controller does not come out of reset, the firmware does not turn the power on. A card can
be pulled out and put back (the same card). Each such event counts as a fault, of which a run has `MaxFaults`, at the
places of `FaultyPlaces`; what follows from a fault by itself (a transfer that cannot go on with the card gone, lines that stay busy, a
timeout because of them) is not counted again. A controller whose data lines are in use does not take a command that needs them. An error of a stale transfer that is latched
between `handleInterrupts` and the command fails the command although the card obeys it, and is cleared.

**What is promised.** A write puts its blocks in `doubtful` when it begins; they may reach the card at any time
after, also after the call has failed, until some later call succeeds. A call that succeeds leaves nothing in
doubt, and a read returns what the card holds. This is what rules out that a block or a completion of an abandoned
transfer is taken for one of the current command. It holds because `handleInterrupts` resets the data lines when it finds a block nobody
waited for, because a data command is not taken while they are in use, and because giving up leads through a reset.

**Fairness** (`Fairness`). Weak for the driver (it runs in the only thread) and for the hardware's steps that are not
faults, which includes that somebody puts the card back; strong for `CardBecomesReady`: a card asked again and again whether it is
ready eventually is. `BusySpec` adds that callers initialise the device until they succeed and then go on calling it, without which nothing
need ever succeed.

| Run | Bounds | What it shows |
|---|---|---|
| `emmc` | card addressed by byte, 3 blocks, 2 values, transfers of 1 and 2 blocks and of 3, more than a command may move, 3 faults anywhere but in the wait of `switchClockRate` | implements `BlockDevice`; driver and controller agree on the blocks left (`BlocksAccounted`); commands are `WellAddressed`; requests over the limit (0xffff in the code) fail cleanly |
| `recovery` | high capacity card, 1 block, aligned and unaligned buffers, 2 faults anywhere | `CallsReturn` and `Recovers` under `BusySpec` |
| `bytes` | 3 blocks of 4 bytes, every offset and length, both directions, buffers on and off a word boundary, failures at every access; and the routines below | `OthersUntouched`, `Delivered`; `PathsAgree`, `CopiesAgree`, `ClocksAgree` |

*Bounds.* Three faults suffice to use up the three attempts of a data command, to make an attempt fail, its retry time out and the call
after it start on lines still in use, or to lose the card in a reset that follows a failed call. Transfers of two blocks can be interrupted in the middle,
and overlap with another. In `bytes`, three blocks are a first partial, a whole and a last partial one; all bytes differ, so a byte moved from or to the wrong
place shows. A behaviour of `bytes` is one call (`CHECK_DEADLOCK FALSE`): nothing is kept between calls but the disk. `recovery` stops for good where the assertion on the buffer
fails or `switchClockRate` waits (`CHECK_DEADLOCK FALSE`); In `emmc` buffers are on a word boundary and the wait is not among the places of faults: the driver does nothing more in either state, which its properties would be about.

*What the liveness properties except.* There are four states the driver does not get out of again, and no comment
promises that it does; the properties name them, and TLC shows that there are no others.
`HalfPrepared`: `cardReset` records the address (`EMMC.cpp:1575`) before it looks at the errors of CMD3's answer, and sets the block size only
after CMD7 and CMD16; `ensureDataMode` takes a recorded address for an initialised card. When its reset fails in between, the next call
finds the card in order, `doDataCommand` refuses every buffer as no multiple of a block size of 0, and nothing ever resets the card.
`KeptWaiting`: when the answer to CMD8 is lost the driver offers no high capacity, a card that needs it stays busy, and the loop around
ACMD41 has no bound. `Inhibition`: `switchClockRate` waits for idle command and data lines in a loop without bound (`EMMC.cpp:690`), and a
controller may keep them. `Stopped`: `doDataCommand` asserts that the buffer is on a word boundary (`EMMC.cpp:835`), and the kernel stops where it is not.

*Proved.* `EMMCProofs`, for every card, set of requests, number and place of faults: `AlwaysWellAddressed`, `AlwaysBlocksAccounted` and
`DriverIsBlockDevice` (`Spec => IsBlockDevice`). The first is about one place; its
invariant `Inv` follows the address, the unit and the block size through the initialisation: a recorded address of an initialised
device implies the unit is known, each place of `cardReset` after ACMD41 and CMD3 has them, the size 8 of the SCR read does not leave that
place, and `doDataCommand` is not entered with 0. The other two say that no block and no completion of an abandoned transfer is taken for one of the current
command; the invariant follows the transfer. `Flow` is the driver's control: which phases a place goes through, with which request and counts. `Lines` says where nothing can be under way on
the data lines (`Settled`): the card is addressed again only after that, and a data command that was taken found the lines free. `Stream` says that a transfer under way at the data command is
the current one, and which blocks it has stored. `Progress` counts: what the driver has moved, the buffer holds and the card still owes add up to the request, and a latched
completion means that they are done. `Pending` says that a block in the buffer of a write is one the call may store. Each is preserved only with the others. A step of the
hardware or the driver then maps to a block stored, to the end of a call, or to nothing. They need `CardAssumption`, which now says too that the mark of an
empty buffer is no value a block can have. `ByteAccessProofs`, for every block size, device, call and address of its buffer: `OnlyTheRange`
(`[]OthersUntouched`) and `AllDelivered` (`[]Delivered`). A call either ends, and a successful one has moved all bytes, or stops at the assertion on the buffer, and then its range has a
whole block that lies off a word boundary there (`OffBoundary`). The invariant says where the next access lies (`Place`), what the block
about to be written holds (`Prepared`), and that the bytes before it are moved; `StoreInv` covers the partial and the whole write alike, since both leave the disk as
`WithMore` says. They need only the assumptions on the constants. *Only model-checked:* liveness.

*Left out:* the register writes that change the clock, behind the wait for the lines, and the question for the base clock, contents of the SCR but for the bus width (a card with four lines), the identification registers, and
the branches of `USE_SDHOST`, `SD_1_8V_SUPPORT`, `SD_HIGH_SPEED` and `USE_EMBEDDED_MMC_CM4`, which are not built.

### Routines without state

| Module | What it is | Code |
|---|---|---|
| `Paths` | `simplifyPath`, `splitToList`, `pathFirst`, `pathLast`, `pathParent` | `FS.cpp`, `util.cpp`, `ThornFATUtil.cpp` |
| `MemoryRoutines` | `memcpy`, `memmove`, `memset` as the accesses they make, in order | `memcpy.cpp`, `memmove.cpp`, `memset.cpp` |
| `Clocks` | see above | `EMMC.cpp`, `UART.cpp`, `Timer.cpp` |
| `Routines` | one call of one of them at a time, and what each is compared with | properties |

An initial state of `MCByteAccess` is either one call of `ByteAccess` or one job for a routine, so run `bytes` checks each routine
against its reference definition on all its bounded inputs. Paths are
sequences of pieces between slashes: all of up to four out of two names, `.`, `..` and nothing, from four working
directories, the empty one among them, which has every order of the four kinds of piece and `..` above the root. Copies have every combination of
alignments modulo 8 (addresses 0 to 17) and lengths 0 to 18, which covers leading bytes, units of each size, trailing bytes, and every
overlap. Fills have every alignment, the characters -1, 0, 127, 128 and 255. `memcpy` reads each unit before it writes it, which is what `memmove` relies on
when it copies downwards. Clocks are in units of 100 kHz, for base clocks up to 250 MHz and the rates the driver asks for; a half of the timer's count has 4
values, so the carry comes between any two of the five reads. `DividerAgrees` says what clock the divider gives: at least the quotient of the clocks, which is lowered by
one where it is not exact, and less than twice that. So a target that divides the base clock is never exceeded, and one that does not may be. `BaudAgrees` is about the assertions too (`BaudAccepted`): a divisor that
they accept is the nearest 64th, and they stop the kernel over a fraction exactly where the clock is no more than half a 64th below a whole divisor.

*Proved,* in `ByteAccessProofs`, for all arguments that `JobAssumption` allows: `CopiesAlwaysAgree` (`[]CopiesAgree`), `ClocksAlwaysAgree` (`[]ClocksAgree`) and `PathsAlwaysAgree` (`[]PathsAgree`), of `RoutineSpec`,
whose behaviours are single calls. `JobAssumption` says that the copied bytes exist, that `c` of `memset` is a byte or -1, that rates are not 0, and that the timer
does not run backwards nor is read for as long as its lower half takes to turn; and that the working directory is empty or canonical, which is what `Test.cpp` keeps: "/" at first, then results of `simplifyPath`. The argument for copies: `memcpy`'s three loops cover the range without gap or overlap for every choice of units (`CopySpans`),
so after each access exactly the bytes before it have moved, and its source bytes are still as they were if the destination is not inside the source's
rest (`MovedFurther`, by induction on the accesses, `CopiedForwards`); `memmove`'s other loop the same way from the end (`CopiedBackwards`). For the divider, the exponent is found
among eleven powers of two (`FirstBitIsHighest`), which is all that ten bits hold; for the timer, two turns between first and last read would take longer than
is assumed, so the second pair of reads is of one turn. For paths, `Yields(before, pieces, result)` says that `simplifyPath`'s loop
(`Turn`, piece by piece) goes from the names `before` to `result`. It always does, to one result (`YieldsSome`, `YieldsOne`); one run follows another (`YieldsJoin`); names
are all kept (`YieldsKept`); and the pieces `splitToList` leaves out would have changed nothing (`SplitYields`, by induction on the path). So `simplifyPath` goes on from the names of the working
directory (`SimplifyIs`), which gives the first four claims of `PathAgrees`. For the walk, what `find` has left after n steps is the path of the names behind
the first n (`WalkedAre`), and nothing after the last.

## 7. The board

Interrupt table, timer, pins and property tags, in one machine with one program.

| Module | What it is | Code |
|---|---|---|
| `Interrupts` | the table of handlers and the controller's enable bits; `connect`, `disconnect`, the call of a handler | `IRQ.cpp` |
| `Timer` | counter and alarm relative to each other; `init`, `disconnect`, the handler | `Timer.cpp` |
| `GPIO` | pins, the registers of event sources, the manager and its handler | `GPIO.cpp` |
| `Mailbox` | `getTag`, `getTags`, `writeRead`, and the firmware (external) | `PropertyTags.cpp`, `Mailbox.cpp` |
| `Board` | the program, the interrupts between its statements, the devices | the composition; `main.cpp` |
| `MCBoard` | tags at boot, view | - |
| `BoardProofs` | the theorems | proofs only |

**Steps.** A call is the sequence of its statements that change something another party sees (`Connect`, `Enable`, `Disable`, ...); `todo` is
what is left of it. An interrupt comes between any two of them, unless the spinlock masks it, and its handler in turn is more than
one step, between which only devices move. A call that changes a shared register reads it, keeps a copy and writes it back as separate steps
(`Fetch`, `Detect`): that no handler changes the register in between is a property of the lock and not an assumption. The acquire and release
of the spinlock are here one step each; section 4 has what they are made of. The program makes any call whose assertions hold, in any order, one after
the other: it is the only thread. `setMode` has no assertion that looks at what the pin is used for, so it may change the mode of a pin that is connected, and `disableInterrupt` none that
looks at whether the kind is set.

**What is assumed of callers and devices.** A pin's handler may acknowledge its event and may turn off an interrupt of its own pin, except while the
program is busy with that pin (`Busy`): the code's notes of what a pin expects (`interrupt`, `interrupt2`) are not protected against that, and
nothing says that they are. A request has one tag, as every caller's has. The firmware answers each message, with success where it knows
the tag, with success or failure and the value it was sent with where it does not; it may have left a message in the mailbox before boot and may send some on another
channel. A pin has an event only while it is set to detect one. Every line has an entry in the table (see section 3, disagreements).

| Run | Bounds | What it shows |
|---|---|---|
| `board` | two pins of one bank, two kinds of event, one pin at times set to be an output, period 2, alarms served up to 2 late, mailboxes of 2, two notices on another channel, a tag the firmware knows, one it does not, and one it does not that is sent with a value | `SourcesMatchPins`, `EventsAreServed`, `NoHandlerMissing`, `TicksAreKept`, `TagsAreAnswered` |

*Bounds.* Two pins of one bank share their registers, which is what a lost update needs; they are of the upper bank, where `disableAllInterrupts`
leaves one register out, and one of the kinds is the one of that register. Two kinds are as many as a pin can expect. A period of 2 with a lateness of 2 lets an
alarm be served in time, late, and after the next one is due. A mailbox of 2 can be full of notices when the answer comes. The program has at most one call
in hand and no bound on their number. *View:* `Relevant` drops the mailbox after the last answer, because nobody reads it any more. `CHECK_DEADLOCK FALSE`: after a failed assertion the kernel stops.

*What `NoHandlerMissing` says.* Of the assertions on the way from an interrupt to a handler, those that a handler is there hold, in the table of interrupts and in the manager's of pins. Two others can fail,
and nothing in the code promises otherwise. An event that is latched while a pin detects it, and handled when the program has just turned the detection
off, fails the one in `interruptHandler` that the pin expects something: `disableInterrupt` does not clear the event. And a connected pin that
`setMode` makes an output fails the one that it is an input (`GPIO.cpp:231`). No liveness is stated: `Mailbox::read` waits for the firmware without bound, and no other call waits.

*Proved,* for every set of pins and kinds, period, lateness, mailbox depth and sequence of tags: all properties of the run (`BoardProofs`):
`PeriodsAreKept` (`TicksAreKept`): `due` counts the periods that have passed less the runs of the handler; the alarm lies as many periods back from the phase as are due (`Counted`), at each place of the timer's calls, so
that a handler that skipped or doubled a period would be seen;
`OwnAnswers` (`TagsAreAnswered`), from an invariant over the place of `getTag` (`MailInv`): after the flush nothing on the tags' channel is in either mailbox but this request
or its answer, and the page holds the one that matches. `Answers` has success without an answer for a tag that is sent with a value: `getTag` then takes the caller's own bytes for the value. For the pins: `NoBitIsLost` (`SourcesMatchPins`), `NoEventIsLost` (`EventsAreServed`), `HandlersAreThere` (`NoHandlerMissing`).
*Argument.* None of the three is inductive. `PinInv` adds the place of the call in hand (`Stage`: at rest, or after which statement of connecting, disconnecting, enabling or disabling which pin) with what
holds there of that pin: the hardware detects what the pin expects, or all of it but the kind the call is about; the copy is the register as long as the lock
is held. It adds that only connected pins with a handler expect or detect anything (`PinsAreSound`), and for the table that `connect` stores before
it enables and `disconnect` disables before it clears (`Tables`). Each interrupt step is then checked at each stage, the program's at the one it belongs to. The assumptions are those
on the constants: `TimerAssumption`, `MailboxAssumption`, `PinAssumption`, `BoardAssumption`.

*Left out:* the levels of pins (`write`, `read`, `invert`, `writeAll`), vectors, priorities, and the set-up of the controller, which is straight-line code before
the first interrupt.

## 8. What is not proved, and not modelled

Liveness under fairness and everything that needs `ENABLED` is out of the prover's reach, and so are recursive operators; the recursions
of modules with theorems are recursive functions, about which induction over sets of naturals (`NatSetInduction`) gives what is needed. Induction that takes an
operator as a parameter is out of reach. Every invariant and action property that a passing run checks is proved; `OutputProgress`, `TypedIsRead`,
`CallsReturn` and `Recovers`, which are liveness, stay with TLC.

Not modelled:

- boot code, MMU tables, register access, exception printout, set-up of the interrupt controller: straight-line code that runs once, or single accesses;
- `printf` and the vendored parts of libcxx and musl: libraries that the program takes as they are; formatting decides no branch of what is modelled;
- the structures of partition tables and their printing;
- the shell's parsing of commands; its calls to the driver and the paths it builds are modelled;
- owners and modes, the times of other entries than the root's, and `blocksFree`: stored and reported, read by no branch; errors of the device under the driver, which mostly go unnoticed (section 3); power cuts inside calls on subdirectories, whose
  writes are of the same kinds as those of the root's files and multiply the states;
- the levels of pins, which nothing modelled reads;
- the branches of `USE_SDHOST`, `SD_1_8V_SUPPORT`, `SD_HIGH_SPEED`, `USE_EMBEDDED_MMC_CM4`, `ARM_ALLOW_MULTI_CORE`, which are not built.
