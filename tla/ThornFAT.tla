------------------------------ MODULE ThornFAT ------------------------------
(***************************************************************************)
(* The namespace of the ThornFAT driver: the file allocation table, the    *)
(* directory entries on disk and the root entry the driver keeps in memory,*)
(* with one action for every call of the driver that changes them.         *)
(*                                                                         *)
(* Lengths and offsets are counted in directory entries (one unit is       *)
(* sizeof(DirEntry)), so a block is EntriesPerBlock units and the entry at  *)
(* offset o lies in block o \div EntriesPerBlock.  What write stores and the*)
(* zeroes of resize matter for what they read as when a directory's slot is *)
(* read there.  Owners are left out, and times but for the root's.          *)
(*                                                                         *)
(* The partition works: every read and write of it succeeds.               *)
(***************************************************************************)
EXTENDS ThornFATTable, Sequences

CONSTANTS
    EntriesPerBlock,    \* superblock.blockSize / sizeof(DirEntry)
    Names,              \* the names that occur in paths
    Paths,              \* the simplified paths callers pass, <<>> is "/"
    Sizes,              \* the lengths passed to truncate and write
    TooLong,            \* the names longer than THORNFAT_PATH_MAX
    Contents,           \* what sizeof(DirEntry) bytes passed to write read as
    Times               \* the times passed to utimens

Dot == "."
DotDot == ".."
NoName == ""

ASSUME NamespaceAssumption ==
    /\ EntriesPerBlock \in Nat /\ EntriesPerBlock >= 2
    /\ Names \cap {Dot, DotDot, NoName} = {}
    /\ Paths \subseteq Seq(Names)
    /\ Sizes \subseteq Nat
    /\ TooLong \subseteq Names
    /\ Times \subseteq Nat

VARIABLES
    fat,      \* the file allocation table on disk
    disk,     \* the directory entry at every offset of the partition
    root,     \* the driver's cached copy of the root's "." entry
    times,    \* the times of the root's entry, on disk and in the cached copy
    call,     \* the last call and its arguments
    ret       \* what it returned

vars == <<fat, disk, root, times, call, ret>>

Offsets == 0 .. BlockCount * EntriesPerBlock - 1
RootOffset == RootBlock * EntriesPerBlock

Entry == [name : Names \union {Dot, DotDot, NoName}, type : {"file", "dir"},
          start : DataBlocks \union {FREE}, length : Nat]

ASSUME ContentsAssumption == Contents \subseteq Entry

\* nothing: an entry of zeroes, what rename and zeroOutFree leave behind.
Nothing == [name |-> NoName, type |-> "file", start |-> FREE, length |-> 0]

\* initData: the entry of an empty root, "." and ".." alike but for the name.
NewRoot == [name |-> Dot, type |-> "dir", start |-> RootBlock, length |-> 2]

\* Blocks needed for a length (updiv).
BlocksFor(length) == (length + EntriesPerBlock - 1) \div EntriesPerBlock

IsFree(table, entry) == entry.start = FREE \/ table[entry.start] = FREE

HasStuff(table, entry) ==
    IF entry.type = "file" THEN ~IsFree(table, entry)
    ELSE entry.name # DotDot /\ entry.length > 0

(* Disk after writeEntry: the root's "." is written together with its "..". *)
WriteEntry(d, offset, entry) ==
    IF offset = RootOffset
    THEN [d EXCEPT ![offset] = entry, ![offset + 1] = [entry EXCEPT !.name = DotDot]]
    ELSE [d EXCEPT ![offset] = entry]

(* A variant that leaves the cached root behind the disk. *)
CacheNothing(cached, entry) == cached

(* Cached root after writeEntry: of an entry that is not the cached one itself, the
   length is all it takes over. *)
CacheEntry(cached, entry) ==
    IF entry.start = RootBlock THEN [cached EXCEPT !.length = entry.length] ELSE cached

-----------------------------------------------------------------------------
(* Reading a directory and finding a path. *)

SlotOffset(table, dir, i) ==
    Hop(table, dir.start, i \div EntriesPerBlock) * EntriesPerBlock + (i % EntriesPerBlock)

\* readDir and the readFile under it: the chain must last as long as the length.
DirStatus(table, dir) ==
    IF dir.length = 0 \/ dir.type # "dir" THEN "ENOTDIR"
    ELSE IF \E i \in 1 .. BlocksFor(dir.length) - 1 : Hop(table, dir.start, i) = FINAL
    THEN "EINVAL"
    ELSE "OK"

\* The index newFile starts to look for a free slot at.  readDir sets it only
\* when the first entry is "." or ".."; otherwise it is uninitialised.
FirstIndices(dir) ==
    LET first == disk[dir.start * EntriesPerBlock].name
    IN  IF first = Dot THEN {2} ELSE IF first = DotDot THEN {1} ELSE 0 .. dir.length

Least(S) == {i \in S : \A j \in S : i <= j}

EntryAt(offset) == IF offset = RootOffset THEN root ELSE disk[offset]

\* The offset of the entry find takes for a name: the first that is not free.
Located(dir, name) ==
    LET matching == {i \in 0 .. dir.length - 1 :
                        LET entry == disk[SlotOffset(fat, dir, i)]
                        IN  entry.name = name /\ ~IsFree(fat, entry)}
    IN  Offsets \cap {SlotOffset(fat, dir, i) : i \in Least(matching)}

\* find: the outcome after each component of a path.
Descend(at, name) ==
    LET dir == EntryAt(at.offset)
        status == DirStatus(fat, dir)
        found == Located(dir, name)
    IN  IF at.ret # "OK" THEN at
        ELSE IF status # "OK" THEN [ret |-> status, offset |-> RootOffset]
        ELSE IF found = {} THEN [ret |-> "ENOENT", offset |-> RootOffset]
        ELSE [ret |-> "OK", offset |-> CHOOSE o \in found : TRUE]

Walk(path) ==
    LET walk[k \in 0 .. Len(path)] ==
            IF k = 0 THEN [ret |-> "OK", offset |-> RootOffset]
            ELSE Descend(walk[k - 1], path[k])
    IN  walk

Find(path) == Walk(path)[Len(path)].ret

\* The offset of the entry a path names, as a set with at most one element.
Resolve(path) ==
    LET walk == Walk(path)
    IN  IF path = <<>> THEN {RootOffset}
        ELSE IF walk[Len(path)].ret # "OK" THEN {}
        ELSE Located(EntryAt(walk[Len(path) - 1].offset), path[Len(path)])

\* find with get_parent: the directory the last component belongs to.  For "/"
\* that is the root itself, and the last component is empty.
ParentPath(path) == SubSeq(path, 1, Len(path) - 1)
LastName(path) == IF path = <<>> THEN NoName ELSE path[Len(path)]
FindParent(path) ==
    LET up == Find(ParentPath(path))
    IN  IF up = "OK" /\ \E o \in Resolve(ParentPath(path)) : EntryAt(o).type = "file"
        THEN "ENOTDIR" ELSE up

-----------------------------------------------------------------------------
(* newFile.  Its outcomes: the return code, the table, the disk and the    *)
(* cached root it leaves, and what it hands back through its out-arguments.*)

Failure(code, table) == [ret |-> code, fat |-> table, disk |-> disk, root |-> root]

\* The entry goes to offset; the parent grows by it unless it reuses a slot.
Success(table, new, dir, dirOffset, offset, grown) ==
    LET parent == [dir EXCEPT !.length = @ + grown]
        entered == WriteEntry(disk, offset, new)
    IN  [ret |-> "OK", fat |-> table,
         disk |-> IF grown = 0 THEN entered ELSE WriteEntry(entered, dirOffset, parent),
         root |-> IF grown = 0 THEN CacheEntry(root, new)
                  ELSE CacheEntry(CacheEntry(root, new), parent),
         new |-> new, offset |-> offset, parent |-> parent]

\* Scenario three: the parent's last block is full.  The block the parent should
\* grow by is linked in front of the parent's last block, not behind it.
Expand(table, free, new, dir, dirOffset, noalloc) ==
    LET last == Hop(table, dir.start, dir.length \div EntriesPerBlock - 1)
        linked == [table EXCEPT ![free] = last]
        offset == free * EntriesPerBlock
    IN  IF noalloc
        THEN IF ~HasFree(table, 1) THEN {Failure("ENOSPC", table)}
             ELSE {Success(linked, new, dir, dirOffset, offset, 1)}
        ELSE IF ~HasFree(table, 2 + BlocksFor(new.length))
             THEN {Failure("ENOSPC", [table EXCEPT ![free] = FREE])}
             ELSE {Success([linked EXCEPT ![start] = FINAL], [new EXCEPT !.start = start],
                           dir, dirOffset, offset, 1) : start \in FindFreeBlock(linked)}

\* Scenarios one (a freed slot), two (room in the only block), three (above) and
\* four (room in the last block).
Insert(table, free, new, dirOffset, noalloc) ==
    LET dir == EntryAt(dirOffset)
        freed(first) == Least({i \in first .. dir.length - 1 :
                                  IsFree(table, disk[SlotOffset(table, dir, i)])})
        append == Success(table, new, dir, dirOffset, SlotOffset(table, dir, dir.length), 1)
        place(first) ==
            IF freed(first) # {}
            THEN {Success(table, new, dir, dirOffset, SlotOffset(table, dir, i), 0)
                     : i \in freed(first)}
            ELSE IF dir.length < EntriesPerBlock
            THEN IF ~noalloc /\ ~HasFree(table, BlocksFor(new.length))
                 THEN {Failure("ENOSPC", [table EXCEPT ![free] = FREE])}
                 ELSE {append}
            ELSE IF dir.length % EntriesPerBlock # 0 THEN {append}
            ELSE Expand(table, free, new, dir, dirOffset, noalloc)
    IN  IF DirStatus(table, dir) # "OK" THEN {Failure(DirStatus(table, dir), table)}
        ELSE UNION {place(first) : first \in FirstIndices(dir)}

\* A missing parent is tolerated until the (default) entry is read as a
\* directory, after the block for the new file is allocated.  Its last name is not
\* known then, and not measured.
NewFile(path, length, type, noalloc) ==
    LET allocate(free) ==
            LET table == IF noalloc THEN fat ELSE [fat EXCEPT ![free] = FINAL]
                new == [name |-> IF noalloc THEN NoName ELSE LastName(path), type |-> type,
                        start |-> IF noalloc THEN FREE ELSE free, length |-> length]
            IN  IF FindParent(path) = "ENOENT" THEN {Failure("ENOTDIR", table)}
                ELSE UNION {Insert(table, free, new, o, noalloc) : o \in Resolve(ParentPath(path))}
    IN  IF FindParent(path) \notin {"OK", "ENOENT"} THEN {Failure(FindParent(path), fat)}
        ELSE IF FindParent(path) = "OK" /\ LastName(path) \in TooLong
        THEN {Failure("ENAMETOOLONG", fat)}
        ELSE IF FreeBlocks(fat) # {} THEN UNION {allocate(b) : b \in FindFreeBlock(fat)}
        ELSE IF noalloc THEN allocate(UNUSABLE)
        ELSE {Failure("ENOSPC", fat)}

-----------------------------------------------------------------------------
(* resize. *)

\* zeroOutFree writes as many zeroes as the file loses, in one run that starts
\* at the new end and does not follow the chain.  A write past the end of the
\* partition panics, after the pieces before it have been written.
ZeroOutFree(entry, size) ==
    LET from == Hop(fat, entry.start, (size - 1) \div EntriesPerBlock) * EntriesPerBlock
                + (size % EntriesPerBlock)
        until == from + entry.length - size
        zeroed(end) == [o \in Offsets |->
                           IF from <= o /\ o < end THEN Nothing ELSE disk[o]]
    IN  IF size % EntriesPerBlock = 0 \/ entry.length <= size
        THEN {[ret |-> "OK", disk |-> disk]}
        ELSE IF until <= BlockCount * EntriesPerBlock
        THEN {[ret |-> "OK", disk |-> zeroed(until)]}
        ELSE {[ret |-> "PANIC", disk |-> zeroed(end)] :
                 end \in from .. BlockCount * EntriesPerBlock}

\* What resize saves when all its writes succeed.
Save(table, d, entry, offset, size) ==
    LET resized == [entry EXCEPT !.length = size]
    IN  [ret |-> "OK", fat |-> table, disk |-> WriteEntry(d, offset, resized),
         root |-> CacheEntry(root, resized)]

\* The outcomes of resize, by what happens to the number of blocks.
Resize(entry, offset, size) ==
    LET old == ChainLength(fat, entry.start)
        new == BlocksFor(size)
        missing == new - old
        save(table, zero) ==
            IF zero.ret = "OK" THEN Save(table, zero.disk, entry, offset, size)
            ELSE [ret |-> zero.ret, fat |-> fat, disk |-> zero.disk, root |-> root]
    IN  IF entry.length = size THEN {Failure("OK", fat)}
        ELSE IF size = 0
        THEN {Save([Forget(fat, entry.start) EXCEPT ![entry.start] = FINAL],
                   disk, entry, offset, size)}
        ELSE IF new = old
        THEN {save(fat, zero) : zero \in ZeroOutFree(entry, size)}
        ELSE IF new < old
        THEN {save(Shrink(fat, entry.start, new), zero) : zero \in ZeroOutFree(entry, size)}
        ELSE IF ~HasFree(fat, missing) THEN {Failure("ENOSPC", fat)}
        ELSE {Save(Extend(fat, tail, taken, missing), disk, entry, offset, size) :
                 tail \in Tails(fat, entry.start), taken \in LowestFree(fat, missing)}

-----------------------------------------------------------------------------
(* The driver's calls.  After a panic only a restart follows. *)

Calls == ret # "PANIC"
Called(c) == Calls /\ call' = c

Fail(code) == /\ ret' = code
              /\ UNCHANGED <<fat, disk, root, times>>

Leave(outcome) == /\ ret' = outcome.ret
                  /\ fat' = outcome.fat
                  /\ disk' = outcome.disk
                  /\ root' = outcome.root

\* Where a call writes the root's entry with another length, it writes a copy of the
\* cached one, times included.
Become(outcome) ==
    /\ Leave(outcome)
    /\ times' = IF outcome.root = root THEN times ELSE [times EXCEPT !.disk = times.cached]

\* find fails, and the call with it.
NotFound(path) == Resolve(path) = {} /\ Fail(Find(path))

Create(path) ==
    /\ Called(<<"create", path>>)
    /\ IF Find(path) = "OK" THEN Fail("EEXIST")
       ELSE \E made \in NewFile(path, 0, "file", FALSE) : Become(made)

\* A variant of mkdir that leaves the parent's name in the ".." entry.
MkdirUnnamed(path) ==
    /\ Called(<<"mkdir", path>>)
    /\ \E made \in NewFile(path, 1, "dir", FALSE) :
          Become(IF made.ret # "OK" THEN made
                 ELSE [made EXCEPT !.disk = WriteEntry(@, made.new.start * EntriesPerBlock,
                                                       made.parent)])

\* mkdir does not look whether the name exists.  The first entry of the new
\* directory is a copy of its parent's, renamed.
Mkdir(path) ==
    /\ Called(<<"mkdir", path>>)
    /\ \E made \in NewFile(path, 1, "dir", FALSE) :
          IF made.ret # "OK" THEN Become(made)
          ELSE LET up == [made.parent EXCEPT !.name = DotDot]
                   first == made.new.start * EntriesPerBlock
               IN  Become([made EXCEPT !.disk = WriteEntry(@, first, up),
                                       !.root = CacheEntry(@, up)])

\* Variants of unlink: one frees the blocks before it looks at the type, one leaves
\* the entry pointing at the blocks it freed.
UnlinkForgetsFirst(path) ==
    /\ Called(<<"unlink", path>>)
    /\ \/ NotFound(path)
       \/ \E o \in Resolve(path) :
             Become([ret |-> IF EntryAt(o).type = "dir" THEN "EISDIR" ELSE "OK",
                     fat |-> Forget(fat, EntryAt(o).start), root |-> root,
                     disk |-> WriteEntry(disk, o, [EntryAt(o) EXCEPT !.start = FREE])])
UnlinkKeepsStart(path) ==
    /\ Called(<<"unlink", path>>)
    /\ \/ NotFound(path)
       \/ \E o \in Resolve(path) :
             IF EntryAt(o).type = "dir" THEN Fail("EISDIR")
             ELSE Become([ret |-> "OK", fat |-> Forget(fat, EntryAt(o).start), root |-> root,
                          disk |-> disk])

\* The entry of a removed file keeps its name and length.
Unlink(path) ==
    /\ Called(<<"unlink", path>>)
    /\ \/ NotFound(path)
       \/ \E o \in Resolve(path) :
             IF EntryAt(o).type = "dir" THEN Fail("EISDIR")
             ELSE Become([ret |-> "OK", fat |-> Forget(fat, EntryAt(o).start), root |-> root,
                          disk |-> WriteEntry(disk, o, [EntryAt(o) EXCEPT !.start = FREE])])

\* directoryEmpty; an error counts as empty for rmdir.
DirectoryEmpty(dir) ==
    \/ dir.length <= 1
    \/ DirStatus(fat, dir) # "OK"
    \/ \A i \in 0 .. dir.length - 1 : ~HasStuff(fat, disk[SlotOffset(fat, dir, i)])

Rmdir(path) ==
    /\ Called(<<"rmdir", path>>)
    /\ \/ path = <<>> /\ Fail("EINVAL")
       \/ path # <<>> /\ NotFound(path)
       \/ \E o \in Resolve(path) :
             /\ path # <<>>
             /\ IF EntryAt(o).type = "file" THEN Fail("ENOTDIR")
                ELSE IF ~DirectoryEmpty(EntryAt(o)) THEN Fail("ENOTEMPTY")
                ELSE Become([ret |-> "OK", fat |-> Forget(fat, EntryAt(o).start), root |-> root,
                             disk |-> WriteEntry(disk, o, [EntryAt(o) EXCEPT !.start = FREE,
                                                                             !.length = 0])])

\* A variant of rename's writes that leaves the old slot alone.
MovedTwice(d, entry, from, to, name) == [d EXCEPT ![to] = [entry EXCEPT !.name = name]]

\* The writes of rename bypass writeEntry: the entry found first goes, under its
\* new name, to the destination's slot, then its old slot is overwritten.
Moved(d, entry, from, to, name) ==
    [d EXCEPT ![to] = [entry EXCEPT !.name = name], ![from] = Nothing]

\* The destination exists: its file is removed and its slot taken over.
RenameOver(dest, from, to) ==
    LET removed == [EntryAt(to) EXCEPT !.start = FREE]
    IN  IF EntryAt(to).type = "dir" THEN Fail("EISDIR")
        ELSE Become([ret |-> "OK", fat |-> Forget(fat, EntryAt(to).start), root |-> root,
                     disk |-> Moved(WriteEntry(disk, to, removed), EntryAt(from),
                                    from, to, LastName(dest))])

\* It does not: newFile makes a slot for it, without allocating.
RenameTo(dest, from) ==
    \E made \in NewFile(dest, 0, EntryAt(from).type, TRUE) :
        IF made.ret # "OK" THEN Become(made)
        ELSE Become([made EXCEPT !.disk = Moved(@, EntryAt(from), from, made.offset,
                                                LastName(dest))])

Rename(src, dest) ==
    /\ Called(<<"rename", src, dest>>)
    /\ \/ NotFound(src)
       \/ \E from \in Resolve(src) :
             \/ Find(dest) \notin {"OK", "ENOENT"} /\ Fail(Find(dest))
             \/ Find(dest) = "ENOENT" /\ RenameTo(dest, from)
             \/ \E to \in Resolve(dest) : RenameOver(dest, from, to)

Truncate(path, size) ==
    /\ Called(<<"truncate", path, size>>)
    /\ \/ NotFound(path)
       \/ \E o \in Resolve(path) : \E resized \in Resize(EntryAt(o), o, size) : Become(resized)

\* The pieces of what is written land on the slots of the file, as far as its
\* chain goes.
Overwritten(table, d, file, size, pieces) ==
    LET written == Offsets \cap {SlotOffset(table, file, i) : i \in 0 .. size - 1}
    IN  {[o \in Offsets |-> IF o \in written THEN piece[o] ELSE d[o]] :
            piece \in [written -> pieces]}

\* What write leaves when its resize has left resized: the file's entry is written
\* once more, over what the data may have done to it.
Fill(resized, file, offset, size, pieces) ==
    IF resized.ret # "OK" THEN {resized}
    ELSE {[resized EXCEPT !.disk = WriteEntry(d, offset, file),
                          !.root = CacheEntry(@, file)] :
             d \in Overwritten(resized.fat, resized.disk, file, size, pieces)}

\* write, at the offset its only caller passes, 0.  Whether the path is that of a
\* directory is not looked at.
Write(path, size, pieces) ==
    /\ Called(<<"write", path, size>>)
    /\ \/ NotFound(path)
       \/ \E o \in Resolve(path) :
             LET entry == EntryAt(o)
                 length == IF size > entry.length THEN size ELSE entry.length
                 file == [entry EXCEPT !.length = length]
             IN  \E resized \in Resize(entry, o, length) :
                     \E filled \in Fill(resized, file, o, size, pieces) :
                         /\ Leave(filled)
                         /\ times' = IF o = RootOffset /\ filled.ret = "OK"
                                     THEN [times EXCEPT !.disk = times.cached] ELSE times

\* The entry found is written back, with other times.
Touch(offset, time) ==
    /\ Leave([ret |-> "OK", fat |-> fat, disk |-> WriteEntry(disk, offset, EntryAt(offset)),
              root |-> CacheEntry(root, EntryAt(offset))])
    /\ times' = IF offset = RootOffset THEN [times EXCEPT !.disk = time] ELSE times

\* The times of the cached root stay what they were.
Utimens(path, time) ==
    /\ Called(<<"utimens", path>>)
    /\ \/ NotFound(path)
       \/ \E o \in Resolve(path) : Touch(o, time)

\* read writes the entry it found back as it was.
Read(path) ==
    /\ Called(<<"read", path>>)
    /\ \/ NotFound(path)
       \/ \E o \in Resolve(path) :
             IF EntryAt(o).length > 0 THEN Touch(o, times.cached)
             ELSE Fail(IF EntryAt(o).type = "dir" THEN "ENOENT" ELSE "OK")

\* A new driver object: the root is read when it is first needed.
Restart ==
    /\ call' = <<"restart">>
    /\ ret' = "OK"
    /\ root' = disk[RootOffset]
    /\ times' = [times EXCEPT !.cached = times.disk]
    /\ UNCHANGED <<fat, disk>>

\* make, on a partition that may hold an older file system.
Make ==
    /\ Called(<<"make">>)
    /\ ret' = "OK"
    /\ fat' = InitFAT
    /\ disk' = WriteEntry(disk, RootOffset, NewRoot)
    /\ root' = NewRoot
    /\ times' = [disk |-> 0, cached |-> 0]

Init ==
    /\ fat = InitFAT
    /\ disk = WriteEntry([o \in Offsets |-> Nothing], RootOffset, NewRoot)
    /\ root = NewRoot
    /\ times = [disk |-> 0, cached |-> 0]
    /\ call = <<"make">>
    /\ ret = "OK"

\* What can be written into a directory, or end up in one that truncate lengthens,
\* without naming blocks: the driver takes any bytes there for entries.
Harmless == {piece \in Contents : piece.start = FREE}

\* What the shell can ask of a partition once it is made: its arguments are any
\* simplified paths, what it writes is harmless.
ShellNext ==
    \/ \E path \in Paths : Create(path) \/ Mkdir(path) \/ Unlink(path) \/ Rmdir(path) \/ Read(path)
    \/ \E path \in Paths, size \in Sizes : Truncate(path, size) \/ Write(path, size, Harmless)
    \/ Restart

\* The whole interface.  Nothing calls utimens and rename in this code base; the source
\* of rename is taken to be another path than "/", which it would overwrite with zeroes.
Next ==
    \/ ShellNext
    \/ \E path \in Paths, time \in Times : Utimens(path, time)
    \/ \E src \in Paths \ {<<>>}, dest \in Paths : Rename(src, dest)

TypeOK ==
    /\ fat \in [Blocks -> Links]
    /\ disk \in [Offsets -> Entry]
    /\ root \in Entry
    /\ times \in [disk : Times \union {0}, cached : Times \union {0}]
    /\ ret \in {"OK", "EEXIST", "EINVAL", "EISDIR", "ENAMETOOLONG", "ENOENT", "ENOSPC",
                "ENOTDIR", "ENOTEMPTY", "PANIC"}

Spec == Init /\ [][Next]_vars
ShellSpec == Init /\ [][ShellNext]_vars

-----------------------------------------------------------------------------
(* Disciplined callers: the calls after which the driver leaves a sound file *)
(* system.  What a caller must see to, because the code does not:            *)

\* there is a slot for the new entry in a readable parent directory;
HasRoom(path) ==
    /\ path # <<>>
    /\ \E o \in Resolve(ParentPath(path)) :
          LET dir == EntryAt(o)
          IN  /\ DirStatus(fat, dir) = "OK"
              /\ \/ dir.length < EntriesPerBlock
                 \/ \E i \in 1 .. dir.length - 1 : IsFree(fat, disk[SlotOffset(fat, dir, i)])

\* only files are written, whatever the bytes;
Writable(path) == \A o \in Resolve(path) : EntryAt(o).type = "file"

\* only files are truncated, and not across a block boundary they do not end on;
Truncatable(path, size) ==
    \A o \in Resolve(path) :
        /\ EntryAt(o).type = "file"
        /\ \/ size % EntriesPerBlock = 0
           \/ EntryAt(o).length <= size
           \/ BlocksFor(EntryAt(o).length) = BlocksFor(size)

\* a name is moved to another one, and a directory stays where it is.
Movable(src, dest) ==
    /\ src # dest
    /\ src # <<>>
    /\ \E from \in Resolve(src) : EntryAt(from).type = "file"
                                  \/ ParentPath(src) = ParentPath(dest)
    /\ Find(dest) = "ENOENT" => FindParent(dest) = "ENOENT" \/ HasRoom(dest)

DisciplinedNext ==
    \/ \E path \in Paths : \/ (HasRoom(path) \/ Find(path) = "OK") /\ Create(path)
                           \/ HasRoom(path) /\ Find(path) = "ENOENT" /\ Mkdir(path)
                           \/ Unlink(path) \/ Rmdir(path) \/ Read(path)
    \/ \E path \in Paths, time \in Times : Utimens(path, time)
    \/ \E path \in Paths, size \in Sizes :
          \/ Truncatable(path, size) /\ Truncate(path, size)
          \/ Writable(path) /\ Write(path, size, Contents)
    \/ \E src, dest \in Paths : Movable(src, dest) /\ Rename(src, dest)
    \/ Restart
    \/ Make

DisciplinedSpec == Init /\ [][DisciplinedNext]_vars
=============================================================================
