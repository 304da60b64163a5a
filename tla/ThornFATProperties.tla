------------------------ MODULE ThornFATProperties ------------------------
(***************************************************************************)
(* What a sound ThornFAT file system is, as properties of ThornFAT.        *)
(***************************************************************************)
EXTENDS ThornFAT

Slots(dir) == {SlotOffset(fat, dir, i) : i \in 0 .. dir.length - 1}

\* The entries a directory lists, but for the meta-entries.
Children(dir) ==
    IF dir.type = "file" THEN {}
    ELSE {o \in Slots(dir) \cap Offsets :
            disk[o].name \notin {Dot, DotDot} /\ ~IsFree(fat, disk[o])}

\* The entries that hang from the root, level by level; every directory takes a
\* block, so there are never more levels than blocks.
Nodes ==
    LET below(node) ==
            {[path |-> Append(node.path, disk[o].name), offset |-> o]
                : o \in Children(EntryAt(node.offset))}
        level[depth \in 0 .. BlockCount] ==
            IF depth = 0 THEN {[path |-> <<>>, offset |-> RootOffset]}
            ELSE UNION {below(node) : node \in level[depth - 1]}
    IN  UNION {level[depth] : depth \in 0 .. BlockCount}

Live == {node.offset : node \in Nodes}

LiveDirs == {o \in Live : EntryAt(o).type = "dir"}

\* A block is free or on the chain of exactly one live entry: nothing is leaked
\* by a call that fails or removes, and no two entries share a block.
EveryBlockHasOneOwner ==
    LET live == Live
        chain == [o \in live |-> Chain(fat, EntryAt(o).start)]
    IN  \A b \in DataBlocks :
            Cardinality({o \in live : b \in chain[o]}) = IF fat[b] = FREE THEN 0 ELSE 1

\* No directory lists a name twice, so every entry can be reached by a path.
UniqueNames ==
    \A d \in LiveDirs : \A o, p \in Children(EntryAt(d)) :
        o # p => disk[o].name # disk[p].name

\* A live entry has the blocks its length needs, and keeps one when it is empty.
LengthMatchesChain ==
    \A o \in Live :
        ChainLength(fat, EntryAt(o).start) =
            IF EntryAt(o).length = 0 THEN 1 ELSE BlocksFor(EntryAt(o).length)

\* The cached root entry is the one on disk in all the driver goes by, a restart finds the
\* same root.  Its times are left out: those of the two differ after utimens of "/".
RootCacheCoherent == root = disk[RootOffset]

\* The first entry of every directory but the root names its parent's block.
DotDotNamesParent ==
    \A d \in LiveDirs : \A c \in Children(EntryAt(d)) :
        disk[c].type = "dir" =>
            LET up == disk[disk[c].start * EntriesPerBlock]
            IN  up.name = DotDot /\ up.start = EntryAt(d).start

\* The blocks of one live entry are never on the chain of another.
NoSharedBlocks ==
    LET chain == [o \in Live |-> Chain(fat, EntryAt(o).start)]
    IN  \A o, p \in DOMAIN chain : o # p => chain[o] \cap chain[p] = {}

\* The table's own blocks stay out of use and the root's first block taken.
ReservedIntact ==
    /\ \A b \in 0 .. FatBlocks : fat[b] = UNUSABLE
    /\ fat[RootBlock] # FREE

\* A chain that is in use ends at FINAL: no walk along it reaches a free block.
ChainsTerminate ==
    \A o \in Live : \A b \in Chain(fat, EntryAt(o).start) :
        fat[b] = FINAL \/ fat[b] \in Chain(fat, EntryAt(o).start)

\* A directory never has more blocks than its length needs, so that the trimming
\* in readFile, which would not free what it cuts off, has nothing to cut.
NothingToTrim ==
    \A d \in LiveDirs :
        EntryAt(d).length > 0 /\ DirStatus(fat, EntryAt(d)) = "OK" =>
            fat[Hop(fat, EntryAt(d).start, BlocksFor(EntryAt(d).length) - 1)] = FINAL

\* Whatever calls are made, failing ones and ones that ruin a directory included, the
\* table's own blocks stay out of use, chains end, and readFile finds nothing to cut off.
SoundTable == ReservedIntact /\ ChainsTerminate /\ NothingToTrim

\* Under the discipline every directory is what its entries say: names occur once, lengths
\* are those of the chains, and ".." leads to the parent.
SoundDirectories == UniqueNames /\ LengthMatchesChain /\ DotDotNamesParent

\* A call that fails leaves the disk and the cached root as they were.  But create and
\* mkdir under a parent that is missing or cannot be read lose the block that they took
\* before they looked.
BlockLost ==
    /\ call'[1] \in {"create", "mkdir"} /\ ret' \in {"ENOTDIR", "EINVAL"}
    /\ \E b \in FindFreeBlock(fat) : fat' = [fat EXCEPT ![b] = FINAL]
FailureIsAtomic ==
    [][ret' \notin {"OK", "PANIC"} =>
           UNCHANGED <<disk, root, times>> /\ (fat' = fat \/ BlockLost)]_vars

-----------------------------------------------------------------------------
(* The tree of paths on the disk, and the driver as an implementation of it.*)

OnDisk ==
    {LET entry == EntryAt(node.offset)
     IN  [path |-> node.path, type |-> entry.type,
          length |-> IF entry.type = "dir" THEN 0 ELSE entry.length] : node \in Nodes}

Tree == INSTANCE FileTree WITH tree <- OnDisk

\* Every call does to the path it is made with what its name says, and nothing to any
\* other, or fails and leaves the tree alone.
ImplementsFileTree == Tree!Spec

-----------------------------------------------------------------------------
(* What a comment in the source says and the code does not do. *)

\* The block taken when a directory is full becomes its next block
\* (ThornFAT.cpp, newFile): a directory is never longer than its chain.
DirectoriesReadable == \A d \in LiveDirs : DirStatus(fat, EntryAt(d)) # "EINVAL"
=============================================================================
