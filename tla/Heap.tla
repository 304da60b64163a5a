-------------------------------- MODULE Heap --------------------------------
(***************************************************************************)
(* The heap: a list of blocks, each a header and the bytes behind it, in    *)
(* the order of their addresses.  Allocation takes the first free block     *)
(* that is large enough and splits it, or appends one; freeing merges.      *)
(* Addresses and sizes are exact; the list is the sequence of its headers.  *)
(***************************************************************************)
EXTENDS Integers, Sequences

CONSTANTS
    Start,           \* where setBounds puts the heap
    HeaderSize,      \* sizeof(BlockMeta)
    MEMORY_ALIGN,    \* alignment of the bytes behind a header
    Sizes,           \* what callers ask for
    Limit            \* bound: no request that would take the heap past it

ASSUME HeapAssumption ==
    /\ Start \in Nat
    /\ HeaderSize \in Nat \ {0}
    /\ MEMORY_ALIGN \in Nat \ {0}
    /\ Sizes \subseteq Nat \ {0}
    /\ Limit \in Nat

VARIABLES
    blocks,       \* the list from base: [at, size, free]
    end,
    allocated,
    live          \* what the callers hold: [ptr, size], the size they asked for

vars == <<blocks, end, allocated, live>>

Block == [at : Nat, size : Nat, free : BOOLEAN]

realign(val) ==
    LET offset == (val + HeaderSize) % MEMORY_ALIGN
    IN  IF offset = 0 THEN val ELSE val + (MEMORY_ALIGN - offset)

\* What follows the bytes of a block.
After(block) == block.at + HeaderSize + block.size

Init ==
    /\ blocks = <<>>
    /\ end = Start
    /\ allocated = 0
    /\ live = {}

-----------------------------------------------------------------------------

\* The blocks an allocation can take, and the one it takes.
Fits(size) == {i \in 1 .. Len(blocks) : blocks[i].free /\ blocks[i].size >= size}
findFreeBlock(size) == CHOOSE i \in Fits(size) : \A j \in Fits(size) : i <= j

Give(block, size) ==
    /\ allocated' = allocated + block.size + HeaderSize
    /\ live' = live \union {[ptr |-> block.at + HeaderSize, size |-> size]}

\* allocate, when no free block is large enough.
requestSpace(size) ==
    LET block == [at |-> realign(end), size |-> size, free |-> FALSE]
    IN  /\ Fits(size) = {}
        /\ After(block) < Limit
        /\ blocks' = Append(blocks, block)
        /\ end' = After(block) + 1
        /\ Give(block, size)

\* A variant of split that leaves no room for the new header.
RestUnheaded(i, at) ==
    IF i < Len(blocks) THEN blocks[i + 1].at - at ELSE After(blocks[i]) - at

\* The bytes behind a header put at an address in block i.
Rest(i, at) ==
    IF i < Len(blocks) THEN blocks[i + 1].at - at - HeaderSize
    ELSE blocks[i].at + blocks[i].size - at

\* A variant that trusts the size and forgets the alignment.
SplitsUnaligned(i, size, at) == blocks[i].size > size + HeaderSize

\* Whether block i leaves a header at that address and at least a byte behind it.
Splits(i, size, at) == blocks[i].size > size + HeaderSize /\ Rest(i, at) > 0

\* allocate, when block i is free and large enough.
split(i, size) ==
    LET block == blocks[i]
        at == realign(block.at + size + HeaderSize + 1)
        first == [block EXCEPT !.size = size, !.free = FALSE]
        second == [at |-> at, size |-> Rest(i, at), free |-> TRUE]
        whole == [block EXCEPT !.free = FALSE]
    IN  IF Splits(i, size, at)
        THEN /\ blocks' = [j \in 1 .. Len(blocks) + 1 |->
                              IF j < i THEN blocks[j]
                              ELSE IF j = i THEN first
                              ELSE IF j = i + 1 THEN second ELSE blocks[j - 1]]
             /\ Give(first, size)
        ELSE /\ blocks' = [blocks EXCEPT ![i] = whole]
             /\ Give(whole, size)

Reuse(size) ==
    /\ Fits(size) # {}
    /\ split(findFreeBlock(size), size)
    /\ UNCHANGED end

allocate(size) == requestSpace(size) \/ Reuse(size)

\* A variant of merge that looks only at the block in front.
AbsorbAny(list, block) ==
    IF list # <<>> /\ list[Len(list)].free
    THEN [list EXCEPT ![Len(list)].size = @ + HeaderSize + block.size]
    ELSE Append(list, block)

\* merge: a free block absorbs the free block behind it.
Absorb(list, block) ==
    IF list # <<>> /\ list[Len(list)].free /\ block.free
    THEN [list EXCEPT ![Len(list)].size = @ + HeaderSize + block.size]
    ELSE Append(list, block)

merge(list) ==
    LET merged[n \in 0 .. Len(list)] ==
            IF n = 0 THEN <<>> ELSE Absorb(merged[n - 1], list[n])
    IN  merged[Len(list)]

\* The block behind a pointer.
getBlock(ptr) == CHOOSE i \in 1 .. Len(blocks) : blocks[i].at = ptr - HeaderSize

\* A variant of free that does not merge.
FreeUnmerged(held) ==
    LET i == getBlock(held.ptr)
    IN  /\ allocated' = allocated - (blocks[i].size + HeaderSize)
        /\ blocks' = [blocks EXCEPT ![i].free = TRUE]
        /\ live' = live \ {held}
        /\ UNCHANGED end

\* A variant of free that takes off what was asked for.
FreeAsked(held) ==
    LET i == getBlock(held.ptr)
    IN  /\ allocated' = allocated - (held.size + HeaderSize)
        /\ blocks' = merge([blocks EXCEPT ![i].free = TRUE])
        /\ live' = live \ {held}
        /\ UNCHANGED end

free(held) ==
    LET i == getBlock(held.ptr)
    IN  /\ allocated' = allocated - (blocks[i].size + HeaderSize)
        /\ blocks' = merge([blocks EXCEPT ![i].free = TRUE])
        /\ live' = live \ {held}
        /\ UNCHANGED end

Next ==
    \/ \E size \in Sizes : allocate(size)
    \/ \E held \in live : free(held)

Spec == Init /\ [][Next]_vars

TypeOK ==
    /\ blocks \in Seq(Block)
    /\ end \in Nat
    /\ allocated \in Int
    /\ live \in SUBSET [ptr : Nat, size : Sizes]
=============================================================================
