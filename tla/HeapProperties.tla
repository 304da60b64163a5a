--------------------------- MODULE HeapProperties ---------------------------
(***************************************************************************)
(* What the heap promises, as properties of Heap.                          *)
(***************************************************************************)
EXTENDS Heap

Pool == INSTANCE Regions

\* Whatever is allocated and freed in whatever order, a region handed out is aligned
\* and shares no byte with one still held: splits and merges never give a byte twice.
HandsOutRegions == Pool!Spec

Indices == 1 .. Len(blocks)
Used == {i \in Indices : ~blocks[i].free}

\* The blocks follow each other: the bytes of one end before the header of the next
\* and before end, so that no header lies in bytes that callers write.
BlocksFollow ==
    /\ \A i \in Indices : i < Len(blocks) => After(blocks[i]) <= blocks[i + 1].at
    /\ blocks # <<>> => After(blocks[Len(blocks)]) < end

\* The used blocks are those the callers hold, each large enough: none is lost and
\* none is merged away.
UsedAreHeld ==
    /\ {blocks[i].at + HeaderSize : i \in Used} = {held.ptr : held \in live}
    /\ \A held \in live : held.size <= blocks[getBlock(held.ptr)].size

\* What a block takes from the heap while it is used, and what all of them do.
Cost(block) == IF block.free THEN 0 ELSE block.size + HeaderSize
Usage(list) ==
    LET sum[n \in 0 .. Len(list)] == IF n = 0 THEN 0 ELSE sum[n - 1] + Cost(list[n])
    IN  sum[Len(list)]

\* The counter is what the used blocks take, although splits and merges change sizes.
CounterIsExact == allocated = Usage(blocks)

\* Free memory is merged: no free block follows another, however blocks were freed.
FreeIsMerged ==
    \A i \in Indices : i < Len(blocks) => ~(blocks[i].free /\ blocks[i + 1].free)
=============================================================================
