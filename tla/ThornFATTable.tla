--------------------------- MODULE ThornFATTable ---------------------------
(***************************************************************************)
(* The file allocation table of a ThornFAT partition, as a value: the      *)
(* table make() writes, and what the driver's loops over readFAT and       *)
(* writeFAT compute from it.  A table maps every block of the partition to *)
(* the next block of the chain it is in, or to one of three marks.         *)
(*                                                                         *)
(* Nothing here is declared RECURSIVE: a position on a chain is a recursive *)
(* function of the number of hops, the set of its blocks a closure.        *)
(***************************************************************************)
EXTENDS Integers, FiniteSets

CONSTANTS
    BlockCount,      \* superblock.blockCount
    FatBlocks        \* superblock.fatBlocks: blocks the table itself takes

ASSUME BlockAssumption ==
    /\ FatBlocks \in Nat \ {0}
    /\ BlockCount \in Nat
    /\ FatBlocks + 1 < BlockCount

FREE == 0
UNUSABLE == -1
FINAL == -2

Blocks == 0 .. BlockCount - 1
RootBlock == FatBlocks + 1                  \* superblock.startBlock
DataBlocks == RootBlock .. BlockCount - 1
Links == DataBlocks \union {FREE, UNUSABLE, FINAL}

\* A variant of initFAT with its bound off by one: the last block of the table is
\* left free.
ShortInitFAT == [b \in Blocks |->
    IF b < FatBlocks THEN UNUSABLE ELSE IF b = RootBlock THEN FINAL ELSE FREE]

\* initFAT: the superblock and the table are unusable, the root takes one block.
InitFAT == [b \in Blocks |->
    IF b <= FatBlocks THEN UNUSABLE ELSE IF b = RootBlock THEN FINAL ELSE FREE]

FreeBlocks(table) == {b \in Blocks : table[b] = FREE}

\* findFreeBlock: the free block with the lowest number, or nothing.
FindFreeBlock(table) ==
    {b \in FreeBlocks(table) : \A c \in FreeBlocks(table) : b <= c}

\* hasFree: asking for no block at all still needs one free block.
HasFree(table, count) ==
    Cardinality(FreeBlocks(table)) >= IF count = 0 THEN 1 ELSE count

\* The block reached from start by following i links; a walk that leaves the
\* table stays at the mark it ended on.
Hop(table, start, i) ==
    LET follow(block) == IF block \in Blocks THEN table[block] ELSE block
        hop[k \in 0 .. i] == IF k = 0 THEN start ELSE follow(hop[k - 1])
    IN  IF i = 0 THEN start ELSE hop[i]

\* The chain that starts at a block: the smallest set of blocks that holds start
\* and, with a block, the block it links to.
Closed(table, S) == \A b \in S : table[b] \in DataBlocks => table[b] \in S
Chain(table, start) ==
    {b \in DataBlocks : \A S \in SUBSET DataBlocks :
        start \in S /\ Closed(table, S) => b \in S}

\* chainLength; a start block that is free has no chain.
ChainLength(table, start) ==
    IF table[start] = FREE THEN 0 ELSE Cardinality(Chain(table, start))

\* A variant of forget that stops in front of the last block.
ForgetAllButLast(table, start) ==
    [b \in Blocks |->
        IF b \in Chain(table, start) /\ table[b] # FINAL THEN FREE ELSE table[b]]

\* forget: every block on the chain is free afterwards.
Forget(table, start) ==
    LET chain == Chain(table, start)
    IN  [b \in Blocks |->
            IF b \in chain /\ table[b] # UNUSABLE THEN FREE ELSE table[b]]

\* Where the loop of resize that looks for the end of a chain stops.
Tails(table, start) == {b \in Chain(table, start) : table[b] \notin DataBlocks}

\* The blocks that count successive calls of findFreeBlock return when each is
\* linked in before the next call: the count lowest, in ascending order.
LowestFree(table, count) ==
    {taken \in [1 .. count -> FreeBlocks(table)] :
        /\ \A i, j \in 1 .. count : i < j => taken[i] < taken[j]
        /\ \A c \in FreeBlocks(table) :
              \/ \E i \in 1 .. count : taken[i] = c
              \/ \A i \in 1 .. count : taken[i] < c}

\* resize, growing: the taken blocks are linked one after another behind tail.
Extend(table, tail, taken, count) == [b \in Blocks |->
    IF b = tail THEN taken[1]
    ELSE IF b = taken[count] THEN FINAL
    ELSE IF \E i \in 1 .. count - 1 : taken[i] = b
         THEN taken[1 + CHOOSE i \in 1 .. count - 1 : taken[i] = b]
    ELSE table[b]]

\* A variant of the shrinking that keeps a block too few.
ShrinkTooMuch(table, start, count) ==
    [b \in Blocks |->
        IF b \in Chain(table, start) \ {Hop(table, start, i) : i \in 0 .. count - 2}
        THEN FREE ELSE table[b]]

\* resize, shrinking: the first count blocks stay, the others are freed.
Shrink(table, start, count) ==
    LET chain == Chain(table, start)
        kept == {Hop(table, start, i) : i \in 0 .. count - 1}
    IN  [b \in Blocks |->
            IF b \notin chain THEN table[b]
            ELSE IF b = Hop(table, start, count - 1) THEN FINAL
            ELSE IF b \in kept THEN table[b] ELSE FREE]
=============================================================================
