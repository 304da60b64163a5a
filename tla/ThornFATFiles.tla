---------------------------- MODULE ThornFATFiles ----------------------------
(***************************************************************************)
(* The bytes of regular files, and what a power cut leaves of them.        *)
(*                                                                         *)
(* create, unlink, truncate and write, called on files of the root          *)
(* directory, are sequences of writes to the partition: marks in the table, *)
(* entries, the length of the directory, pieces of data.  Here every write  *)
(* is a step, in the code's order, and the power may fail between any two.  *)
(* Nothing but the disk survives that, and the driver has no repair tool.   *)
(* ThornFAT.tla has the whole namespace, with a step per call.              *)
(***************************************************************************)
EXTENDS ThornFATTable, Sequences

CONSTANTS
    BlockSize,      \* superblock.blockSize
    Files,          \* names of files
    Calls,          \* the calls programs make: op, name and what the op needs
    MaxCuts,        \* bound on the power cuts
    Absent,         \* what a file that does not exist contains
    Unknown         \* what a file contains that a power cut broke

Addresses == 0 .. BlockCount * BlockSize - 1
Positions == 1 .. BlockCount * BlockSize        \* of bytes in a file
Slots == 1 .. Cardinality(Files)        \* the root's first block has room for all
Any == -1                               \* a byte nothing is promised about

ASSUME FilesAssumption ==
    /\ BlockSize \in Nat \ {0}
    /\ IsFiniteSet(Files)
    /\ MaxCuts \in Nat
    /\ \A c \in Calls :
          /\ c.name \in Files
          /\ \/ c.op \in {"create", "remove"}
             \/ c.op = "truncate" /\ c.size \in Nat
             \/ c.op = "write" /\ c.offset \in Nat /\ c.bytes \in Seq(Nat) \ {<<>>}

\* What no file can hold.
ASSUME ContentAssumption == Absent \notin Seq(Int)

VARIABLES
    fat,        \* the file allocation table
    slots,      \* the entries after the root's "." and ".."
    listed,     \* how many of them the root's length covers
    data,       \* the bytes of the partition's blocks
    todo,       \* the writes the current call still has to make
    call,       \* the current call, and what the file holds when it ends
    content,    \* history: what each file holds as far as its callers know
    cuts        \* history: power cuts so far

vars == <<fat, slots, listed, data, todo, call, content, cuts>>

NoCall == [op |-> "none"]
Idle == call = NoCall

NoEntry == [name |-> "", start |-> FREE, length |-> 0]

-----------------------------------------------------------------------------
(* Finding and reading. *)

\* isFree: an entry whose first block was freed counts as free itself.
Taken(s) == s <= listed /\ slots[s].start # FREE /\ fat[slots[s].start] # FREE

Least(S) == {i \in S : \A j \in S : i <= j}

\* find: the first entry of that name that is not free.
Found(name) == Least({s \in Slots : Taken(s) /\ slots[s].name = name})

\* readdir: the names it calls back with, slot by slot.
Readdir == [s \in {t \in Slots : Taken(t)} |-> slots[s].name]

BlocksFor(size) == (size + BlockSize - 1) \div BlockSize

\* Where the byte at a position of a file lies, following the chain.
Position(table, start, p) ==
    Hop(table, start, p \div BlockSize) * BlockSize + (p % BlockSize)

\* read: the address of the j-th byte it returns.  A read that starts inside a block
\* and goes on into others takes the next block of the partition for the second piece,
\* and the chain from the first block on for the others.
ReadAddress(entry, offset, size, j) ==
    LET first == Hop(fat, entry.start, offset \div BlockSize)
        left == offset % BlockSize
        beyond == j - (BlockSize - left)
    IN  IF left + size <= BlockSize \/ left = 0 THEN Position(fat, first, left + j)
        ELSE IF beyond < 0 THEN first * BlockSize + left + j
        ELSE IF beyond < BlockSize THEN (first + 1) * BlockSize + beyond
        ELSE Position(fat, first, beyond)

\* What read returns: nothing from the end on; the size is not cut to the length.
Read(entry, offset, size) ==
    IF entry.length <= offset THEN <<>>
    ELSE [j \in 1 .. size |-> data[ReadAddress(entry, offset, size, j - 1)]]

-----------------------------------------------------------------------------
(* The writes a call makes, in the order in which it makes them. *)

Mark(block, mark) == [to |-> "fat", block |-> block, mark |-> mark]
Save(slot, entry) == [to |-> "slot", slot |-> slot, entry |-> entry]
Lengthen == [to |-> "length"]
Put(address, bytes) == [to |-> "data", address |-> address, bytes |-> bytes]

\* A variant of newFile that takes the block when the entry is already there.
InsertEarly(name, block) ==
    LET entry == [name |-> name, start |-> block, length |-> 0]
        freed == Least({s \in 1 .. listed : ~Taken(s)})
        late(s) == <<Mark(block, FINAL), Save(s, entry)>>
    IN  IF freed # {}
        THEN {[writes |-> <<Save(s, entry)>> \o late(s), result |-> <<>>] : s \in freed}
        ELSE {[writes |-> <<Save(listed + 1, entry), Lengthen>> \o late(listed + 1),
               result |-> <<>>]}

\* newFile: the block first, then a freed slot (scenario one), or the slot at the end
\* and the directory's length (two), which asks for one more free block and else frees
\* the first again.  create then writes the entry once more, with owner and modes.
Insert(name, block) ==
    LET entry == [name |-> name, start |-> block, length |-> 0]
        freed == Least({s \in 1 .. listed : ~Taken(s) /\ slots[s].start # block})
        rest(s) == <<Mark(block, FINAL), Save(s, entry)>>
    IN  IF freed # {}
        THEN {[writes |-> <<Mark(block, FINAL), Save(s, entry)>> \o rest(s), result |-> <<>>] :
                 s \in freed}
        ELSE IF FreeBlocks(fat) = {block}
        THEN {[writes |-> <<Mark(block, FINAL), Mark(block, FREE)>>, result |-> Absent]}
        ELSE {[writes |-> <<Mark(block, FINAL), Save(listed + 1, entry), Lengthen>>
                          \o rest(listed + 1),
               result |-> <<>>]}

\* forget: block by block from the start.
ForgetWrites(start) ==
    [i \in 1 .. ChainLength(fat, start) |-> Mark(Hop(fat, start, i - 1), FREE)]

\* zeroOutFree: zeroes from the new end on, one run that does not follow the chain.
ZeroOutFree(entry, size) ==
    IF size % BlockSize = 0 \/ entry.length <= size THEN <<>>
    ELSE <<Put(Position(fat, entry.start, size - 1) + 1, [i \in 1 .. entry.length - size |-> 0])>>

\* resize, growing: each new block is linked to, then marked as the last one.
LinkWrites(tail, taken, count) ==
    LET before(i) == IF i = 1 THEN tail ELSE taken[i - 1]
    IN  [k \in 1 .. 2 * count |->
            LET i == (k + 1) \div 2
            IN  IF k % 2 = 1 THEN Mark(before(i), taken[i]) ELSE Mark(taken[i], FINAL)]

\* resize: its writes and the table they leave, by what happens to the blocks; no
\* outcome means that there are not enough.
Resized(slot, size) ==
    LET entry == slots[slot]
        saved == <<Save(slot, [entry EXCEPT !.length = size])>>
        old == ChainLength(fat, entry.start)
        new == BlocksFor(size)
        freed == [i \in 1 .. old - new |-> Mark(Hop(fat, entry.start, new + i - 1), FREE)]
    IN  IF entry.length = size THEN {[writes |-> <<>>, fat |-> fat]}
        ELSE IF size = 0
        THEN {[writes |-> ForgetWrites(entry.start) \o <<Mark(entry.start, FINAL)>> \o saved,
               fat |-> [Forget(fat, entry.start) EXCEPT ![entry.start] = FINAL]]}
        ELSE CASE new = old -> {[writes |-> ZeroOutFree(entry, size) \o saved, fat |-> fat]}
               [] new < old ->
                     {[writes |-> ZeroOutFree(entry, size) \o freed
                                  \o <<Mark(Hop(fat, entry.start, new - 1), FINAL)>> \o saved,
                       fat |-> Shrink(fat, entry.start, new)]}
               [] new > old ->
                     {[writes |-> LinkWrites(tail, taken, new - old) \o saved,
                       fat |-> Extend(fat, tail, taken, new - old)] :
                         tail \in Tails(fat, entry.start),
                         taken \in IF HasFree(fat, new - old) THEN LowestFree(fat, new - old) ELSE {}}

\* A variant of write that does not go on to the next block after its first piece.
PiecesBehind(table, start, offset, bytes) ==
    LET first == offset \div BlockSize
        last == (offset + Len(bytes) - 1) \div BlockSize
        from(k) == IF k = first THEN offset ELSE k * BlockSize
        until(k) == IF k = last THEN offset + Len(bytes) ELSE (k + 1) * BlockSize
        block(k) == IF k > first /\ offset % BlockSize # 0 THEN k - 1 ELSE k
    IN  [i \in 1 .. last - first + 1 |->
            LET k == first + i - 1
            IN  Put(Hop(table, start, block(k)) * BlockSize + (from(k) % BlockSize),
                    SubSeq(bytes, from(k) - offset + 1, until(k) - offset))]

\* The writes of write itself: one for every block the range touches.
Pieces(table, start, offset, bytes) ==
    LET first == offset \div BlockSize
        last == (offset + Len(bytes) - 1) \div BlockSize
        from(k) == IF k = first THEN offset ELSE k * BlockSize
        until(k) == IF k = last THEN offset + Len(bytes) ELSE (k + 1) * BlockSize
    IN  [i \in 1 .. last - first + 1 |->
            LET k == first + i - 1
            IN  Put(Position(table, start, from(k)),
                    SubSeq(bytes, from(k) - offset + 1, until(k) - offset))]

-----------------------------------------------------------------------------
(* The calls.  A plan: the writes, what the file holds when they are all made, and the *)
(* positions the call has no business with.  A call that fails before it has written   *)
(* anything (the file is there, or is not, or there is no room) has no plan.           *)

CreatePlans(c) ==
    IF Found(c.name) # {} THEN {}
    ELSE {[writes |-> made.writes, result |-> made.result, kept |-> Positions] :
             made \in UNION {Insert(c.name, b) : b \in FindFreeBlock(fat)}}

\* A variant of unlink that writes the entry and leaves the chain as it is.
RemoveLeaking(c) ==
    {[writes |-> <<Save(s, [slots[s] EXCEPT !.start = FREE])>>, result |-> Absent, kept |-> Positions] :
        s \in Found(c.name)}

\* unlink, for a file: its blocks first, then the entry, which keeps name and length.
RemovePlans(c) ==
    {[writes |-> ForgetWrites(slots[s].start) \o <<Save(s, [slots[s] EXCEPT !.start = FREE])>>,
      result |-> Absent, kept |-> Positions] : s \in Found(c.name)}

Grown(old, size) == [i \in 1 .. size |-> IF i <= Len(old) THEN old[i] ELSE Any]

TruncatePlans(c) ==
    {[writes |-> resized.writes, result |-> Grown(content[c.name], c.size),
      kept |-> 1 .. c.size] :
        resized \in UNION {Resized(s, c.size) : s \in Found(c.name)}}

Overwritten(old, offset, bytes) ==
    [i \in DOMAIN old |->
        IF i \in offset + 1 .. offset + Len(bytes) THEN bytes[i - offset] ELSE old[i]]

\* write: resize, the pieces, and the entry once more.
WritePlans(c) ==
    LET end == c.offset + Len(c.bytes)
        size(s) == IF slots[s].length < end THEN end ELSE slots[s].length
        plan(s, resized) ==
            [writes |-> resized.writes
                        \o Pieces(resized.fat, slots[s].start, c.offset, c.bytes)
                        \o <<Save(s, [slots[s] EXCEPT !.length = size(s)])>>,
             result |-> Overwritten(Grown(content[c.name], size(s)), c.offset, c.bytes),
             kept |-> Positions \ (c.offset + 1 .. end)]
    IN  UNION {{plan(s, resized) : resized \in Resized(s, size(s))} : s \in Found(c.name)}

Plans(c) ==
    CASE c.op = "create" -> CreatePlans(c)
      [] c.op = "remove" -> RemovePlans(c)
      [] c.op = "truncate" -> TruncatePlans(c)
      [] c.op = "write" -> WritePlans(c)

\* What callers must see to: a truncation does not make zeroOutFree run past a block.
Disciplined(c) ==
    c.op = "truncate" =>
        \A s \in Found(c.name) :
            \/ c.size % BlockSize = 0
            \/ slots[s].length <= c.size
            \/ BlocksFor(slots[s].length) = BlocksFor(c.size)

\* An entry is sound if it is free or its chain ends at FINAL, with the blocks it needs.
Sound(entry) ==
    \/ entry.start = FREE
    \/ /\ \A b \in Chain(fat, entry.start) : fat[b] = FINAL \/ fat[b] \in DataBlocks
       /\ Cardinality(Chain(fat, entry.start)) >= BlocksFor(entry.length)

Undamaged == \A s \in 1 .. listed : Sound(slots[s])

\* Nothing is promised of calls on a partition that has a damaged entry: the blocks it
\* names may be free and be given to another file.
Begin(c) ==
    /\ Idle
    /\ Undamaged
    /\ Disciplined(c)
    /\ \E plan \in Plans(c) :
          /\ todo' = plan.writes
          /\ call' = [op |-> c.op, name |-> c.name, result |-> plan.result, kept |-> plan.kept]
    /\ UNCHANGED <<fat, slots, listed, data, content, cuts>>

\* One write to the partition.
Write ==
    /\ todo # <<>>
    /\ todo' = Tail(todo)
    /\ LET w == Head(todo)
       IN  \/ /\ w.to = "fat"
              /\ fat' = [fat EXCEPT ![w.block] = w.mark]
              /\ UNCHANGED <<slots, listed, data>>
           \/ /\ w.to = "slot"
              /\ slots' = [slots EXCEPT ![w.slot] = w.entry]
              /\ UNCHANGED <<fat, listed, data>>
           \/ /\ w.to = "length"
              /\ listed' = listed + 1
              /\ UNCHANGED <<fat, slots, data>>
           \/ /\ w.to = "data"
              /\ data' = [p \in Addresses |->
                             IF p - w.address + 1 \in DOMAIN w.bytes
                             THEN w.bytes[p - w.address + 1] ELSE data[p]]
              /\ UNCHANGED <<fat, slots, listed>>
    /\ UNCHANGED <<call, content, cuts>>

Return ==
    /\ ~Idle /\ todo = <<>>
    /\ content' = [content EXCEPT ![call.name] = call.result]
    /\ call' = NoCall
    /\ UNCHANGED <<fat, slots, listed, data, todo, cuts>>

\* What callers may still count on: the bytes the call had no business with.
LeftOf(name) ==
    IF Found(name) = {} THEN Absent
    ELSE LET entry == slots[CHOOSE s \in Found(name) : TRUE]
             old == content[name]
         IN  IF ~Sound(entry) THEN Unknown
             ELSE [i \in 1 .. entry.length |->
                      IF old # Absent /\ i \in DOMAIN old \cap call.kept THEN old[i] ELSE Any]

PowerCut ==
    /\ ~Idle /\ cuts < MaxCuts
    /\ content' = [content EXCEPT ![call.name] = LeftOf(call.name)]
    /\ todo' = <<>>
    /\ call' = NoCall
    /\ cuts' = cuts + 1
    /\ UNCHANGED <<fat, slots, listed, data>>

Init ==
    /\ fat = InitFAT
    /\ slots = [s \in Slots |-> NoEntry]
    /\ listed = 0
    /\ data = [p \in Addresses |-> 0]
    /\ todo = <<>>
    /\ call = NoCall
    /\ content = [name \in Files |-> Absent]
    /\ cuts = 0

Next == (\E c \in Calls : Begin(c)) \/ Write \/ Return \/ PowerCut

Spec == Init /\ [][Next]_vars

-----------------------------------------------------------------------------

\* The ranges read gets right: those that start with a block or stay within one.
Readable(offset, size) == offset % BlockSize = 0 \/ (offset % BlockSize) + size <= BlockSize

\* Whatever a file was last given is what read returns, and readdir lists it once, while
\* the other file is written, resized, removed, or cut off in the middle of any of these.
FilesReadBack ==
    \A name \in {n \in Files : content[n] # Unknown /\ (Idle \/ call.name # n)} :
        /\ Cardinality({s \in DOMAIN Readdir : Readdir[s] = name}) =
               IF content[name] = Absent THEN 0 ELSE 1
        /\ \A s \in Found(name) :
              /\ slots[s].length = Len(content[name])
              /\ \A offset \in 0 .. slots[s].length - 1 :
                    \A size \in 1 .. slots[s].length - offset :
                        Readable(offset, size) =>
                            \A j \in 1 .. size :
                                LET byte == content[name][offset + j]
                                IN  byte = Any \/ Read(slots[s], offset, size)[j] = byte

\* No block is on the chains of two files, not even of one that was cut off, and a power
\* cut that damages nothing loses at most the one block of a file being created.
BlocksAreOwned ==
    LET listing == {s \in Slots : Taken(s)}
        chain == [s \in listing |-> Chain(fat, slots[s].start)]
        owned == UNION {chain[s] : s \in listing}
    IN  /\ \A s, t \in listing : s # t => chain[s] \cap chain[t] = {}
        /\ Idle /\ Undamaged =>
              Cardinality({b \in DataBlocks \ {RootBlock} : fat[b] # FREE /\ b \notin owned}) <= cuts

\* A file is created as a whole or not at all: at no point of create does an entry
\* name a block that is free, so nothing needs repair after a power cut.
CreateIsAtomic == call.op = "create" => Undamaged
=============================================================================
