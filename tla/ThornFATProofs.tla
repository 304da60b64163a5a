--------------------------- MODULE ThornFATProofs ---------------------------
(***************************************************************************)
(* Theorems about ThornFAT, for every geometry, every set of names and     *)
(* every set of paths.                                                     *)
(*                                                                         *)
(* The first half is about whatever calls programs make: the types, what a *)
(* call that fails leaves, then the order every call keeps (Keeps): which  *)
(* entries own blocks, and that no two own the same.                       *)
(*                                                                         *)
(* The second half is about calls that keep the file system's own          *)
(* discipline: nothing leaks, directories stay sound, and the driver       *)
(* implements the tree of files.  These three rest on one invariant,       *)
(* Ordinate: some set of entries with a path for each is the tree on the   *)
(* disk (Tidy).  Every call either leaves everything as it is or goes on   *)
(* to another such tree (Advance), which is                                *)
(* the one the abstract operation makes of the old.                        *)
(***************************************************************************)
EXTENDS ThornFATProperties, NatSetInduction, FiniteSetTheorems, FunctionTheorems, SequenceTheorems

-----------------------------------------------------------------------------
(* The operators on tables.                                                *)

\* The blocks a walk over a table comes by.
Walks(h, table, start, i) ==
    /\ h[0] = start
    /\ \A k \in 1 .. i : h[k] = IF h[k - 1] \in Blocks THEN table[h[k - 1]] ELSE h[k - 1]

\* A walk from a link follows links all the way.
LEMMA HopWalk ==
    ASSUME NEW table \in [Blocks -> Links], NEW start \in Links, NEW i \in Nat
    PROVE  \E h \in [0 .. i -> Links] : Walks(h, table, start, i) /\ Hop(table, start, i) = h[i]
<1>. DEFINE follow(block) == IF block \in Blocks THEN table[block] ELSE block
            hop[k \in 0 .. i] == IF k = 0 THEN start ELSE follow(hop[k - 1])
            step == [k \in Nat |-> [block \in Links |-> follow(block)]]
<1>1. \A block \in Links : follow(block) \in Links
  OBVIOUS
<1>2. step \in [Nat -> [Links -> Links]]
  BY <1>1
<1>3. PICK f \in [0 .. i -> Links] : Run(f, start, step, i)
  <2>. HIDE DEF step
  <2>. QED BY <1>2, Iteration
<1>4. f = [k \in 0 .. i |-> IF k = 0 THEN start ELSE follow(f[k - 1])]
  <2>1. ASSUME NEW k \in 0 .. i PROVE f[k] = IF k = 0 THEN start ELSE follow(f[k - 1])
    <3>1. CASE k = 0
      BY <1>3, <3>1 DEF Run
    <3>2. CASE k # 0
      <4>1. k \in 1 .. i /\ k - 1 \in 0 .. i /\ k \in Nat
        BY <3>2
      <4>2. f[k - 1] \in Links
        BY <4>1
      <4>3. f[k] = step[k][f[k - 1]]
        BY <1>3, <4>1 DEF Run
      <4>4. step[k][f[k - 1]] = follow(f[k - 1])
        BY <4>1, <4>2
      <4>. QED BY <3>2, <4>3, <4>4
    <3>. QED BY <3>1, <3>2
  <2>. HIDE DEF follow
  <2>. QED BY <2>1
<1>5. hop = [k \in 0 .. i |-> IF k = 0 THEN start ELSE follow(hop[k - 1])]
  <2>. HIDE DEF follow
  <2>. QED BY <1>4 DEF hop
<1>6. \A k \in 0 .. i : hop[k] \in Links
  <2>. DEFINE S == {k \in Nat : k \in 0 .. i => hop[k] \in Links}
  <2>. HIDE DEF hop, follow
  <2>1. 0 \in S
    BY <1>5
  <2>2. ASSUME NEW k \in Nat, k \in S PROVE k + 1 \in S
    <3>1. SUFFICES ASSUME k + 1 \in 0 .. i PROVE hop[k + 1] \in Links
      OBVIOUS
    <3>2. hop[k] \in Links
      BY <2>2, <3>1
    <3>3. hop[k + 1] = follow(hop[k])
      BY <1>5, <3>1
    <3>. QED BY <1>1, <3>2, <3>3
  <2>3. Nat \subseteq S
    <3>. HIDE DEF S
    <3>. QED BY <2>1, <2>2, SetInduction
  <2>. QED BY <2>3
<1>7. Hop(table, start, i) = IF i = 0 THEN start ELSE hop[i]
  BY Zenon DEF Hop, hop, follow
<1>8. 0 \in 0 .. i /\ i \in 0 .. i /\ \A k \in 1 .. i : k \in 0 .. i /\ k # 0
  OBVIOUS
<1>9. hop \in [0 .. i -> Links]
  <2>. HIDE DEF hop
  <2>1. hop = [k \in 0 .. i |-> hop[k]]
    BY <1>5
  <2>. QED BY <1>6, <2>1
<1>10. hop[0] = start /\ Hop(table, start, i) = hop[i]
  <2>. HIDE DEF hop, follow
  <2>. QED BY <1>5, <1>7, <1>8
<1>11. \A k \in 1 .. i : hop[k] = IF hop[k - 1] \in Blocks THEN table[hop[k - 1]] ELSE hop[k - 1]
  <2>1. ASSUME NEW k \in 1 .. i PROVE hop[k] = follow(hop[k - 1])
    <3>. HIDE DEF hop, follow
    <3>. QED BY <1>5, <1>8
  <2>. HIDE DEF hop
  <2>. QED BY <2>1
<1>. HIDE DEF hop
<1>. QED BY <1>9, <1>10, <1>11 DEF Walks

\* So it ends on a link.
LEMMA HopType ==
    ASSUME NEW table \in [Blocks -> Links], NEW start \in Links, NEW i \in Nat
    PROVE  Hop(table, start, i) \in Links
<1>1. PICK h \in [0 .. i -> Links] : Hop(table, start, i) = h[i]
  BY HopWalk
<1>. QED BY <1>1

\* The blocks the table itself takes are not free.
Reserved(table) == \A b \in 0 .. FatBlocks : table[b] # FREE

\* A table the driver may leave behind.
Table(table) == table \in [Blocks -> Links] /\ Reserved(table)

LEMMA InitFATIsTable == Table(InitFAT)
BY BlockAssumption DEF Table, Reserved, InitFAT, Blocks, Links, DataBlocks, RootBlock, FREE, UNUSABLE, FINAL

LEMMA FreeBlocksType ==
    ASSUME NEW table, Table(table)
    PROVE  FreeBlocks(table) \subseteq DataBlocks /\ FindFreeBlock(table) \subseteq DataBlocks
BY BlockAssumption
   DEF Table, Reserved, FreeBlocks, FindFreeBlock, Blocks, DataBlocks, RootBlock, FREE, UNUSABLE

\* A link is set in a table; FREE only for a data block.
LEMMA LinkType ==
    ASSUME NEW table, Table(table), NEW b, NEW link \in Links,
           b \in DataBlocks \union {UNUSABLE} \/ link # FREE
    PROVE  Table([table EXCEPT ![b] = link])
<1>1. [table EXCEPT ![b] = link] \in [Blocks -> Links]
  BY DEF Table
<1>2. ASSUME NEW r \in 0 .. FatBlocks PROVE [table EXCEPT ![b] = link][r] # FREE
  <2>1. r \in Blocks /\ r \notin DataBlocks \union {UNUSABLE}
    BY BlockAssumption DEF Blocks, DataBlocks, RootBlock, UNUSABLE
  <2>2. table[r] # FREE
    BY DEF Table, Reserved
  <2>. QED BY <2>1, <2>2 DEF Table
<1>. QED BY <1>1, <1>2 DEF Table, Reserved

LEMMA ChainType ==
    ASSUME NEW table, NEW start
    PROVE  /\ Chain(table, start) \subseteq DataBlocks
           /\ IsFiniteSet(Chain(table, start))
           /\ ChainLength(table, start) \in Nat
<1>1. Chain(table, start) \subseteq DataBlocks
  BY DEF Chain
<1>2. IsFiniteSet(DataBlocks)
  BY BlockAssumption, FS_Interval DEF DataBlocks, RootBlock
<1>3. IsFiniteSet(Chain(table, start))
  BY <1>1, <1>2, FS_Subset
<1>. QED BY <1>1, <1>3, FS_CardinalityType DEF ChainLength

\* Blocks that only become free, or keep a link, make a table of a table.
LEMMA ForgetType ==
    ASSUME NEW table, Table(table), NEW start
    PROVE  Table(Forget(table, start))
<1>1. Forget(table, start) \in [Blocks -> Links]
  BY DEF Forget, Table, Links
<1>2. \A b \in 0 .. FatBlocks : b \in Blocks /\ b \notin Chain(table, start)
  BY BlockAssumption, ChainType DEF Blocks, DataBlocks, RootBlock
<1>. QED BY <1>1, <1>2 DEF Forget, Table, Reserved

LEMMA ShrinkType ==
    ASSUME NEW table, Table(table), NEW start, NEW count
    PROVE  Table(Shrink(table, start, count))
<1>1. Shrink(table, start, count) \in [Blocks -> Links]
  BY DEF Shrink, Table, Links
<1>2. \A b \in 0 .. FatBlocks : b \in Blocks /\ b \notin Chain(table, start)
  BY BlockAssumption, ChainType DEF Blocks, DataBlocks, RootBlock
<1>. QED BY <1>1, <1>2 DEF Shrink, Table, Reserved

LEMMA ExtendType ==
    ASSUME NEW table, Table(table), NEW start, NEW tail \in Tails(table, start),
           NEW count \in Nat, count > 0, NEW taken \in LowestFree(table, count)
    PROVE  Table(Extend(table, tail, taken, count))
<1>1. taken \in [1 .. count -> FreeBlocks(table)]
  BY DEF LowestFree
<1>2. \A i \in 1 .. count : taken[i] \in DataBlocks
  BY <1>1, FreeBlocksType
<1>3. 1 \in 1 .. count /\ count \in 1 .. count
  OBVIOUS
<1>4. tail \in DataBlocks
  BY ChainType DEF Tails
<1>5. ASSUME NEW b \in Blocks PROVE Extend(table, tail, taken, count)[b] \in Links
  <2>1. taken[1] \in Links /\ FINAL \in Links /\ table[b] \in Links
    BY <1>2, <1>3 DEF Links, Table
  <2>2. ASSUME \E i \in 1 .. count - 1 : taken[i] = b
        PROVE  taken[1 + CHOOSE i \in 1 .. count - 1 : taken[i] = b] \in Links
    <3>1. PICK i \in 1 .. count - 1 : i = CHOOSE j \in 1 .. count - 1 : taken[j] = b
      BY <2>2
    <3>2. 1 + i \in 1 .. count
      BY <3>1
    <3>. QED BY <3>1, <3>2, <1>2 DEF Links
  <2>. QED BY <2>1, <2>2 DEF Extend
<1>6. ASSUME NEW b \in 0 .. FatBlocks PROVE Extend(table, tail, taken, count)[b] # FREE
  <2>1. b \in Blocks /\ b \notin DataBlocks
    BY BlockAssumption DEF Blocks, DataBlocks, RootBlock
  <2>2. b # tail /\ \A i \in 1 .. count : taken[i] # b
    BY <1>2, <1>4, <2>1
  <2>3. Extend(table, tail, taken, count)[b] = table[b]
    BY <1>3, <2>1, <2>2 DEF Extend
  <2>. QED BY <2>3 DEF Table, Reserved
<1>7. Extend(table, tail, taken, count) = [b \in Blocks |-> Extend(table, tail, taken, count)[b]]
  BY DEF Extend
<1>. QED BY <1>5, <1>6, <1>7 DEF Table, Reserved

-----------------------------------------------------------------------------
(* The entries, and finding them.                                          *)

Codes == {"OK", "EEXIST", "EINVAL", "EISDIR", "ENAMETOOLONG", "ENOENT", "ENOSPC", "ENOTDIR",
          "ENOTEMPTY", "PANIC"}

\* The times of the root are ones that utimens was given, or those make wrote.
Stamped == times \in [disk : Times \union {0}, cached : Times \union {0}]

\* The inductive invariant: the types, and the marks on the table's own blocks,
\* which keep them from being taken for free ones.
Inv ==
    /\ Table(fat)
    /\ disk \in [Offsets -> Entry]
    /\ root \in Entry
    /\ Stamped
    /\ ret \in Codes

\* What a call may leave behind.
Sound(outcome) ==
    /\ Table(outcome.fat)
    /\ outcome.disk \in [Offsets -> Entry]
    /\ outcome.root \in Entry
    /\ outcome.ret \in Codes

LEMMA InvGivesTypeOK == Inv => TypeOK
BY DEF Inv, TypeOK, Table, Codes, Stamped

LEMMA LeaveSound ==
    ASSUME NEW outcome, Sound(outcome), Leave(outcome), Stamped' PROVE Inv'
BY DEF Sound, Leave, Inv, Table, Reserved

LEMMA BecomeStamped == ASSUME Inv, NEW outcome, Become(outcome) PROVE Stamped'
BY DEF Inv, Become, Stamped

LEMMA BecomeSound == ASSUME Inv, NEW outcome, Sound(outcome), Become(outcome) PROVE Inv'
BY BecomeStamped, LeaveSound DEF Become

LEMMA FailSound == ASSUME Inv, NEW code \in Codes, Fail(code) PROVE Inv'
BY DEF Inv, Fail, Table, Reserved, Stamped

LEMMA EntryType ==
    /\ Nothing \in Entry
    /\ NewRoot \in Entry
    /\ \A entry \in Entry : /\ [entry EXCEPT !.name = DotDot] \in Entry
                            /\ [entry EXCEPT !.start = FREE] \in Entry
                            /\ \A length \in Nat : [entry EXCEPT !.length = length] \in Entry
                            /\ \A start \in DataBlocks : [entry EXCEPT !.start = start] \in Entry
BY BlockAssumption DEF Entry, Nothing, NewRoot, DataBlocks, RootBlock

LEMMA WriteEntryType ==
    ASSUME NEW d \in [Offsets -> Entry], NEW offset, NEW entry \in Entry
    PROVE  WriteEntry(d, offset, entry) \in [Offsets -> Entry]
BY EntryType DEF WriteEntry

LEMMA CacheEntryType ==
    ASSUME NEW cached \in Entry, NEW entry \in Entry
    PROVE  CacheEntry(cached, entry) \in Entry
<1>1. entry.length \in Nat
  BY DEF Entry
<1>. QED BY <1>1, EntryType DEF CacheEntry

\* An offset find can return.
Places == Offsets \union {RootOffset}

LEMMA EntryAtType == ASSUME Inv, NEW o \in Places PROVE EntryAt(o) \in Entry
BY DEF Inv, Places, EntryAt

LEMMA DirStatusType ==
    ASSUME NEW table, NEW dir PROVE DirStatus(table, dir) \in {"OK", "EINVAL", "ENOTDIR"}
BY DEF DirStatus

LEMMA LocatedType == ASSUME NEW dir, NEW name PROVE Located(dir, name) \subseteq Offsets
BY DEF Located

LEMMA DescendType ==
    ASSUME NEW at \in [ret : Codes, offset : Places], NEW name
    PROVE  Descend(at, name) \in [ret : Codes, offset : Places]
<1>. DEFINE dir == EntryAt(at.offset)
            found == Located(dir, name)
<1>1. DirStatus(fat, dir) \in Codes
  BY DirStatusType DEF Codes
<1>2. RootOffset \in Places /\ found \subseteq Places
  BY LocatedType DEF Places
<1>3. ASSUME found # {} PROVE (CHOOSE o \in found : TRUE) \in Places
  BY <1>2, <1>3
<1>4. "ENOENT" \in Codes /\ "OK" \in Codes
  BY DEF Codes
<1>. HIDE DEF found, dir
<1>. QED BY <1>1, <1>2, <1>3, <1>4 DEF Descend, dir, found

\* A walk along a path descends from one component to the next.
LEMMA WalkSteps ==
    ASSUME NEW path \in Seq(Names)
    PROVE  /\ Walk(path)[0] = [ret |-> "OK", offset |-> RootOffset]
           /\ \A k \in 1 .. Len(path) : Walk(path)[k] = Descend(Walk(path)[k - 1], path[k])
<1>. DEFINE At == [ret : Codes, offset : Places]
            origin == [ret |-> "OK", offset |-> RootOffset]
            walk[k \in 0 .. Len(path)] == IF k = 0 THEN origin ELSE Descend(walk[k - 1], path[k])
            step == [k \in Nat |-> [at \in At |-> Descend(at, path[k])]]
<1>1. origin \in At
  BY DEF Codes, Places
<1>2. Len(path) \in Nat
  OBVIOUS
<1>3. step \in [Nat -> [At -> At]]
  BY DescendType
<1>4. PICK f \in [0 .. Len(path) -> At] : Run(f, origin, step, Len(path))
  <2>. HIDE DEF step, At, origin
  <2>. QED BY <1>1, <1>2, <1>3, Iteration
<1>. HIDE DEF At, origin
<1>5. f = [k \in 0 .. Len(path) |-> IF k = 0 THEN origin ELSE Descend(f[k - 1], path[k])]
  <2>1. ASSUME NEW k \in 0 .. Len(path)
        PROVE  f[k] = IF k = 0 THEN origin ELSE Descend(f[k - 1], path[k])
    <3>1. CASE k = 0
      BY <1>4, <3>1 DEF Run
    <3>2. CASE k # 0
      <4>1. k \in 1 .. Len(path) /\ k - 1 \in 0 .. Len(path) /\ k \in Nat
        BY <3>2
      <4>2. f[k - 1] \in At
        BY <4>1
      <4>3. f[k] = step[k][f[k - 1]]
        BY <1>4, <4>1 DEF Run
      <4>. QED BY <3>2, <4>1, <4>2, <4>3
    <3>. QED BY <3>1, <3>2
  <2>. QED BY <2>1
<1>6. walk = [k \in 0 .. Len(path) |-> IF k = 0 THEN origin ELSE Descend(walk[k - 1], path[k])]
  BY <1>5 DEF walk
<1>7. Walk(path) = walk
  BY DEF Walk, walk, origin
<1>. HIDE DEF walk
<1>8. 0 \in 0 .. Len(path) /\ \A k \in 1 .. Len(path) : k \in 0 .. Len(path) /\ k # 0
  BY <1>2
<1>9. walk[0] = origin /\ \A k \in 1 .. Len(path) : walk[k] = Descend(walk[k - 1], path[k])
  BY <1>6, <1>8
<1>. QED BY <1>7, <1>9 DEF origin

\* It has an outcome after each component.
LEMMA WalkType ==
    ASSUME NEW path \in Seq(Names), NEW n \in 0 .. Len(path)
    PROVE  Walk(path)[n] \in [ret : Codes, offset : Places]
<1>. DEFINE S == {k \in Nat : k <= Len(path) => Walk(path)[k] \in [ret : Codes, offset : Places]}
<1>1. 0 \in S
  BY WalkSteps DEF Codes, Places
<1>2. ASSUME NEW k \in Nat, k \in S PROVE k + 1 \in S
  <2>1. SUFFICES ASSUME k + 1 <= Len(path)
                 PROVE  Walk(path)[k + 1] \in [ret : Codes, offset : Places]
    OBVIOUS
  <2>2. k <= Len(path) /\ k + 1 \in 1 .. Len(path) /\ (k + 1) - 1 = k
    BY <2>1
  <2>3. Walk(path)[k] \in [ret : Codes, offset : Places]
    BY <1>2, <2>2
  <2>4. Walk(path)[k + 1] = Descend(Walk(path)[k], path[k + 1])
    BY <2>2, WalkSteps
  <2>. QED BY <2>3, <2>4, DescendType
<1>3. Nat \subseteq S
  <2>. HIDE DEF S
  <2>. QED BY <1>1, <1>2, SetInduction
<1>. QED BY <1>3

LEMMA FindType ==
    ASSUME NEW path \in Seq(Names)
    PROVE  Find(path) \in Codes /\ Resolve(path) \subseteq Places
<1>1. Find(path) \in Codes
  BY WalkType DEF Find
<1>2. Resolve(path) \subseteq Places
  BY LocatedType DEF Resolve, Places
<1>. QED BY <1>1, <1>2

LEMMA PathType ==
    ASSUME NEW path \in Seq(Names)
    PROVE  ParentPath(path) \in Seq(Names) /\ LastName(path) \in Names \union {NoName}
<1>1. CASE path = <<>>
  BY <1>1 DEF ParentPath, LastName
<1>2. CASE path # <<>>
  <2>1. Len(path) \in 1 .. Len(path) /\ Len(path) \in Nat
    BY <1>2
  <2>2. path[Len(path)] \in Names
    BY <2>1
  <2>. QED BY <1>2, <2>1, <2>2 DEF ParentPath, LastName
<1>. QED BY <1>1, <1>2

LEMMA FindParentType ==
    ASSUME NEW path \in Seq(Names)
    PROVE  FindParent(path) \in Codes
BY FindType, PathType DEF FindParent, Codes

-----------------------------------------------------------------------------
(* newFile and resize.                                                     *)

LEMMA FailureSound ==
    ASSUME Inv, NEW code \in Codes, NEW table, Table(table)
    PROVE  Sound(Failure(code, table))
BY DEF Inv, Sound, Failure

\* What a call that makes an entry may leave behind and hand back.
Made(made) == Sound(made) /\ (made.ret = "OK" => made.new \in Entry /\ made.parent \in Entry)

LEMMA FailureMade ==
    ASSUME Inv, NEW code \in Codes \ {"OK"}, NEW table, Table(table)
    PROVE  Made(Failure(code, table))
BY FailureSound DEF Made, Failure

LEMMA SuccessMade ==
    ASSUME Inv, NEW table, Table(table), NEW new \in Entry, NEW dir \in Entry,
           NEW dirOffset, NEW offset, NEW grown \in Nat
    PROVE  Made(Success(table, new, dir, dirOffset, offset, grown))
<1>. DEFINE parent == [dir EXCEPT !.length = @ + grown]
            entered == WriteEntry(disk, offset, new)
            outcome == Success(table, new, dir, dirOffset, offset, grown)
<1>1. parent \in Entry
  BY DEF Entry
<1>2. entered \in [Offsets -> Entry]
  BY WriteEntryType DEF Inv
<1>3. WriteEntry(entered, dirOffset, parent) \in [Offsets -> Entry]
  BY <1>1, <1>2, WriteEntryType
<1>4. CacheEntry(root, new) \in Entry
  BY CacheEntryType DEF Inv
<1>5. CacheEntry(CacheEntry(root, new), parent) \in Entry
  BY <1>1, <1>4, CacheEntryType
<1>6. /\ outcome.ret = "OK"
      /\ outcome.fat = table
      /\ outcome.disk = IF grown = 0 THEN entered ELSE WriteEntry(entered, dirOffset, parent)
      /\ outcome.root = IF grown = 0 THEN CacheEntry(root, new)
                        ELSE CacheEntry(CacheEntry(root, new), parent)
      /\ outcome.new = new
      /\ outcome.parent = parent
  BY DEF Success
<1>. HIDE DEF parent, entered, outcome
<1>. QED BY <1>1, <1>2, <1>3, <1>4, <1>5, <1>6 DEF Made, Sound, Codes, outcome

\* A length of at least a block is a block or more.
LEMMA BlocksInLength ==
    ASSUME NEW length \in Nat, length >= EntriesPerBlock
    PROVE  length \div EntriesPerBlock - 1 \in Nat
BY NamespaceAssumption

LEMMA ExpandMade ==
    ASSUME Inv, NEW table, Table(table), NEW free \in DataBlocks \union {UNUSABLE},
           NEW new \in Entry, NEW dir \in Entry, dir.length >= EntriesPerBlock, NEW dirOffset,
           NEW noalloc \in BOOLEAN, NEW made \in Expand(table, free, new, dir, dirOffset, noalloc)
    PROVE  Made(made)
<1>. DEFINE last == Hop(table, dir.start, dir.length \div EntriesPerBlock - 1)
            linked == [table EXCEPT ![free] = last]
<1>1. last \in Links
  <2>1. dir.length \div EntriesPerBlock - 1 \in Nat
    BY BlocksInLength DEF Entry
  <2>2. dir.start \in Links
    BY DEF Entry, Links
  <2>. QED BY <2>1, <2>2, HopType DEF Table
<1>2. Table(linked)
  <2>. HIDE DEF last
  <2>. QED BY <1>1, LinkType
<1>3. ASSUME NEW start \in FindFreeBlock(linked)
      PROVE  Table([linked EXCEPT ![start] = FINAL]) /\ [new EXCEPT !.start = start] \in Entry
  <2>. HIDE DEF linked
  <2>1. start \in DataBlocks /\ FINAL \in Links
    BY <1>2, FreeBlocksType DEF Links
  <2>. QED BY <1>2, <2>1, LinkType, EntryType
<1>4. Table([table EXCEPT ![free] = FREE])
  BY LinkType DEF Links
<1>5. Made(Failure("ENOSPC", table)) /\ Made(Failure("ENOSPC", [table EXCEPT ![free] = FREE]))
  BY <1>4, FailureMade DEF Codes
<1>6. \A offset : Made(Success(linked, new, dir, dirOffset, offset, 1))
  <2>. HIDE DEF linked
  <2>. QED BY <1>2, SuccessMade
<1>7. \A offset : \A start \in FindFreeBlock(linked) :
        Made(Success([linked EXCEPT ![start] = FINAL], [new EXCEPT !.start = start],
                     dir, dirOffset, offset, 1))
  <2>. HIDE DEF linked
  <2>. QED BY <1>3, SuccessMade
<1>8. \/ made \in {Failure("ENOSPC", table), Failure("ENOSPC", [table EXCEPT ![free] = FREE])}
      \/ \E offset : made = Success(linked, new, dir, dirOffset, offset, 1)
      \/ \E offset : \E start \in FindFreeBlock(linked) :
            made = Success([linked EXCEPT ![start] = FINAL], [new EXCEPT !.start = start],
                           dir, dirOffset, offset, 1)
  BY Zenon DEF Expand
<1>. HIDE DEF linked
<1>. QED BY <1>5, <1>6, <1>7, <1>8

LEMMA InsertMade ==
    ASSUME Inv, NEW table, Table(table), NEW free \in DataBlocks \union {UNUSABLE},
           NEW new \in Entry, NEW dirOffset \in Places, NEW noalloc \in BOOLEAN,
           NEW made \in Insert(table, free, new, dirOffset, noalloc)
    PROVE  Made(made)
<1>. DEFINE dir == EntryAt(dirOffset)
            slot(i) == SlotOffset(table, dir, i)
            cleared == [table EXCEPT ![free] = FREE]
<1>1. dir \in Entry /\ dir.length \in Nat
  BY EntryAtType DEF Entry
<1>2. Table(cleared)
  BY LinkType DEF Links
<1>. HIDE DEF dir, cleared
<1>3. \A offset : Made(Success(table, new, dir, dirOffset, offset, 0))
                  /\ Made(Success(table, new, dir, dirOffset, offset, 1))
  BY <1>1, SuccessMade
<1>4. Made(Failure("ENOSPC", cleared))
  BY <1>2, FailureMade DEF Codes
<1>5. DirStatus(table, dir) # "OK" => Made(Failure(DirStatus(table, dir), table))
  BY DirStatusType, FailureMade DEF Codes
<1>6. \/ DirStatus(table, dir) # "OK" /\ made = Failure(DirStatus(table, dir), table)
      \/ \E i : made = Success(table, new, dir, dirOffset, slot(i), 0)
      \/ made = Failure("ENOSPC", cleared)
      \/ made = Success(table, new, dir, dirOffset, slot(dir.length), 1)
      \/ ~(dir.length < EntriesPerBlock)
         /\ made \in Expand(table, free, new, dir, dirOffset, noalloc)
  <2>. HIDE DEF slot
  <2>. QED BY Zenon DEF Insert, dir, cleared, slot
<1>7. CASE ~(dir.length < EntriesPerBlock)
           /\ made \in Expand(table, free, new, dir, dirOffset, noalloc)
  <2>1. dir.length >= EntriesPerBlock
    BY <1>1, <1>7, NamespaceAssumption
  <2>. QED BY <1>1, <1>7, <2>1, ExpandMade
<1>. HIDE DEF slot
<1>. QED BY <1>3, <1>4, <1>5, <1>6, <1>7

LEMMA NewFileMade ==
    ASSUME Inv, NEW path \in Seq(Names), NEW length \in Nat, NEW type \in {"file", "dir"},
           NEW noalloc \in BOOLEAN, NEW made \in NewFile(path, length, type, noalloc)
    PROVE  Made(made)
<1>. DEFINE table(free) == IF noalloc THEN fat ELSE [fat EXCEPT ![free] = FINAL]
            new(free) == [name |-> IF noalloc THEN NoName ELSE LastName(path), type |-> type,
                          start |-> IF noalloc THEN FREE ELSE free, length |-> length]
            allocate(free) ==
                IF FindParent(path) = "ENOENT" THEN {Failure("ENOTDIR", table(free))}
                ELSE UNION {Insert(table(free), free, new(free), o, noalloc)
                               : o \in Resolve(ParentPath(path))}
<1>1. Table(fat)
  BY DEF Inv
<1>2. ASSUME NEW free \in DataBlocks \union {UNUSABLE}, noalloc \/ free \in DataBlocks
      PROVE  Table(table(free)) /\ new(free) \in Entry
  <2>1. Table(table(free))
    BY <1>1, LinkType DEF Links
  <2>2. new(free) \in Entry
    BY <1>2, PathType DEF Entry
  <2>. QED BY <2>1, <2>2
<1>3. ASSUME NEW free \in DataBlocks \union {UNUSABLE}, noalloc \/ free \in DataBlocks,
             made \in allocate(free)
      PROVE  Made(made)
  <2>1. Table(table(free)) /\ new(free) \in Entry
    BY <1>2, <1>3
  <2>2. Resolve(ParentPath(path)) \subseteq Places
    BY PathType, FindType
  <2>. HIDE DEF table, new
  <2>3. CASE made = Failure("ENOTDIR", table(free))
    BY <2>1, <2>3, FailureMade DEF Codes
  <2>4. CASE \E o \in Resolve(ParentPath(path)) :
               made \in Insert(table(free), free, new(free), o, noalloc)
    <3>1. PICK o \in Places : made \in Insert(table(free), free, new(free), o, noalloc)
      BY <2>2, <2>4
    <3>. QED BY <2>1, <3>1, InsertMade
  <2>. QED BY <1>3, <2>3, <2>4
<1>4. FindFreeBlock(fat) \subseteq DataBlocks
  BY <1>1, FreeBlocksType
<1>5. FindParent(path) \notin {"OK", "ENOENT"} => Made(Failure(FindParent(path), fat))
  BY <1>1, FindParentType, FailureMade
<1>6. Made(Failure("ENOSPC", fat)) /\ Made(Failure("ENAMETOOLONG", fat))
  BY <1>1, FailureMade DEF Codes
<1>. HIDE DEF table, new
<1>7. \/ FindParent(path) \notin {"OK", "ENOENT"} /\ made = Failure(FindParent(path), fat)
      \/ made = Failure("ENAMETOOLONG", fat)
      \/ \E free \in FindFreeBlock(fat) : made \in allocate(free)
      \/ noalloc /\ made \in allocate(UNUSABLE)
      \/ made = Failure("ENOSPC", fat)
  <2>. HIDE DEF allocate
  <2>. QED BY Zenon DEF NewFile, allocate, table, new
<1>8. CASE \E free \in FindFreeBlock(fat) : made \in allocate(free)
  <2>. HIDE DEF allocate
  <2>. QED BY <1>3, <1>4, <1>8
<1>9. CASE noalloc /\ made \in allocate(UNUSABLE)
  <2>. HIDE DEF allocate
  <2>. QED BY <1>3, <1>9
<1>. HIDE DEF allocate
<1>. QED BY <1>5, <1>6, <1>7, <1>8, <1>9

LEMMA SaveSound ==
    ASSUME Inv, NEW table, Table(table), NEW d \in [Offsets -> Entry], NEW entry \in Entry,
           NEW offset, NEW size \in Nat
    PROVE  Sound(Save(table, d, entry, offset, size))
<1>. DEFINE resized == [entry EXCEPT !.length = size]
<1>1. resized \in Entry
  BY EntryType
<1>2. WriteEntry(d, offset, resized) \in [Offsets -> Entry] /\ CacheEntry(root, resized) \in Entry
  BY <1>1, WriteEntryType, CacheEntryType DEF Inv
<1>. QED BY <1>2 DEF Save, Sound, Codes

LEMMA ZeroOutFreeType ==
    ASSUME Inv, NEW entry, NEW size, NEW zero \in ZeroOutFree(entry, size)
    PROVE  zero.ret \in {"OK", "PANIC"} /\ zero.disk \in [Offsets -> Entry]
<1>. DEFINE zeroed(from, end) ==
                [o \in Offsets |-> IF from <= o /\ o < end THEN Nothing ELSE disk[o]]
<1>1. \A from, end : zeroed(from, end) \in [Offsets -> Entry]
  BY EntryType DEF Inv
<1>2. \/ zero = [ret |-> "OK", disk |-> disk]
      \/ \E from, end : zero = [ret |-> "OK", disk |-> zeroed(from, end)]
      \/ \E from, end : zero = [ret |-> "PANIC", disk |-> zeroed(from, end)]
  BY Zenon DEF ZeroOutFree
<1>. HIDE DEF zeroed
<1>. QED BY <1>1, <1>2 DEF Inv

LEMMA ResizeSound ==
    ASSUME Inv, NEW entry \in Entry, NEW offset, NEW size \in Nat,
           NEW resized \in Resize(entry, offset, size)
    PROVE  Sound(resized)
<1>. DEFINE old == ChainLength(fat, entry.start)
            new == BlocksFor(size)
            missing == new - old
            forgotten == [Forget(fat, entry.start) EXCEPT ![entry.start] = FINAL]
            shrunk == Shrink(fat, entry.start, new)
            stopped(zero) == [ret |-> zero.ret, fat |-> fat, disk |-> zero.disk, root |-> root]
<1>1. Table(fat) /\ disk \in [Offsets -> Entry] /\ root \in Entry
  BY DEF Inv
<1>2. new \in Nat /\ old \in Nat
  BY NamespaceAssumption, ChainType DEF BlocksFor
<1>3. Table(forgotten)
  <2>1. Table(Forget(fat, entry.start))
    BY <1>1, ForgetType
  <2>2. FINAL \in Links /\ FINAL # FREE
    BY DEF Links, FREE, FINAL
  <2>. QED BY <2>1, <2>2, LinkType
<1>4. Table(shrunk)
  BY <1>1, ShrinkType
<1>5. \A code \in {"OK", "ENOSPC"} : Sound(Failure(code, fat))
  BY <1>1, FailureSound DEF Codes
<1>6. ASSUME NEW zero \in ZeroOutFree(entry, size), zero.ret # "OK" PROVE Sound(stopped(zero))
  BY <1>1, ZeroOutFreeType DEF Sound, Codes
<1>7. ASSUME NEW zero \in ZeroOutFree(entry, size), NEW table, Table(table)
      PROVE  Sound(Save(table, zero.disk, entry, offset, size))
  BY <1>7, ZeroOutFreeType, SaveSound
<1>. HIDE DEF old, new, forgotten, shrunk, stopped
<1>8. \/ resized \in {Failure("OK", fat), Failure("ENOSPC", fat)}
      \/ resized = Save(forgotten, disk, entry, offset, size)
      \/ \E zero \in ZeroOutFree(entry, size) :
            \/ resized = Save(fat, zero.disk, entry, offset, size)
            \/ resized = Save(shrunk, zero.disk, entry, offset, size)
            \/ zero.ret # "OK" /\ resized = stopped(zero)
      \/ /\ ~(new = old) /\ ~(new < old)
         /\ \E tail \in Tails(fat, entry.start), taken \in LowestFree(fat, missing) :
               resized = Save(Extend(fat, tail, taken, missing), disk, entry, offset, size)
  <2>1. CASE entry.length = size
    BY <2>1 DEF Resize
  <2>2. CASE entry.length # size /\ size = 0
    BY <2>2 DEF Resize, forgotten
  <2>3. CASE entry.length # size /\ size # 0 /\ new = old
    <3>1. PICK zero \in ZeroOutFree(entry, size) :
              resized = IF zero.ret = "OK" THEN Save(fat, zero.disk, entry, offset, size)
                        ELSE stopped(zero)
      BY <2>3 DEF Resize, old, new, stopped
    <3>. QED BY <3>1
  <2>4. CASE entry.length # size /\ size # 0 /\ new # old /\ new < old
    <3>1. PICK zero \in ZeroOutFree(entry, size) :
              resized = IF zero.ret = "OK" THEN Save(shrunk, zero.disk, entry, offset, size)
                        ELSE stopped(zero)
      BY <2>4 DEF Resize, old, new, stopped, shrunk
    <3>. QED BY <3>1
  <2>5. CASE entry.length # size /\ size # 0 /\ new # old /\ ~(new < old)
    <3>1. resized \in IF ~HasFree(fat, missing) THEN {Failure("ENOSPC", fat)}
                      ELSE {Save(Extend(fat, tail, taken, missing), disk, entry, offset, size) :
                               tail \in Tails(fat, entry.start), taken \in LowestFree(fat, missing)}
      BY <2>5 DEF Resize, old, new
    <3>. QED BY <2>5, <3>1
  <2>. QED BY <2>1, <2>2, <2>3, <2>4, <2>5
<1>9. CASE resized = Save(forgotten, disk, entry, offset, size)
  BY <1>1, <1>3, <1>9, SaveSound
<1>10. CASE /\ ~(new = old) /\ ~(new < old)
            /\ \E tail \in Tails(fat, entry.start), taken \in LowestFree(fat, missing) :
                  resized = Save(Extend(fat, tail, taken, missing), disk, entry, offset, size)
  <2>1. PICK tail \in Tails(fat, entry.start), taken \in LowestFree(fat, missing) :
            resized = Save(Extend(fat, tail, taken, missing), disk, entry, offset, size)
    BY <1>10
  <2>2. missing \in Nat /\ missing > 0
    BY <1>2, <1>10
  <2>3. Table(Extend(fat, tail, taken, missing))
    <3>. HIDE DEF missing
    <3>. QED BY <1>1, <2>2, ExtendType
  <2>. HIDE DEF missing
  <2>. QED BY <1>1, <2>1, <2>3, SaveSound
<1>. QED BY <1>1, <1>4, <1>5, <1>6, <1>7, <1>8, <1>9, <1>10

-----------------------------------------------------------------------------
(* Every call keeps the invariant.                                         *)

LEMMA NotFoundStep ==
    ASSUME Inv, NEW path \in Seq(Names), NotFound(path) PROVE Inv'
BY FindType, FailSound DEF NotFound

LEMMA CreateStep == ASSUME Inv, NEW path \in Seq(Names), Create(path) PROVE Inv'
<1>1. CASE Fail("EEXIST")
  BY <1>1, FailSound DEF Codes
<1>2. CASE \E made \in NewFile(path, 0, "file", FALSE) : Become(made)
  BY <1>2, NewFileMade, BecomeSound DEF Made
<1>. QED BY <1>1, <1>2 DEF Create

LEMMA MkdirStep == ASSUME Inv, NEW path \in Seq(Names), Mkdir(path) PROVE Inv'
<1>1. PICK made \in NewFile(path, 1, "dir", FALSE) :
          IF made.ret # "OK" THEN Become(made)
          ELSE LET up == [made.parent EXCEPT !.name = DotDot]
                   first == made.new.start * EntriesPerBlock
               IN  Become([made EXCEPT !.disk = WriteEntry(@, first, up),
                                       !.root = CacheEntry(@, up)])
  BY Zenon DEF Mkdir
<1>2. Made(made)
  BY NewFileMade
<1>3. CASE made.ret # "OK"
  BY <1>1, <1>2, <1>3, BecomeSound DEF Made
<1>4. CASE made.ret = "OK"
  <2>. DEFINE up == [made.parent EXCEPT !.name = DotDot]
              first == made.new.start * EntriesPerBlock
              outcome == [made EXCEPT !.disk = WriteEntry(@, first, up),
                                      !.root = CacheEntry(@, up)]
  <2>1. up \in Entry
    BY <1>2, <1>4, EntryType DEF Made
  <2>2. WriteEntry(made.disk, first, up) \in [Offsets -> Entry] /\ CacheEntry(made.root, up) \in Entry
    BY <1>2, <2>1, WriteEntryType, CacheEntryType DEF Made, Sound
  <2>3. Become(outcome)
    BY <1>1, <1>4
  <2>. HIDE DEF up, first
  <2>4. /\ ret' = made.ret /\ fat' = made.fat
        /\ disk' \in {made.disk, WriteEntry(made.disk, first, up)}
        /\ root' \in {made.root, CacheEntry(made.root, up)}
    BY <2>3 DEF Become, Leave
  <2>5. Stamped'
    BY <2>3, BecomeStamped
  <2>. QED BY <1>2, <2>2, <2>4, <2>5 DEF Made, Sound, Inv, Table, Reserved
<1>. QED BY <1>3, <1>4

LEMMA UnlinkStep == ASSUME Inv, NEW path \in Seq(Names), Unlink(path) PROVE Inv'
<1>1. CASE NotFound(path)
  BY <1>1, NotFoundStep
<1>2. ASSUME NEW o \in Resolve(path), EntryAt(o).type = "dir", Fail("EISDIR") PROVE Inv'
  BY <1>2, FailSound DEF Codes
<1>3. ASSUME NEW o \in Resolve(path),
             Become([ret |-> "OK", fat |-> Forget(fat, EntryAt(o).start), root |-> root,
                     disk |-> WriteEntry(disk, o, [EntryAt(o) EXCEPT !.start = FREE])])
      PROVE  Inv'
  <2>1. EntryAt(o) \in Entry
    BY FindType, EntryAtType
  <2>2. WriteEntry(disk, o, [EntryAt(o) EXCEPT !.start = FREE]) \in [Offsets -> Entry]
    BY <2>1, EntryType, WriteEntryType DEF Inv
  <2>3. Table(Forget(fat, EntryAt(o).start))
    BY ForgetType DEF Inv
  <2>. QED BY <1>3, <2>2, <2>3, BecomeSound DEF Sound, Codes, Inv
<1>. QED BY <1>1, <1>2, <1>3 DEF Unlink

LEMMA RmdirStep == ASSUME Inv, NEW path \in Seq(Names), Rmdir(path) PROVE Inv'
<1>1. CASE NotFound(path)
  BY <1>1, NotFoundStep
<1>2. ASSUME NEW code \in {"EINVAL", "ENOTDIR", "ENOTEMPTY"}, Fail(code) PROVE Inv'
  BY <1>2, FailSound DEF Codes
<1>3. ASSUME NEW o \in Resolve(path),
             Become([ret |-> "OK", fat |-> Forget(fat, EntryAt(o).start), root |-> root,
                     disk |-> WriteEntry(disk, o, [EntryAt(o) EXCEPT !.start = FREE,
                                                                    !.length = 0])])
      PROVE  Inv'
  <2>1. EntryAt(o) \in Entry
    BY FindType, EntryAtType
  <2>2. [EntryAt(o) EXCEPT !.start = FREE, !.length = 0] \in Entry
    BY <2>1 DEF Entry
  <2>3. WriteEntry(disk, o, [EntryAt(o) EXCEPT !.start = FREE, !.length = 0]) \in [Offsets -> Entry]
    BY <2>2, WriteEntryType DEF Inv
  <2>4. Table(Forget(fat, EntryAt(o).start))
    BY ForgetType DEF Inv
  <2>. QED BY <1>3, <2>3, <2>4, BecomeSound DEF Sound, Codes, Inv
<1>. QED BY <1>1, <1>2, <1>3 DEF Rmdir

\* The two writes of rename keep the types.
LEMMA MovedType ==
    ASSUME NEW d \in [Offsets -> Entry], NEW entry \in Entry, NEW from, NEW to,
           NEW name \in Names \union {NoName}
    PROVE  Moved(d, entry, from, to, name) \in [Offsets -> Entry]
<1>1. [entry EXCEPT !.name = name] \in Entry
  BY DEF Entry
<1>. QED BY <1>1, EntryType DEF Moved

LEMMA RenameOverStep ==
    ASSUME Inv, NEW dest \in Seq(Names), NEW from \in Places, NEW to \in Places,
           RenameOver(dest, from, to)
    PROVE  Inv'
<1>. DEFINE removed == [EntryAt(to) EXCEPT !.start = FREE]
            d == Moved(WriteEntry(disk, to, removed), EntryAt(from), from, to, LastName(dest))
<1>1. EntryAt(to) \in Entry /\ EntryAt(from) \in Entry
  BY EntryAtType
<1>2. d \in [Offsets -> Entry]
  <2>1. WriteEntry(disk, to, removed) \in [Offsets -> Entry]
    BY <1>1, EntryType, WriteEntryType DEF Inv
  <2>. QED BY <1>1, <2>1, MovedType, PathType
<1>3. Table(Forget(fat, EntryAt(to).start))
  BY ForgetType DEF Inv
<1>4. \/ Fail("EISDIR")
      \/ Become([ret |-> "OK", fat |-> Forget(fat, EntryAt(to).start), root |-> root, disk |-> d])
  BY DEF RenameOver
<1>. HIDE DEF d
<1>5. CASE Fail("EISDIR")
  BY <1>5, FailSound DEF Codes
<1>. QED BY <1>2, <1>3, <1>4, <1>5, BecomeSound DEF Sound, Codes, Inv

LEMMA RenameToStep ==
    ASSUME Inv, NEW dest \in Seq(Names), NEW from \in Places, RenameTo(dest, from)
    PROVE  Inv'
<1>1. PICK made \in NewFile(dest, 0, EntryAt(from).type, TRUE) :
          IF made.ret # "OK" THEN Become(made)
          ELSE Become([made EXCEPT !.disk = Moved(@, EntryAt(from), from, made.offset,
                                                  LastName(dest))])
  BY DEF RenameTo
<1>2. EntryAt(from) \in Entry /\ EntryAt(from).type \in {"file", "dir"}
  BY EntryAtType DEF Entry
<1>3. Made(made)
  BY <1>2, NewFileMade
<1>4. Moved(made.disk, EntryAt(from), from, made.offset, LastName(dest)) \in [Offsets -> Entry]
  BY <1>2, <1>3, MovedType, PathType DEF Made, Sound
<1>5. CASE made.ret # "OK"
  BY <1>1, <1>3, <1>5, BecomeSound DEF Made
<1>6. CASE made.ret = "OK"
  <2>1. /\ ret' = made.ret /\ fat' = made.fat /\ root' = made.root
        /\ disk' \in {made.disk,
                      Moved(made.disk, EntryAt(from), from, made.offset, LastName(dest))}
    BY <1>1, <1>6 DEF Become, Leave
  <2>2. Stamped'
    BY <1>1, <1>6, BecomeStamped
  <2>. QED BY <1>3, <1>4, <2>1, <2>2 DEF Made, Sound, Inv, Table, Reserved
<1>. QED BY <1>5, <1>6

LEMMA RenameStep ==
    ASSUME Inv, NEW src \in Seq(Names), NEW dest \in Seq(Names), Rename(src, dest)
    PROVE  Inv'
<1>1. Resolve(src) \subseteq Places /\ Resolve(dest) \subseteq Places /\ Find(dest) \in Codes
  BY FindType
<1>2. CASE NotFound(src)
  BY <1>2, NotFoundStep
<1>3. CASE Fail(Find(dest))
  BY <1>1, <1>3, FailSound
<1>4. CASE \E from \in Resolve(src) : RenameTo(dest, from)
  BY <1>1, <1>4, RenameToStep
<1>5. CASE \E from \in Resolve(src), to \in Resolve(dest) : RenameOver(dest, from, to)
  BY <1>1, <1>5, RenameOverStep
<1>. QED BY <1>2, <1>3, <1>4, <1>5 DEF Rename

LEMMA TruncateStep ==
    ASSUME Inv, NEW path \in Seq(Names), NEW size \in Nat, Truncate(path, size)
    PROVE  Inv'
<1>1. CASE NotFound(path)
  BY <1>1, NotFoundStep
<1>2. ASSUME NEW o \in Resolve(path), NEW resized \in Resize(EntryAt(o), o, size), Become(resized)
      PROVE  Inv'
  <2>1. EntryAt(o) \in Entry
    BY FindType, EntryAtType
  <2>. QED BY <1>2, <2>1, ResizeSound, BecomeSound
<1>. QED BY <1>1, <1>2 DEF Truncate

LEMMA OverwrittenType ==
    ASSUME NEW table, NEW d \in [Offsets -> Entry], NEW file, NEW size, NEW pieces,
           pieces \subseteq Entry, NEW d2 \in Overwritten(table, d, file, size, pieces)
    PROVE  d2 \in [Offsets -> Entry]
<1>. DEFINE written == Offsets \cap {SlotOffset(table, file, i) : i \in 0 .. size - 1}
<1>1. PICK piece \in [written -> pieces] :
          d2 = [o \in Offsets |-> IF o \in written THEN piece[o] ELSE d[o]]
  BY DEF Overwritten
<1>. HIDE DEF written
<1>. QED BY <1>1

LEMMA FillSound ==
    ASSUME Inv, NEW resized, Sound(resized), NEW file \in Entry, NEW o, NEW size, NEW pieces,
           pieces \subseteq Entry, NEW filled \in Fill(resized, file, o, size, pieces)
    PROVE  Sound(filled)
<1>1. CASE filled = resized
  BY <1>1
<1>2. ASSUME NEW d \in Overwritten(resized.fat, resized.disk, file, size, pieces),
             filled = [resized EXCEPT !.disk = WriteEntry(d, o, file),
                                      !.root = CacheEntry(@, file)]
      PROVE  Sound(filled)
  <2>1. d \in [Offsets -> Entry]
    BY OverwrittenType DEF Sound
  <2>2. WriteEntry(d, o, file) \in [Offsets -> Entry] /\ CacheEntry(resized.root, file) \in Entry
    BY <2>1, WriteEntryType, CacheEntryType DEF Sound
  <2>3. /\ filled.ret = resized.ret /\ filled.fat = resized.fat
        /\ filled.disk \in {resized.disk, WriteEntry(d, o, file)}
        /\ filled.root \in {resized.root, CacheEntry(resized.root, file)}
    BY <1>2
  <2>. QED BY <2>2, <2>3 DEF Sound
<1>. QED BY <1>1, <1>2 DEF Fill

\* The length write gives a file.
Enlarged(entry, size) == IF size > entry.length THEN size ELSE entry.length

LEMMA EnlargedType ==
    ASSUME NEW entry \in Entry, NEW size \in Nat
    PROVE  /\ Enlarged(entry, size) \in Nat
           /\ Enlarged(entry, size) >= entry.length /\ Enlarged(entry, size) >= size
           /\ [entry EXCEPT !.length = Enlarged(entry, size)] \in Entry
<1>1. entry.length \in Nat
  BY DEF Entry
<1>2. Enlarged(entry, size) \in Nat /\ Enlarged(entry, size) >= entry.length
      /\ Enlarged(entry, size) >= size
  BY <1>1 DEF Enlarged
<1>. QED BY <1>2, EntryType

\* What a write comes to when the path is found.
Writes(o, size, pieces) ==
    \E resized \in Resize(EntryAt(o), o, Enlarged(EntryAt(o), size)) :
        \E filled \in Fill(resized, [EntryAt(o) EXCEPT !.length = Enlarged(EntryAt(o), size)],
                           o, size, pieces) :
            /\ Leave(filled)
            /\ times' = IF o = RootOffset /\ filled.ret = "OK"
                        THEN [times EXCEPT !.disk = times.cached] ELSE times

LEMMA WriteIs ==
    ASSUME NEW path, NEW size, NEW pieces, Write(path, size, pieces)
    PROVE  /\ call' = <<"write", path, size>>
           /\ NotFound(path) \/ \E o \in Resolve(path) : Writes(o, size, pieces)
BY Zenon DEF Write, Writes, Enlarged, Called

LEMMA WriteStep ==
    ASSUME Inv, NEW path \in Seq(Names), NEW size \in Nat, NEW pieces, pieces \subseteq Entry,
           Write(path, size, pieces)
    PROVE  Inv'
<1>1. CASE NotFound(path)
  BY <1>1, NotFoundStep
<1>2. ASSUME NEW o \in Resolve(path), Writes(o, size, pieces) PROVE Inv'
  <2>. DEFINE length == Enlarged(EntryAt(o), size)
              file == [EntryAt(o) EXCEPT !.length = length]
  <2>1. EntryAt(o) \in Entry
    BY FindType, EntryAtType
  <2>2. length \in Nat /\ file \in Entry
    BY <2>1, EnlargedType
  <2>3. PICK resized \in Resize(EntryAt(o), o, length) :
            \E filled \in Fill(resized, file, o, size, pieces) :
                /\ Leave(filled)
                /\ times' = IF o = RootOffset /\ filled.ret = "OK"
                            THEN [times EXCEPT !.disk = times.cached] ELSE times
    BY <1>2 DEF Writes
  <2>. HIDE DEF length, file
  <2>4. PICK filled \in Fill(resized, file, o, size, pieces) :
            /\ Leave(filled)
            /\ times' = IF o = RootOffset /\ filled.ret = "OK"
                        THEN [times EXCEPT !.disk = times.cached] ELSE times
    BY <2>3
  <2>6. Sound(filled)
    BY <2>1, <2>2, <2>3, ResizeSound, FillSound
  <2>7. Stamped'
    BY <2>4 DEF Inv, Stamped
  <2>. QED BY <2>4, <2>6, <2>7, LeaveSound
<1>. QED BY <1>1, <1>2, WriteIs

LEMMA TouchStep ==
    ASSUME Inv, NEW o \in Places, NEW time \in Times \union {0}, Touch(o, time) PROVE Inv'
<1>1. EntryAt(o) \in Entry
  BY EntryAtType
<1>2. WriteEntry(disk, o, EntryAt(o)) \in [Offsets -> Entry] /\ CacheEntry(root, EntryAt(o)) \in Entry
  BY <1>1, WriteEntryType, CacheEntryType DEF Inv
<1>. DEFINE outcome == [ret |-> "OK", fat |-> fat, disk |-> WriteEntry(disk, o, EntryAt(o)),
                        root |-> CacheEntry(root, EntryAt(o))]
<1>3. Sound(outcome)
  BY <1>2 DEF Sound, Codes, Inv
<1>4. Leave(outcome)
  BY DEF Touch
<1>5. Stamped'
  BY DEF Touch, Inv, Stamped
<1>. HIDE DEF outcome
<1>. QED BY <1>3, <1>4, <1>5, LeaveSound

LEMMA UtimensStep ==
    ASSUME Inv, NEW path \in Seq(Names), NEW time \in Times, Utimens(path, time) PROVE Inv'
<1>1. CASE NotFound(path)
  BY <1>1, NotFoundStep
<1>2. ASSUME NEW o \in Resolve(path), Touch(o, time) PROVE Inv'
  BY <1>2, FindType, TouchStep
<1>. QED BY <1>1, <1>2 DEF Utimens

LEMMA ReadStep == ASSUME Inv, NEW path \in Seq(Names), Read(path) PROVE Inv'
<1>1. CASE NotFound(path)
  BY <1>1, NotFoundStep
<1>2. ASSUME NEW code \in {"OK", "ENOENT"}, Fail(code) PROVE Inv'
  BY <1>2, FailSound DEF Codes
<1>3. ASSUME NEW o \in Resolve(path), Touch(o, times.cached) PROVE Inv'
  BY <1>3, FindType, TouchStep DEF Inv, Stamped
<1>. QED BY <1>1, <1>2, <1>3 DEF Read

LEMMA RootInRange == RootOffset \in Offsets
BY BlockAssumption, NamespaceAssumption DEF RootOffset, Offsets, RootBlock

LEMMA RestartStep == ASSUME Inv, Restart PROVE Inv'
BY RootInRange DEF Restart, Inv, Table, Reserved, Codes, Stamped

LEMMA MakeStep == ASSUME Inv, Make PROVE Inv'
<1>1. WriteEntry(disk, RootOffset, NewRoot) \in [Offsets -> Entry]
  BY EntryType, WriteEntryType DEF Inv
<1>. QED BY <1>1, InitFATIsTable, EntryType DEF Make, Inv, Table, Reserved, Codes, Stamped

-----------------------------------------------------------------------------
(* The theorems.                                                           *)

LEMMA InitInv == Init => Inv
<1>. SUFFICES ASSUME Init PROVE Inv
  OBVIOUS
<1>1. [o \in Offsets |-> Nothing] \in [Offsets -> Entry]
  BY EntryType
<1>2. disk \in [Offsets -> Entry]
  BY <1>1, EntryType, WriteEntryType DEF Init
<1>. QED BY <1>2, InitFATIsTable, EntryType DEF Init, Inv, Codes, Stamped

\* The steps of both specifications.
AnyNext == \/ Next
           \/ Make
           \/ \E path \in Paths, size \in Sizes : Write(path, size, Contents)

LEMMA NextInv == Inv /\ [AnyNext]_vars => Inv'
<1>. SUFFICES ASSUME Inv, [AnyNext]_vars PROVE Inv'
  OBVIOUS
<1>. USE NamespaceAssumption
<1>1. ASSUME NEW path \in Paths, Create(path) PROVE Inv'
  BY <1>1, CreateStep
<1>2. ASSUME NEW path \in Paths, Mkdir(path) PROVE Inv'
  BY <1>2, MkdirStep
<1>3. ASSUME NEW path \in Paths, Unlink(path) PROVE Inv'
  BY <1>3, UnlinkStep
<1>4. ASSUME NEW path \in Paths, Rmdir(path) PROVE Inv'
  BY <1>4, RmdirStep
<1>5. ASSUME NEW path \in Paths, NEW time \in Times, Utimens(path, time) PROVE Inv'
  BY <1>5, UtimensStep
<1>11. ASSUME NEW path \in Paths, Read(path) PROVE Inv'
  BY <1>11, ReadStep
<1>12. ASSUME NEW path \in Paths, NEW size \in Sizes, NEW pieces \in {Contents, Harmless},
              Write(path, size, pieces)
       PROVE  Inv'
  <2>1. pieces \subseteq Entry
    BY ContentsAssumption DEF Harmless
  <2>. QED BY <1>12, <2>1, WriteStep
<1>6. ASSUME NEW path \in Paths, NEW size \in Sizes, Truncate(path, size) PROVE Inv'
  BY <1>6, TruncateStep
<1>7. ASSUME NEW src \in Paths, NEW dest \in Paths, Rename(src, dest) PROVE Inv'
  BY <1>7, RenameStep
<1>8. CASE Restart
  BY <1>8, RestartStep
<1>9. CASE Make
  BY <1>9, MakeStep
<1>10. CASE UNCHANGED vars
  BY <1>10 DEF vars, Inv, Table, Reserved, Stamped
<1>. QED BY <1>1, <1>2, <1>3, <1>4, <1>5, <1>6, <1>7, <1>8, <1>9, <1>10, <1>11, <1>12
         DEF AnyNext, Next, ShellNext

\* Whatever sequence of calls is made, the table maps every block to a data block
\* or a mark, and every slot and the cached root hold an entry whose start is a
\* data block or none: no call of the driver writes a block number out of range.
THEOREM TypeCorrect == Spec => []TypeOK
<1>1. Init => Inv
  BY InitInv
<1>2. Inv /\ [Next]_vars => Inv'
  BY NextInv DEF AnyNext
<1>3. Inv => TypeOK
  BY InvGivesTypeOK
<1>. QED BY <1>1, <1>2, <1>3, PTL DEF Spec

\* The same for disciplined callers, who may also make the file system again.
THEOREM DisciplinedTypeCorrect == DisciplinedSpec => []TypeOK
<1>1. DisciplinedNext => AnyNext
  <2>1. ASSUME NEW src \in Paths, NEW dest \in Paths, Movable(src, dest), Rename(src, dest)
        PROVE  Next
    BY <2>1 DEF Movable, Next
  <2>. QED BY <2>1 DEF DisciplinedNext, AnyNext, Next, ShellNext
<1>2. Inv /\ [DisciplinedNext]_vars => Inv'
  BY <1>1, NextInv
<1>3. Init => Inv
  BY InitInv
<1>4. Inv => TypeOK
  BY InvGivesTypeOK
<1>. QED BY <1>2, <1>3, <1>4, PTL DEF DisciplinedSpec

\* No block of the table is ever free, so that findFreeBlock, which looks at every
\* block number, only ever hands out blocks that hold data.
THEOREM AllocatesDataBlocks == Spec => [](FindFreeBlock(fat) \subseteq DataBlocks)
<1>1. Inv => FindFreeBlock(fat) \subseteq DataBlocks
  BY FreeBlocksType DEF Inv
<1>2. Init => Inv
  BY InitInv
<1>3. Inv /\ [Next]_vars => Inv'
  BY NextInv DEF AnyNext
<1>. QED BY <1>1, <1>2, <1>3, PTL DEF Spec

-----------------------------------------------------------------------------
(* Calls that fail.                                                        *)

\* What newFile leaves when it fails: nothing is written, but a block it took before
\* it looked at the parent stays taken.
FailsWith(made, noalloc) ==
    /\ made.disk = disk /\ made.root = root
    /\ \/ made.fat = fat
       \/ /\ ~noalloc /\ made.ret \in {"ENOTDIR", "EINVAL"}
          /\ \E b \in FindFreeBlock(fat) : made.fat = [fat EXCEPT ![b] = FINAL]

LEMMA FailureFails ==
    ASSUME NEW code, NEW noalloc
    PROVE  FailsWith(Failure(code, fat), noalloc)
BY DEF FailsWith, Failure

\* The table newFile works on, its block taken unless it is not to take any.
Allocating(noalloc, free) == IF noalloc THEN fat ELSE [fat EXCEPT ![free] = FINAL]

\* A block that is given back is as free as it was.
LEMMA GivenBack ==
    ASSUME Inv, NEW free \in FindFreeBlock(fat)
    PROVE  [Allocating(FALSE, free) EXCEPT ![free] = FREE] = fat
<1>1. fat \in [Blocks -> Links] /\ free \in Blocks /\ fat[free] = FREE
  BY DEF Inv, Table, FindFreeBlock, FreeBlocks
<1>2. Allocating(FALSE, free) = [fat EXCEPT ![free] = FINAL]
  BY DEF Allocating
<1>. QED BY <1>1, <1>2

LEMMA ExpandFails ==
    ASSUME Inv, NEW noalloc \in BOOLEAN, NEW free, noalloc \/ free \in FindFreeBlock(fat),
           NEW new, NEW dir, NEW dirOffset,
           NEW made \in Expand(Allocating(noalloc, free), free, new, dir, dirOffset, noalloc),
           made.ret # "OK"
    PROVE  FailsWith(made, noalloc)
<1>. DEFINE table == Allocating(noalloc, free)
            linked == [table EXCEPT ![free] = Hop(table, dir.start, dir.length \div EntriesPerBlock - 1)]
<1>1. \/ noalloc /\ made = Failure("ENOSPC", table)
      \/ ~noalloc /\ made = Failure("ENOSPC", [table EXCEPT ![free] = FREE])
      \/ \E offset : made = Success(linked, new, dir, dirOffset, offset, 1)
      \/ \E offset, start : made = Success([linked EXCEPT ![start] = FINAL],
                                           [new EXCEPT !.start = start], dir, dirOffset, offset, 1)
  <2>. HIDE DEF table
  <2>. QED BY Zenon DEF Expand, table
<1>. HIDE DEF linked
<1>2. CASE noalloc /\ made = Failure("ENOSPC", table)
  BY <1>2, FailureFails DEF Allocating
<1>3. CASE ~noalloc /\ made = Failure("ENOSPC", [table EXCEPT ![free] = FREE])
  <2>1. [table EXCEPT ![free] = FREE] = fat
    BY <1>3, GivenBack
  <2>. HIDE DEF table
  <2>. QED BY <1>3, <2>1, FailureFails
<1>4. \A t, n, offset : Success(t, n, dir, dirOffset, offset, 1).ret = "OK"
  BY DEF Success
<1>. HIDE DEF table
<1>. QED BY <1>1, <1>2, <1>3, <1>4

LEMMA InsertFails ==
    ASSUME Inv, NEW noalloc \in BOOLEAN, NEW free, noalloc \/ free \in FindFreeBlock(fat),
           NEW new, NEW dirOffset,
           NEW made \in Insert(Allocating(noalloc, free), free, new, dirOffset, noalloc),
           made.ret # "OK"
    PROVE  FailsWith(made, noalloc)
<1>. DEFINE table == Allocating(noalloc, free)
            dir == EntryAt(dirOffset)
            slot(i) == SlotOffset(table, dir, i)
<1>. HIDE DEF dir, table
<1>1. \/ DirStatus(table, dir) # "OK" /\ made = Failure(DirStatus(table, dir), table)
      \/ \E i : made = Success(table, new, dir, dirOffset, slot(i), 0)
      \/ ~noalloc /\ made = Failure("ENOSPC", [table EXCEPT ![free] = FREE])
      \/ made = Success(table, new, dir, dirOffset, slot(dir.length), 1)
      \/ made \in Expand(table, free, new, dir, dirOffset, noalloc)
  <2>. HIDE DEF slot
  <2>. QED BY Zenon DEF Insert, dir, slot, table
<1>. HIDE DEF slot
<1>2. CASE DirStatus(table, dir) # "OK" /\ made = Failure(DirStatus(table, dir), table)
  <2>1. /\ made.ret \in {"ENOTDIR", "EINVAL"} /\ made.fat = table
        /\ made.disk = disk /\ made.root = root
    BY <1>2, DirStatusType DEF Failure
  <2>2. CASE noalloc
    BY <2>1, <2>2 DEF FailsWith, table, Allocating
  <2>3. CASE ~noalloc
    <3>1. free \in FindFreeBlock(fat) /\ table = [fat EXCEPT ![free] = FINAL]
      BY <2>3 DEF table, Allocating
    <3>. QED BY <2>1, <2>3, <3>1 DEF FailsWith
  <2>. QED BY <2>2, <2>3
<1>3. CASE ~noalloc /\ made = Failure("ENOSPC", [table EXCEPT ![free] = FREE])
  <2>1. [table EXCEPT ![free] = FREE] = fat
    BY <1>3, GivenBack DEF table
  <2>. QED BY <1>3, <2>1, FailureFails
<1>4. CASE made \in Expand(table, free, new, dir, dirOffset, noalloc)
  BY <1>4, ExpandFails DEF table
<1>5. \A offset, grown : Success(table, new, dir, dirOffset, offset, grown).ret = "OK"
  BY DEF Success
<1>. QED BY <1>1, <1>2, <1>3, <1>4, <1>5

LEMMA NewFileFails ==
    ASSUME Inv, NEW path, NEW length, NEW type, NEW noalloc \in BOOLEAN,
           NEW made \in NewFile(path, length, type, noalloc), made.ret # "OK"
    PROVE  FailsWith(made, noalloc)
<1>. DEFINE new(free) == [name |-> IF noalloc THEN NoName ELSE LastName(path), type |-> type,
                          start |-> IF noalloc THEN FREE ELSE free, length |-> length]
            allocate(free) ==
                IF FindParent(path) = "ENOENT" THEN {Failure("ENOTDIR", Allocating(noalloc, free))}
                ELSE UNION {Insert(Allocating(noalloc, free), free, new(free), o, noalloc)
                               : o \in Resolve(ParentPath(path))}
<1>. HIDE DEF new
<1>1. \/ \E code : made = Failure(code, fat)
      \/ \E free \in FindFreeBlock(fat) : made \in allocate(free)
      \/ noalloc /\ made \in allocate(UNUSABLE)
  <2>. HIDE DEF allocate
  <2>. QED BY Zenon DEF NewFile, allocate, Allocating, new
<1>2. ASSUME NEW free, noalloc \/ free \in FindFreeBlock(fat), made \in allocate(free)
      PROVE  FailsWith(made, noalloc)
  <2>1. CASE made = Failure("ENOTDIR", Allocating(noalloc, free))
    <3>1. /\ made.ret = "ENOTDIR" /\ made.fat = Allocating(noalloc, free)
          /\ made.disk = disk /\ made.root = root
      BY <2>1 DEF Failure
    <3>. QED BY <1>2, <3>1 DEF FailsWith, Allocating
  <2>2. CASE \E o : made \in Insert(Allocating(noalloc, free), free, new(free), o, noalloc)
    BY <1>2, <2>2, InsertFails
  <2>. QED BY <1>2, <2>1, <2>2
<1>. HIDE DEF allocate
<1>3. CASE \E code : made = Failure(code, fat)
  BY <1>3, FailureFails
<1>. QED BY <1>1, <1>2, <1>3

\* resize fails before it writes, or panics.
LEMMA ResizeFails ==
    ASSUME Inv, NEW entry, NEW offset, NEW size, NEW resized \in Resize(entry, offset, size)
    PROVE  resized.ret \in {"OK", "PANIC"} \/ resized = Failure("ENOSPC", fat)
<1>1. \A table, d : Save(table, d, entry, offset, size).ret = "OK"
  BY DEF Save
<1>2. \A zero \in ZeroOutFree(entry, size) : zero.ret \in {"OK", "PANIC"}
  BY ZeroOutFreeType
<1>3. Failure("OK", fat).ret = "OK"
  BY DEF Failure
<1>. DEFINE old == ChainLength(fat, entry.start)
            new == BlocksFor(size)
            missing == new - old
            stopped(zero) == [ret |-> zero.ret, fat |-> fat, disk |-> zero.disk, root |-> root]
            saved(table, zero) == IF zero.ret = "OK" THEN Save(table, zero.disk, entry, offset, size)
                                  ELSE stopped(zero)
<1>4. \A table : \A zero \in ZeroOutFree(entry, size) : saved(table, zero).ret \in {"OK", "PANIC"}
  BY <1>1, <1>2
<1>. HIDE DEF saved
<1>5. CASE entry.length = size
  BY <1>3, <1>5 DEF Resize
<1>6. CASE entry.length # size /\ size = 0
  BY <1>1, <1>6 DEF Resize
<1>7. CASE entry.length # size /\ size # 0 /\ ~(new < old \/ new = old)
  <2>1. \/ resized = Failure("ENOSPC", fat)
        \/ \E table : resized = Save(table, disk, entry, offset, size)
    BY <1>7 DEF Resize
  <2>. QED BY <1>1, <2>1
<1>8. CASE entry.length # size /\ size # 0 /\ (new < old \/ new = old)
  <2>1. \E table : \E zero \in ZeroOutFree(entry, size) : resized = saved(table, zero)
    <3>1. CASE new = old
      BY <1>8, <3>1 DEF Resize, saved
    <3>2. CASE new # old
      BY <1>8, <3>2 DEF Resize, saved
    <3>. QED BY <3>1, <3>2
  <2>. QED BY <1>4, <2>1
<1>. QED BY <1>5, <1>6, <1>7, <1>8

\* What a step does that fails.
FailsCleanly == ret' \notin {"OK", "PANIC"} =>
                    UNCHANGED <<disk, root, times>> /\ (fat' = fat \/ BlockLost)

LEMMA CodeFails == ASSUME NEW code, Fail(code) PROVE FailsCleanly
BY DEF Fail, FailsCleanly

LEMMA FailureLeft == ASSUME NEW code, Become(Failure(code, fat)) PROVE FailsCleanly
BY DEF Become, Leave, Failure, FailsCleanly

LEMMA SuccessLeft == ASSUME NEW outcome, outcome.ret \in {"OK", "PANIC"}, Leave(outcome)
                     PROVE  FailsCleanly
BY DEF Leave, FailsCleanly

LEMMA OutcomeLeft ==
    ASSUME NEW table, NEW d,
           Become([ret |-> "OK", fat |-> table, root |-> root, disk |-> d])
    PROVE  FailsCleanly
BY DEF Become, Leave, FailsCleanly

LEMMA MadeLeft ==
    ASSUME NEW made, FailsWith(made, FALSE), Become(made), call'[1] \in {"create", "mkdir"}
    PROVE  FailsCleanly
<1>1. /\ ret' = made.ret /\ fat' = made.fat /\ disk' = disk /\ root' = root
      /\ times' = times
  BY DEF FailsWith, Become, Leave
<1>. QED BY <1>1 DEF FailsWith, FailsCleanly, BlockLost

LEMMA RenameFails ==
    ASSUME Inv, NEW src, NEW dest, Rename(src, dest) PROVE FailsCleanly
<1>1. ASSUME NEW from, NEW to, RenameOver(dest, from, to) PROVE FailsCleanly
  <2>1. \/ Fail("EISDIR")
        \/ \E table, d : Become([ret |-> "OK", fat |-> table, root |-> root, disk |-> d])
    BY <1>1 DEF RenameOver
  <2>. QED BY <2>1, CodeFails, OutcomeLeft
<1>2. ASSUME NEW from, RenameTo(dest, from) PROVE FailsCleanly
  <2>1. PICK made \in NewFile(dest, 0, EntryAt(from).type, TRUE) :
            IF made.ret # "OK" THEN Become(made)
            ELSE Become([made EXCEPT !.disk = Moved(@, EntryAt(from), from, made.offset,
                                                    LastName(dest))])
    BY <1>2 DEF RenameTo
  <2>2. CASE made.ret # "OK"
    <3>1. FailsWith(made, TRUE)
      BY <2>2, NewFileFails
    <3>. QED BY <2>1, <2>2, <3>1 DEF FailsWith, FailsCleanly, Become, Leave
  <2>3. CASE made.ret = "OK"
    <3>1. ret' = made.ret
      BY <2>1, <2>3 DEF Become, Leave
    <3>. QED BY <2>3, <3>1 DEF FailsCleanly
  <2>. QED BY <2>2, <2>3
<1>3. CASE NotFound(src)
  BY <1>3, CodeFails DEF NotFound
<1>4. CASE Fail(Find(dest))
  BY <1>4, CodeFails
<1>. QED BY <1>1, <1>2, <1>3, <1>4 DEF Rename

LEMMA WriteFails ==
    ASSUME Inv, NEW path, NEW size, NEW pieces, Write(path, size, pieces) PROVE FailsCleanly
<1>1. CASE NotFound(path)
  BY <1>1, CodeFails DEF NotFound
<1>2. ASSUME NEW o, Writes(o, size, pieces) PROVE FailsCleanly
  <2>. DEFINE length == Enlarged(EntryAt(o), size)
              file == [EntryAt(o) EXCEPT !.length = length]
  <2>. HIDE DEF length, file
  <2>1. PICK resized \in Resize(EntryAt(o), o, length) :
            \E filled \in Fill(resized, file, o, size, pieces) :
                /\ Leave(filled)
                /\ times' = IF o = RootOffset /\ filled.ret = "OK"
                            THEN [times EXCEPT !.disk = times.cached] ELSE times
    BY <1>2 DEF Writes, length, file
  <2>2. PICK filled \in Fill(resized, file, o, size, pieces) :
            /\ Leave(filled)
            /\ times' = IF o = RootOffset /\ filled.ret = "OK"
                        THEN [times EXCEPT !.disk = times.cached] ELSE times
    BY <2>1
  <2>3. CASE resized.ret # "OK"
    <3>1. filled = resized
      BY <2>2, <2>3 DEF Fill
    <3>2. CASE resized = Failure("ENOSPC", fat)
      <4>1. /\ filled.ret # "OK" /\ filled.fat = fat /\ filled.disk = disk /\ filled.root = root
        BY <2>3, <3>1, <3>2 DEF Failure
      <4>. QED BY <2>2, <4>1 DEF Leave, FailsCleanly
    <3>3. CASE resized.ret \in {"OK", "PANIC"}
      BY <2>2, <3>1, <3>3, SuccessLeft
    <3>. QED BY <2>1, <3>2, <3>3, ResizeFails
  <2>4. CASE resized.ret = "OK"
    <3>1. PICK d : filled = [resized EXCEPT !.disk = WriteEntry(d, o, file),
                                            !.root = CacheEntry(@, file)]
      BY <2>2, <2>4 DEF Fill
    <3>. DEFINE written == WriteEntry(d, o, file)
                cached == CacheEntry(resized.root, file)
    <3>. HIDE DEF written, cached
    <3>2. filled = [resized EXCEPT !.disk = written, !.root = cached]
      BY <3>1 DEF written, cached
    <3>3. filled.ret = "OK"
      BY <2>4, <3>2
    <3>4. Leave(filled)
      BY <2>2
    <3>. QED BY <3>3, <3>4, SuccessLeft
  <2>. QED BY <2>3, <2>4
<1>. QED BY <1>1, <1>2, WriteIs

LEMMA NextFails == ASSUME Inv, [Next]_vars PROVE FailsCleanly \/ UNCHANGED vars
<1>1. ASSUME NEW path, Create(path) PROVE FailsCleanly
  <2>1. call' = <<"create", path>>
    BY <1>1 DEF Create, Called
  <2>2. CASE Fail("EEXIST")
    BY <2>2, CodeFails
  <2>3. ASSUME NEW made \in NewFile(path, 0, "file", FALSE), Become(made) PROVE FailsCleanly
    <3>1. CASE made.ret = "OK"
      BY <2>3, <3>1, SuccessLeft DEF Become
    <3>2. CASE made.ret # "OK"
      <4>1. FailsWith(made, FALSE)
        BY <2>3, <3>2, NewFileFails
      <4>2. call'[1] \in {"create", "mkdir"}
        BY <2>1
      <4>. QED BY <2>3, <4>1, <4>2, MadeLeft
    <3>. QED BY <3>1, <3>2
  <2>. QED BY <1>1, <2>2, <2>3 DEF Create
<1>2. ASSUME NEW path, Mkdir(path) PROVE FailsCleanly
  <2>1. PICK made \in NewFile(path, 1, "dir", FALSE) :
            IF made.ret # "OK" THEN Become(made)
            ELSE LET up == [made.parent EXCEPT !.name = DotDot]
                     first == made.new.start * EntriesPerBlock
                 IN  Become([made EXCEPT !.disk = WriteEntry(@, first, up),
                                         !.root = CacheEntry(@, up)])
    BY <1>2, Zenon DEF Mkdir
  <2>2. call' = <<"mkdir", path>>
    BY <1>2 DEF Mkdir, Called
  <2>3. CASE made.ret = "OK"
    <3>1. ret' = made.ret
      BY <2>1, <2>3 DEF Become, Leave
    <3>. QED BY <2>3, <3>1 DEF FailsCleanly
  <2>4. CASE made.ret # "OK"
    <3>1. FailsWith(made, FALSE)
      BY <2>4, NewFileFails
    <3>2. call'[1] \in {"create", "mkdir"}
      BY <2>2
    <3>. QED BY <2>1, <2>4, <3>1, <3>2, MadeLeft
  <2>. QED BY <2>3, <2>4
<1>3. ASSUME NEW path, NotFound(path) PROVE FailsCleanly
  BY <1>3, CodeFails DEF NotFound
<1>4. ASSUME NEW path, Unlink(path) PROVE FailsCleanly
  <2>1. \/ NotFound(path) \/ Fail("EISDIR")
        \/ \E table, d : Become([ret |-> "OK", fat |-> table, root |-> root, disk |-> d])
    BY <1>4 DEF Unlink
  <2>. QED BY <1>3, <2>1, CodeFails, OutcomeLeft
<1>5. ASSUME NEW path, Rmdir(path) PROVE FailsCleanly
  <2>1. \/ NotFound(path) \/ \E code : Fail(code)
        \/ \E table, d : Become([ret |-> "OK", fat |-> table, root |-> root, disk |-> d])
    BY <1>5 DEF Rmdir
  <2>. QED BY <1>3, <2>1, CodeFails, OutcomeLeft
<1>6. ASSUME NEW offset, NEW time, Touch(offset, time) PROVE FailsCleanly
  BY <1>6 DEF Touch, Leave, FailsCleanly
<1>7. ASSUME NEW path, NEW time, Utimens(path, time) PROVE FailsCleanly
  BY <1>3, <1>6, <1>7 DEF Utimens
<1>8. ASSUME NEW path, Read(path) PROVE FailsCleanly
  BY <1>3, <1>6, <1>8, CodeFails DEF Read
<1>9. ASSUME NEW path, NEW size, Truncate(path, size) PROVE FailsCleanly
  <2>1. ASSUME NEW o, NEW resized \in Resize(EntryAt(o), o, size), Become(resized)
        PROVE  FailsCleanly
    <3>1. CASE resized = Failure("ENOSPC", fat)
      BY <2>1, <3>1, FailureLeft
    <3>2. CASE resized.ret \in {"OK", "PANIC"}
      BY <2>1, <3>2, SuccessLeft DEF Become
    <3>. QED BY <2>1, <3>1, <3>2, ResizeFails
  <2>. QED BY <1>3, <1>9, <2>1 DEF Truncate
<1>10. CASE Restart
  BY <1>10 DEF Restart, FailsCleanly
<1>. QED BY <1>1, <1>2, <1>4, <1>5, <1>7, <1>8, <1>9, <1>10, WriteFails, RenameFails
         DEF Next, ShellNext

\* Whatever calls are made, one that fails leaves every entry, the table and the cached
\* root as they were, but for the block that newFile took before it found that there is no
\* directory to enter the new file in: that one is lost.
THEOREM FailuresChangeNothing == Spec => FailureIsAtomic
<1>1. Init => Inv
  BY InitInv
<1>2. Inv /\ [Next]_vars => Inv'
  BY NextInv DEF AnyNext
<1>3. Inv /\ [Next]_vars =>
          [ret' \notin {"OK", "PANIC"} =>
              UNCHANGED <<disk, root, times>> /\ (fat' = fat \/ BlockLost)]_vars
  BY NextFails DEF FailsCleanly
<1>. QED BY <1>1, <1>2, <1>3, PTL DEF Spec, FailureIsAtomic

-----------------------------------------------------------------------------
(* Chains, block by block.                                                 *)

\* The first n blocks of a chain that ends: p runs through them, once each.
Follows(table, start, p, n) ==
    /\ n \in Nat \ {0}
    /\ p \in [1 .. n -> DataBlocks]
    /\ p[1] = start
    /\ \A i \in 1 .. n - 1 : table[p[i]] = p[i + 1]
    /\ table[p[n]] = FINAL
    /\ \A i, j \in 1 .. n : p[i] = p[j] => i = j

\* The chain consists of the blocks met on the way, and there are as many.
LEMMA FollowedChain ==
    ASSUME NEW table, NEW start, NEW p, NEW n, Follows(table, start, p, n)
    PROVE  /\ Chain(table, start) = {p[i] : i \in 1 .. n}
           /\ Cardinality(Chain(table, start)) = n
           /\ ChainLength(table, start) = n
<1>. DEFINE blocks == {p[i] : i \in 1 .. n}
<1>0. n \in Nat \ {0} /\ p \in [1 .. n -> DataBlocks] /\ 1 \in 1 .. n /\ n \in 1 .. n
  BY DEF Follows
<1>1. Chain(table, start) \subseteq blocks
  <2>1. start \in blocks /\ blocks \in SUBSET DataBlocks
    BY <1>0 DEF Follows
  <2>2. Closed(table, blocks)
    <3>1. SUFFICES ASSUME NEW i \in 1 .. n, table[p[i]] \in DataBlocks PROVE table[p[i]] \in blocks
      BY DEF Closed
    <3>2. i # n
      BY <3>1, BlockAssumption DEF Follows, DataBlocks, RootBlock, FINAL
    <3>3. i \in 1 .. n - 1 /\ i + 1 \in 1 .. n
      BY <1>0, <3>2
    <3>. QED BY <3>3 DEF Follows
  <2>. HIDE DEF blocks
  <2>. QED BY <2>1, <2>2 DEF Chain
<1>2. ASSUME NEW i \in 1 .. n PROVE p[i] \in Chain(table, start)
  <2>1. SUFFICES ASSUME NEW S \in SUBSET DataBlocks, start \in S, Closed(table, S) PROVE p[i] \in S
    BY <1>0 DEF Chain
  <2>. DEFINE T == {k \in Nat : k + 1 \in 1 .. n => p[k + 1] \in S}
  <2>2. 0 \in T
    BY <2>1 DEF Follows
  <2>3. ASSUME NEW k \in Nat, k \in T PROVE k + 1 \in T
    <3>1. SUFFICES ASSUME k + 2 \in 1 .. n PROVE p[k + 2] \in S
      OBVIOUS
    <3>2. k + 1 \in 1 .. n - 1 /\ k + 1 \in 1 .. n /\ (k + 1) + 1 = k + 2
      BY <1>0, <3>1
    <3>3. p[k + 1] \in S /\ table[p[k + 1]] = p[k + 2]
      BY <2>3, <3>2 DEF Follows
    <3>4. p[k + 2] \in DataBlocks
      BY <1>0, <3>1
    <3>. QED BY <2>1, <3>3, <3>4 DEF Closed
  <2>4. Nat \subseteq T
    <3>. HIDE DEF T
    <3>. QED BY <2>2, <2>3, SetInduction
  <2>5. i - 1 \in Nat /\ i - 1 \in T
    BY <2>4
  <2>. QED BY <2>5
<1>3. Chain(table, start) = blocks
  BY <1>1, <1>2
<1>4. Cardinality(blocks) = n
  <2>1. p \in Bijection(1 .. n, blocks)
    BY <1>0, Fun_IsBij DEF Follows
  <2>2. IsFiniteSet(1 .. n) /\ Cardinality(1 .. n) = n
    BY <1>0, FS_Interval
  <2>. QED BY <2>1, <2>2, FS_Bijection DEF ExistsBijection
<1>5. table[start] # FREE
  <2>1. CASE n = 1
    BY <2>1 DEF Follows, FREE, FINAL
  <2>2. CASE n # 1
    <3>1. 1 \in 1 .. n - 1 /\ 1 + 1 \in 1 .. n
      BY <1>0, <2>2
    <3>2. table[start] = p[1 + 1] /\ p[1 + 1] \in DataBlocks
      BY <1>0, <3>1 DEF Follows
    <3>. QED BY <3>2, BlockAssumption DEF DataBlocks, RootBlock, FREE
  <2>. QED BY <2>1, <2>2
<1>. QED BY <1>3, <1>4, <1>5 DEF ChainLength

\* The block a number of hops away: the chain's, and the mark at its end for ever after.
LEMMA FollowedHop ==
    ASSUME NEW table \in [Blocks -> Links], NEW start, NEW p, NEW n,
           Follows(table, start, p, n), NEW i \in Nat
    PROVE  Hop(table, start, i) = IF i < n THEN p[i + 1] ELSE FINAL
<1>0. n \in Nat \ {0} /\ p \in [1 .. n -> DataBlocks] /\ start \in Links /\ start = p[1]
  BY DEF Follows, Links
<1>1. PICK h \in [0 .. i -> Links] : Walks(h, table, start, i) /\ Hop(table, start, i) = h[i]
  BY <1>0, HopWalk
<1>. DEFINE S == {k \in Nat : k \in 0 .. i => h[k] = IF k < n THEN p[k + 1] ELSE FINAL}
<1>2. 0 \in S
  BY <1>0, <1>1 DEF Walks
<1>3. ASSUME NEW k \in Nat, k \in S PROVE k + 1 \in S
  <2>1. SUFFICES ASSUME k + 1 \in 0 .. i PROVE h[k + 1] = IF k + 1 < n THEN p[(k + 1) + 1] ELSE FINAL
    OBVIOUS
  <2>2. k + 1 \in 1 .. i /\ k \in 0 .. i /\ (k + 1) - 1 = k
    BY <2>1
  <2>3. h[k + 1] = IF h[k] \in Blocks THEN table[h[k]] ELSE h[k]
    BY <1>1, <2>2 DEF Walks
  <2>4. h[k] = IF k < n THEN p[k + 1] ELSE FINAL
    BY <1>3, <2>2
  <2>5. FINAL \notin Blocks /\ DataBlocks \subseteq Blocks
    BY BlockAssumption DEF FINAL, Blocks, DataBlocks, RootBlock
  <2>6. CASE k < n
    <3>1. k + 1 \in 1 .. n /\ p[k + 1] \in DataBlocks
      BY <1>0, <2>6
    <3>2. h[k + 1] = table[p[k + 1]]
      BY <2>3, <2>4, <2>5, <2>6, <3>1
    <3>3. CASE k + 1 < n
      <4>1. k + 1 \in 1 .. n - 1
        BY <1>0, <3>3
      <4>. QED BY <3>2, <3>3, <4>1 DEF Follows
    <3>4. CASE ~(k + 1 < n)
      <4>1. k + 1 = n
        BY <1>0, <2>6, <3>4
      <4>. QED BY <3>2, <3>4, <4>1 DEF Follows
    <3>. QED BY <3>3, <3>4
  <2>7. CASE ~(k < n)
    <3>1. ~(k + 1 < n)
      BY <1>0, <2>7
    <3>. QED BY <2>3, <2>4, <2>5, <2>7, <3>1
  <2>. QED BY <2>6, <2>7
<1>4. Nat \subseteq S
  <2>. HIDE DEF S
  <2>. QED BY <1>2, <1>3, SetInduction
<1>5. i \in S
  BY <1>4
<1>. QED BY <1>1, <1>5

\* A table that agrees on the blocks of a chain has the same chain.
LEMMA FollowsElsewhere ==
    ASSUME NEW table, NEW other, NEW start, NEW p, NEW n, Follows(table, start, p, n),
           \A b \in Chain(table, start) : other[b] = table[b]
    PROVE  Follows(other, start, p, n) /\ Chain(other, start) = Chain(table, start)
<1>0. Chain(table, start) = {p[i] : i \in 1 .. n}
  BY FollowedChain
<1>1. n \in Nat \ {0} /\ \A i \in 1 .. n : other[p[i]] = table[p[i]]
  BY <1>0 DEF Follows
<1>2. n \in 1 .. n /\ \A i \in 1 .. n - 1 : i \in 1 .. n
  BY <1>1
<1>3. Follows(other, start, p, n)
  BY <1>1, <1>2 DEF Follows
<1>. QED BY <1>3, FollowedChain

\* No block of a chain is free.
LEMMA FollowedTaken ==
    ASSUME NEW table, NEW start, NEW p, NEW n, Follows(table, start, p, n)
    PROVE  \A b \in Chain(table, start) : b \in DataBlocks /\ table[b] # FREE
                                          /\ (table[b] = FINAL \/ table[b] \in Chain(table, start))
<1>1. SUFFICES ASSUME NEW i \in 1 .. n
               PROVE  /\ p[i] \in DataBlocks /\ table[p[i]] # FREE
                      /\ table[p[i]] = FINAL \/ table[p[i]] \in Chain(table, start)
  BY FollowedChain
<1>2. n \in Nat /\ p[i] \in DataBlocks
  BY DEF Follows
<1>3. CASE i = n
  BY <1>2, <1>3 DEF Follows, FREE, FINAL
<1>4. CASE i # n
  <2>1. i \in 1 .. n - 1 /\ i + 1 \in 1 .. n
    BY <1>2, <1>4
  <2>2. table[p[i]] = p[i + 1] /\ p[i + 1] \in DataBlocks
    BY <2>1 DEF Follows
  <2>. QED BY <1>2, <2>1, <2>2, FollowedChain, BlockAssumption DEF DataBlocks, RootBlock, FREE
<1>. QED BY <1>3, <1>4

-----------------------------------------------------------------------------
(* Who owns a block.                                                       *)

\* An entry whose blocks can be followed to the end; a directory's are no more than
\* its length needs.
Chained(table, entry) ==
    \E p, n :
        /\ Follows(table, entry.start, p, n)
        /\ entry.type = "dir" /\ entry.length > 0 => n <= BlocksFor(entry.length)

\* The blocks of an entry: an empty one keeps one.
Needs(entry) == IF entry.length = 0 THEN 1 ELSE BlocksFor(entry.length)

Exact(table, entry) == \E p : Follows(table, entry.start, p, Needs(entry))

\* The entries that own blocks, wherever on the partition they lie and whether or not a
\* path leads to them: a directory that is cut short and grows again brings back old ones.
Holders(d) ==
    {o \in Offsets : o = RootOffset \/ (d[o].start # FREE /\ d[o].name \notin {Dot, DotDot})}

\* Every owner has a chain, and no two share a block.
OwnChains(table, d) ==
    /\ \A o \in Holders(d) : Chained(table, d[o])
    /\ \A o, p \in Holders(d) : o # p => Chain(table, d[o].start) \cap Chain(table, d[p].start) = {}

\* The cached root is the one on disk, and is the root.
RootKept(d, cached) ==
    cached = d[RootOffset] /\ cached.name = Dot /\ cached.start = RootBlock /\ cached.type = "dir"

Marked(table) == \A b \in 0 .. FatBlocks : table[b] = UNUSABLE

\* A partition in order, and the driver's picture of it.
Keeps(table, d, cached) ==
    /\ Table(table) /\ Marked(table)
    /\ d \in [Offsets -> Entry]
    /\ RootKept(d, cached)
    /\ OwnChains(table, d)

LEMMA ExactIsChained ==
    ASSUME NEW table, NEW entry \in Entry, Exact(table, entry) PROVE Chained(table, entry)
<1>1. entry.length \in Nat /\ BlocksFor(entry.length) \in Nat
  <2>1. \A m, e \in Nat : e >= 2 => (m + e - 1) \div e \in Nat
    BY Z3
  <2>. QED BY <2>1, NamespaceAssumption DEF BlocksFor, Entry
<1>2. entry.length > 0 => Needs(entry) <= BlocksFor(entry.length)
  BY <1>1 DEF Needs
<1>. QED BY <1>2 DEF Exact, Chained

LEMMA HolderChain ==
    ASSUME NEW table, NEW entry, Chained(table, entry)
    PROVE  /\ entry.start \in Chain(table, entry.start)
           /\ \A b \in Chain(table, entry.start) : b \in DataBlocks /\ table[b] # FREE
                  /\ (table[b] = FINAL \/ table[b] \in Chain(table, entry.start))
<1>1. PICK p, n : Follows(table, entry.start, p, n)
  BY DEF Chained
<1>2. 1 \in 1 .. n /\ p[1] = entry.start
  BY <1>1 DEF Follows
<1>. QED BY <1>1, <1>2, FollowedChain, FollowedTaken

LEMMA ChainedElsewhere ==
    ASSUME NEW table, NEW entry, Chained(table, entry), NEW other,
           \A b \in Chain(table, entry.start) : other[b] = table[b]
    PROVE  Chained(other, entry) /\ Chain(other, entry.start) = Chain(table, entry.start)
<1>1. PICK p, n :
          /\ Follows(table, entry.start, p, n)
          /\ entry.type = "dir" /\ entry.length > 0 => n <= BlocksFor(entry.length)
  BY DEF Chained
<1>2. Follows(other, entry.start, p, n) /\ Chain(other, entry.start) = Chain(table, entry.start)
  BY <1>1, FollowsElsewhere
<1>. QED BY <1>1, <1>2 DEF Chained

\* An entry with one block, for which nothing links anywhere.
LEMMA SingleChain ==
    ASSUME NEW table, NEW entry \in Entry, entry.start \in DataBlocks, table[entry.start] = FINAL
    PROVE  Chained(table, entry) /\ Chain(table, entry.start) = {entry.start}
<1>. DEFINE p == [i \in 1 .. 1 |-> entry.start]
<1>1. Follows(table, entry.start, p, 1)
  BY DEF Follows
<1>2. entry.length > 0 => 1 <= BlocksFor(entry.length)
  <2>1. entry.length \in Nat
    BY DEF Entry
  <2>. QED BY <2>1, NamespaceAssumption DEF BlocksFor
<1>3. 1 \in Nat /\ p \in [1 .. 1 -> DataBlocks] /\ {p[i] : i \in 1 .. 1} = {entry.start}
  OBVIOUS
<1>. HIDE DEF p
<1>4. Chained(table, entry)
  BY <1>1, <1>2, <1>3 DEF Chained
<1>. QED BY <1>1, <1>3, <1>4, FollowedChain

LEMMA SingleExact ==
    ASSUME NEW table, NEW entry \in Entry, entry.start \in DataBlocks, table[entry.start] = FINAL,
           Needs(entry) = 1
    PROVE  Exact(table, entry)
<1>. DEFINE p == [i \in 1 .. 1 |-> entry.start]
<1>1. Follows(table, entry.start, p, 1)
  BY DEF Follows
<1>. HIDE DEF p
<1>. QED BY <1>1 DEF Exact

\* At most one owner changes, and the table at most where the others have no block.
OnlyChanges(o, t, d, t2, d2) ==
    /\ \A x \in Holders(d2) : x # o => x \in Holders(d) /\ d2[x] = d[x]
    /\ \A x \in Holders(d2) : x # o => \A b \in Chain(t, d[x].start) : t2[b] = t[b]
    /\ o \in Holders(d2) =>
          /\ Chained(t2, d2[o])
          /\ \A x \in Holders(d2) : x # o => Chain(t2, d2[o].start) \cap Chain(t, d[x].start) = {}

LEMMA Update ==
    ASSUME NEW t, NEW d, NEW cached, Keeps(t, d, cached),
           NEW t2, Table(t2), Marked(t2), NEW d2 \in [Offsets -> Entry], NEW cached2,
           RootKept(d2, cached2), NEW o, OnlyChanges(o, t, d, t2, d2)
    PROVE  Keeps(t2, d2, cached2)
<1>. USE DEF OnlyChanges
<1>1. ASSUME NEW x \in Holders(d2), x # o
      PROVE  Chained(t2, d2[x]) /\ Chain(t2, d2[x].start) = Chain(t, d[x].start)
  <2>1. Chained(t, d[x]) /\ d2[x] = d[x] /\ \A b \in Chain(t, d[x].start) : t2[b] = t[b]
    BY <1>1 DEF Keeps, OwnChains
  <2>. QED BY <2>1, ChainedElsewhere
<1>2. \A x \in Holders(d2) : Chained(t2, d2[x])
  BY <1>1
<1>3. ASSUME NEW x \in Holders(d2), NEW y \in Holders(d2), x # y
      PROVE  Chain(t2, d2[x].start) \cap Chain(t2, d2[y].start) = {}
  <2>1. CASE x = o
    BY <1>1, <1>3, <2>1
  <2>2. CASE y = o
    BY <1>1, <1>3, <2>2
  <2>3. CASE x # o /\ y # o
    <3>1. Chain(t, d[x].start) \cap Chain(t, d[y].start) = {}
      BY <1>3, <2>3 DEF Keeps, OwnChains
    <3>. QED BY <1>1, <2>3, <3>1
  <2>. QED BY <2>1, <2>2, <2>3
<1>. QED BY <1>2, <1>3 DEF Keeps, OwnChains

LEMMA RootHolds == RootOffset \in Offsets /\ \A d : RootOffset \in Holders(d)
BY RootInRange DEF Holders

LEMMA HoldersInRange == \A d : Holders(d) \subseteq Offsets
BY DEF Holders

\* No other owner starts at the root's block.
LEMMA RootIsAlone ==
    ASSUME NEW t, NEW d, NEW cached, Keeps(t, d, cached), NEW o \in Holders(d), o # RootOffset
    PROVE  d[o].start # RootBlock
<1>1. Chained(t, d[o]) /\ Chained(t, d[RootOffset]) /\ d[RootOffset].start = RootBlock
  BY RootHolds DEF Keeps, OwnChains, RootKept
<1>2. Chain(t, d[o].start) \cap Chain(t, d[RootOffset].start) = {}
  BY RootHolds DEF Keeps, OwnChains
<1>3. d[o].start \in Chain(t, d[o].start) /\ d[RootOffset].start \in Chain(t, d[RootOffset].start)
  BY <1>1, HolderChain
<1>. QED BY <1>1, <1>2, <1>3

\* Only free blocks change in the table.
LEMMA Retable ==
    ASSUME NEW t, NEW d, NEW cached, Keeps(t, d, cached), NEW t2, Table(t2), Marked(t2),
           \A b \in DataBlocks : t[b] # FREE => t2[b] = t[b]
    PROVE  Keeps(t2, d, cached)
<1>1. ASSUME NEW x \in Holders(d), NEW b \in Chain(t, d[x].start) PROVE t2[b] = t[b]
  BY <1>1, HolderChain DEF Keeps, OwnChains
<1>2. RootKept(d, cached) /\ d \in [Offsets -> Entry]
  BY DEF Keeps
<1>3. RootOffset \in Holders(d)
  BY RootHolds
<1>4. \A x \in Holders(d) : Chained(t2, d[x]) /\ Chain(t2, d[x].start) = Chain(t, d[x].start)
  BY <1>1, ChainedElsewhere DEF Keeps, OwnChains
<1>. QED BY <1>2, <1>4 DEF Keeps, OwnChains

\* Entries are lost, or overwritten by ones that own nothing.
LEMMA Lose ==
    ASSUME NEW t, NEW d, NEW cached, Keeps(t, d, cached), NEW d2 \in [Offsets -> Entry],
           d2[RootOffset] = d[RootOffset],
           \A x \in Offsets : \/ d2[x] = d[x]
                              \/ d2[x].start = FREE \/ d2[x].name \in {Dot, DotDot}
    PROVE  Keeps(t, d2, cached)
<1>1. \A x \in Holders(d2) : x \in Holders(d) /\ d2[x] = d[x]
  BY DEF Holders
<1>2. RootKept(d2, cached) /\ Table(t) /\ Marked(t)
  BY DEF Keeps, RootKept
<1>. QED BY <1>1, <1>2 DEF Keeps, OwnChains

LEMMA Drop ==
    ASSUME NEW t, NEW d, NEW cached, Keeps(t, d, cached), NEW o, o # RootOffset,
           NEW entry \in Entry, entry.start = FREE \/ entry.name \in {Dot, DotDot}
    PROVE  Keeps(t, [d EXCEPT ![o] = entry], cached)
<1>1. d \in [Offsets -> Entry]
  BY DEF Keeps
<1>2. [d EXCEPT ![o] = entry] \in [Offsets -> Entry]
  BY <1>1
<1>3. [d EXCEPT ![o] = entry][RootOffset] = d[RootOffset]
  BY <1>1, RootHolds
<1>4. \A x \in Offsets : [d EXCEPT ![o] = entry][x] = d[x] \/ [d EXCEPT ![o] = entry][x] = entry
  BY <1>1
<1>. QED BY <1>2, <1>3, <1>4, Lose

\* A new entry with a block no owner has.
LEMMA Place ==
    ASSUME NEW t, NEW d, NEW cached, Keeps(t, d, cached), NEW o, o # RootOffset,
           NEW entry \in Entry, entry.start \in DataBlocks, t[entry.start] = FINAL,
           \A x \in Holders(d) : entry.start \notin Chain(t, d[x].start)
    PROVE  Keeps(t, [d EXCEPT ![o] = entry], cached)
<1>. DEFINE d2 == [d EXCEPT ![o] = entry]
<1>1. d \in [Offsets -> Entry] /\ Table(t) /\ Marked(t) /\ RootKept(d, cached)
  BY DEF Keeps
<1>2. d2 \in [Offsets -> Entry]
  BY <1>1
<1>3. d2[RootOffset] = d[RootOffset]
  BY <1>1, RootHolds
<1>4. \A x \in Offsets : x # o => d2[x] = d[x]
  BY <1>1
<1>5. o \in Offsets => d2[o] = entry
  BY <1>1
<1>. HIDE DEF d2
<1>6. RootKept(d2, cached)
  BY <1>1, <1>3 DEF RootKept
<1>7. \A x \in Holders(d2) : x # o => x \in Holders(d) /\ d2[x] = d[x]
  BY <1>4 DEF Holders
<1>8. Chained(t, entry) /\ Chain(t, entry.start) = {entry.start}
  BY SingleChain
<1>9. o \in Holders(d2) => d2[o] = entry
  BY <1>5 DEF Holders
<1>10. OnlyChanges(o, t, d, t, d2)
  BY <1>7, <1>8, <1>9 DEF OnlyChanges
<1>11. Keeps(t, d2, cached)
  BY <1>1, <1>2, <1>6, <1>10, Update
<1>. QED BY <1>11 DEF d2

\* The entry of one owner is saved with another length: its chain may lose blocks, or
\* gain free ones, and other entries may be lost.
LEMMA Resave ==
    ASSUME NEW t, NEW d, NEW cached, Keeps(t, d, cached), NEW o \in Holders(d),
           NEW t2, Table(t2), Marked(t2),
           \A b \in DataBlocks : t[b] # FREE /\ b \notin Chain(t, d[o].start) => t2[b] = t[b],
           NEW d1 \in [Offsets -> Entry], d1[RootOffset] = d[RootOffset],
           \A x \in Offsets : d1[x] = d[x] \/ d1[x] = Nothing,
           NEW entry \in Entry, entry.name = d[o].name, entry.type = d[o].type,
           entry.start = d[o].start, Chained(t2, entry),
           \A b \in Chain(t2, entry.start) : b \in Chain(t, d[o].start) \/ t[b] = FREE
    PROVE  Keeps(t2, WriteEntry(d1, o, entry), CacheEntry(cached, entry))
<1>. DEFINE d2 == WriteEntry(d1, o, entry)
            cached2 == CacheEntry(cached, entry)
<1>1. d \in [Offsets -> Entry] /\ RootKept(d, cached) /\ o \in Offsets
  BY DEF Keeps, Holders
<1>2. d2 \in [Offsets -> Entry]
  BY WriteEntryType
<1>3. d2[o] = entry
  <2>1. o # o + 1
    BY <1>1 DEF Offsets
  <2>. QED BY <1>1, <2>1 DEF WriteEntry
<1>4. \A x \in Offsets : x # o => \/ d2[x] = d1[x]
                                  \/ d2[x].name = DotDot
  BY <1>1, EntryType DEF WriteEntry, Entry
<1>5. o # RootOffset => d2[RootOffset] = d1[RootOffset]
  BY <1>1, RootHolds DEF WriteEntry
<1>. HIDE DEF d2
<1>6. RootKept(d2, cached2)
  <2>1. CASE o = RootOffset
    <3>1. cached2 = [cached EXCEPT !.length = entry.length] /\ cached = d[o]
      BY <1>1, <2>1 DEF CacheEntry, RootKept
    <3>2. cached \in Entry
      BY <1>1, <3>1
    <3>3. cached2 = entry
      BY <3>1, <3>2 DEF Entry
    <3>. QED BY <1>1, <1>3, <2>1, <3>3 DEF RootKept
  <2>2. CASE o # RootOffset
    <3>1. entry.start # RootBlock
      BY <2>2, RootIsAlone
    <3>. QED BY <1>1, <1>5, <2>2, <3>1 DEF CacheEntry, RootKept
  <2>. QED BY <2>1, <2>2
<1>7. \A x \in Holders(d2) : x # o => x \in Holders(d) /\ d2[x] = d[x]
  <2>1. SUFFICES ASSUME NEW x \in Holders(d2), x # o PROVE x \in Holders(d) /\ d2[x] = d[x]
    OBVIOUS
  <2>2. x \in Offsets
    BY <2>1 DEF Holders
  <2>3. CASE x = RootOffset
    BY <1>5, <2>1, <2>3, RootHolds
  <2>4. CASE x # RootOffset
    <3>1. d2[x].name \notin {Dot, DotDot} /\ d2[x].start # FREE
      BY <2>1, <2>4 DEF Holders
    <3>2. d2[x] = d1[x]
      BY <1>4, <2>1, <2>2, <3>1
    <3>3. d1[x] = d[x]
      BY <2>2, <3>1, <3>2 DEF Nothing
    <3>. QED BY <2>2, <3>1, <3>2, <3>3 DEF Holders
  <2>. QED BY <2>3, <2>4
<1>8. ASSUME NEW x \in Holders(d), x # o, NEW b \in Chain(t, d[x].start)
      PROVE  /\ t2[b] = t[b]
             /\ b \notin Chain(t2, entry.start)
  <2>1. b \in DataBlocks /\ t[b] # FREE
    BY HolderChain DEF Keeps, OwnChains
  <2>2. b \notin Chain(t, d[o].start)
    BY <1>8 DEF Keeps, OwnChains
  <2>. QED BY <2>1, <2>2
<1>9. Keeps(t2, d2, cached2)
  <2>1. Chained(t2, d2[o])
    BY <1>3
  <2>2. \A x \in Holders(d2) : x # o => \A b \in Chain(t, d[x].start) : t2[b] = t[b]
    BY <1>7, <1>8
  <2>3. \A x \in Holders(d2) : x # o => Chain(t2, d2[o].start) \cap Chain(t, d[x].start) = {}
    BY <1>3, <1>7, <1>8
  <2>4. OnlyChanges(o, t, d, t2, d2)
    BY <1>7, <2>1, <2>2, <2>3 DEF OnlyChanges
  <2>. HIDE DEF cached2
  <2>. QED BY <1>2, <1>6, <2>4, Update
<1>. QED BY <1>9 DEF d2

\* Saved in the same table: with the same length, or with room in its chain.
LEMMA Rewrite ==
    ASSUME NEW t, NEW d, NEW cached, Keeps(t, d, cached), NEW o \in Holders(d),
           NEW entry \in Entry, entry.name = d[o].name, entry.type = d[o].type,
           entry.start = d[o].start, Chained(t, entry)
    PROVE  Keeps(t, WriteEntry(d, o, entry), CacheEntry(cached, entry))
<1>1. Table(t) /\ Marked(t) /\ d \in [Offsets -> Entry]
  BY DEF Keeps
<1>. QED BY <1>1, Resave

LEMMA BlocksForMore ==
    ASSUME NEW length \in Nat, NEW more \in Nat, length <= more
    PROVE  /\ BlocksFor(length) \in Nat /\ BlocksFor(more) \in Nat
           /\ BlocksFor(length) <= BlocksFor(more)
<1>. DEFINE e == EntriesPerBlock
            x == length + e - 1
            y == more + e - 1
<1>1. e \in Nat /\ e > 0 /\ x \in Nat /\ y \in Nat /\ x <= y
  BY NamespaceAssumption
<1>. HIDE DEF e, x, y
<1>2. x \div e \in Nat /\ y \div e \in Nat /\ x \div e <= y \div e
  BY <1>1, Z3
<1>. QED BY <1>2 DEF BlocksFor, e, x, y

\* A directory that has entries can have one more.
LEMMA RoomForOneMore ==
    ASSUME NEW t, NEW dir \in Entry, dir.length > 0, Chained(t, dir)
    PROVE  Chained(t, [dir EXCEPT !.length = @ + 1])
<1>. DEFINE more == [dir EXCEPT !.length = @ + 1]
<1>1. more.start = dir.start /\ more.type = dir.type /\ more.length = dir.length + 1 /\ dir.length \in Nat
  BY DEF Entry
<1>2. PICK p, n : /\ Follows(t, dir.start, p, n)
                  /\ dir.type = "dir" /\ dir.length > 0 => n <= BlocksFor(dir.length)
  BY DEF Chained
<1>3. n \in Nat
  BY <1>2 DEF Follows
<1>4. /\ BlocksFor(dir.length) <= BlocksFor(dir.length + 1)
      /\ BlocksFor(dir.length) \in Nat /\ BlocksFor(dir.length + 1) \in Nat
  BY <1>1, BlocksForMore
<1>5. n <= BlocksFor(dir.length) => n <= BlocksFor(dir.length + 1)
  BY <1>3, <1>4
<1>. HIDE DEF more
<1>. QED BY <1>1, <1>2, <1>5 DEF Chained

\* forget, for an owner whose entry then owns nothing.
LEMMA Remove ==
    ASSUME NEW t, NEW d, NEW cached, Keeps(t, d, cached), NEW o \in Holders(d), o # RootOffset,
           NEW entry \in Entry, entry.start = FREE
    PROVE  Keeps(Forget(t, d[o].start), [d EXCEPT ![o] = entry], cached)
<1>. DEFINE d2 == [d EXCEPT ![o] = entry]
            t2 == Forget(t, d[o].start)
<1>1. d \in [Offsets -> Entry] /\ Table(t) /\ Marked(t) /\ RootKept(d, cached) /\ o \in Offsets
  BY DEF Keeps, Holders
<1>2. d2 \in [Offsets -> Entry] /\ d2[o] = entry
  BY <1>1
<1>3. \A x \in Offsets : x # o => d2[x] = d[x]
  BY <1>1
<1>4. Table(t2)
  BY <1>1, ForgetType
<1>5. \A b \in Blocks : b \notin Chain(t, d[o].start) => t2[b] = t[b]
  BY DEF Forget
<1>. HIDE DEF t2, d2
<1>6. Marked(t2)
  <2>1. \A b \in 0 .. FatBlocks : b \in Blocks /\ b \notin DataBlocks
    BY BlockAssumption DEF Blocks, DataBlocks, RootBlock
  <2>. QED BY <1>1, <1>5, <2>1, ChainType DEF Marked
<1>7. RootKept(d2, cached)
  BY <1>1, <1>3, RootHolds DEF RootKept
<1>8. \A x \in Holders(d2) : x # o => x \in Holders(d) /\ d2[x] = d[x]
  BY <1>3 DEF Holders
<1>9. o \notin Holders(d2)
  BY <1>2 DEF Holders
<1>10. ASSUME NEW x \in Holders(d), x # o, NEW b \in Chain(t, d[x].start)
       PROVE  t2[b] = t[b]
  <2>1. b \in DataBlocks /\ b \notin Chain(t, d[o].start)
    BY <1>10, ChainType DEF Keeps, OwnChains
  <2>2. b \in Blocks
    BY <2>1, BlockAssumption DEF Blocks, DataBlocks, RootBlock
  <2>. QED BY <1>5, <2>1, <2>2
<1>11. \A x \in Holders(d2) : x # o => \A b \in Chain(t, d[x].start) : t2[b] = t[b]
  BY <1>8, <1>10
<1>12. OnlyChanges(o, t, d, t2, d2)
  BY <1>8, <1>9, <1>11 DEF OnlyChanges
<1>13. Keeps(t2, d2, cached)
  BY <1>2, <1>4, <1>6, <1>7, <1>12, Update
<1>. QED BY <1>13 DEF t2, d2

\* The writes of rename, for an entry whose blocks no other owner has.
LEMMA Move ==
    ASSUME NEW t, NEW d, NEW cached, Keeps(t, d, cached),
           NEW from, from # RootOffset, NEW to, to # RootOffset,
           NEW entry \in Entry, NEW name \in Names \union {NoName},
           from # to => /\ Chained(t, entry)
                        /\ \A x \in Holders(d) :
                              x # from => Chain(t, entry.start) \cap Chain(t, d[x].start) = {}
    PROVE  Keeps(t, Moved(d, entry, from, to, name), cached)
<1>. DEFINE d1 == [d EXCEPT ![from] = Nothing]
            renamed == [entry EXCEPT !.name = name]
            d2 == Moved(d, entry, from, to, name)
<1>1. d \in [Offsets -> Entry] /\ Nothing \in Entry
  BY EntryType DEF Keeps
<1>2. Keeps(t, d1, cached)
  BY <1>1, Drop DEF Nothing
<1>3. renamed \in Entry /\ renamed.start = entry.start /\ renamed.type = entry.type
      /\ renamed.length = entry.length
  BY DEF Entry
<1>4. d1 \in [Offsets -> Entry]
  BY <1>1
<1>5. \A x \in Offsets : x # from => d1[x] = d[x]
  BY <1>1
<1>6. from \in Offsets => d1[from] = Nothing
  BY <1>1
<1>7. CASE from = to
  <2>1. d2 = d1
    BY <1>1, <1>7 DEF Moved
  <2>. QED BY <1>2, <2>1
<1>8. CASE from # to
  <2>1. d2 = [d1 EXCEPT ![to] = renamed]
    BY <1>1, <1>8 DEF Moved
  <2>. HIDE DEF d1, renamed, d2
  <2>2. d2 \in [Offsets -> Entry]
    BY <1>3, <1>4, <2>1
  <2>3. \A x \in Offsets : x # to => d2[x] = d1[x]
    BY <1>4, <2>1
  <2>4. to \in Offsets => d2[to] = renamed
    BY <1>4, <2>1
  <2>5. RootKept(d2, cached)
    BY <1>2, <2>3, RootHolds DEF Keeps, RootKept
  <2>6. \A x \in Holders(d2) : x # to => x \in Holders(d1) /\ d2[x] = d1[x]
    BY <2>3 DEF Holders
  <2>7. Chained(t, renamed)
    BY <1>3, <1>8 DEF Chained
  <2>8. ASSUME NEW x \in Holders(d1) PROVE x \in Holders(d) /\ d1[x] = d[x] /\ x # from
    <3>1. x # from
      BY <1>6 DEF Holders, Nothing
    <3>. QED BY <1>5, <3>1 DEF Holders
  <2>9. \A x \in Holders(d2) : x # to => Chain(t, renamed.start) \cap Chain(t, d1[x].start) = {}
    BY <1>3, <1>8, <2>6, <2>8
  <2>10. to \in Holders(d2) =>
             /\ Chained(t, d2[to])
             /\ \A x \in Holders(d2) : x # to => Chain(t, d2[to].start) \cap Chain(t, d1[x].start) = {}
    BY <2>4, <2>7, <2>9, HoldersInRange
  <2>11. Table(t) /\ Marked(t)
    BY <1>2 DEF Keeps
  <2>12. OnlyChanges(to, t, d1, t, d2)
    BY <2>6, <2>10 DEF OnlyChanges
  <2>. QED BY <1>2, <2>2, <2>5, <2>11, <2>12, Update DEF d2
<1>. QED BY <1>7, <1>8

-----------------------------------------------------------------------------
(* Finding an owner, and making a new one.                                 *)

LEMMA RootFound ==
    ASSUME Keeps(fat, disk, root)
    PROVE  /\ \A o \in Offsets : EntryAt(o) = disk[o]
           /\ fat[RootBlock] # FREE
<1>1. root = disk[RootOffset] /\ root.start = RootBlock
  BY DEF Keeps, RootKept
<1>2. Chained(fat, root)
  BY <1>1, RootHolds DEF Keeps, OwnChains
<1>. QED BY <1>1, <1>2, HolderChain DEF EntryAt

\* What find takes for a name owns its blocks, and is not the root.
LEMMA LocatedHolds ==
    ASSUME Keeps(fat, disk, root), NEW dir, NEW name \in Names, NEW o \in Located(dir, name)
    PROVE  o \in Holders(disk) /\ o # RootOffset
<1>1. PICK i \in 0 .. dir.length - 1 :
          /\ o = SlotOffset(fat, dir, i) /\ o \in Offsets
          /\ disk[SlotOffset(fat, dir, i)].name = name
          /\ ~IsFree(fat, disk[SlotOffset(fat, dir, i)])
  BY DEF Located, Least
<1>2. disk[o].name = name /\ disk[o].start # FREE
  BY <1>1 DEF IsFree
<1>3. name \notin {Dot, DotDot} /\ disk[RootOffset].name = Dot
  BY NamespaceAssumption DEF Keeps, RootKept
<1>. QED BY <1>1, <1>2, <1>3 DEF Holders

LEMMA ResolvedHolds ==
    ASSUME Keeps(fat, disk, root), NEW path \in Seq(Names), NEW o \in Resolve(path)
    PROVE  /\ o \in Holders(disk) /\ o \in Offsets
           /\ EntryAt(o) = disk[o]
           /\ path # <<>> => o # RootOffset
<1>1. CASE path = <<>>
  <2>1. o = RootOffset
    BY <1>1 DEF Resolve
  <2>. QED BY <1>1, <2>1, RootFound, RootHolds
<1>2. CASE path # <<>>
  <2>1. path[Len(path)] \in Names
    BY <1>2
  <2>2. \E dir : o \in Located(dir, path[Len(path)])
    BY <1>2 DEF Resolve
  <2>. QED BY <1>2, <2>1, <2>2, LocatedHolds, RootFound, HoldersInRange
<1>. QED BY <1>1, <1>2

\* A table that differs from the one on disk in blocks that were free there.
Grows(table) ==
    /\ Table(table) /\ Marked(table)
    /\ \A b \in DataBlocks : fat[b] # FREE => table[b] = fat[b]

\* A block taken for a new entry.
Fresh(table, b) == b \in DataBlocks /\ fat[b] = FREE /\ table[b] = FINAL

\* What a call that makes an entry may leave behind: a partition in order, on which all
\* chains are as they were, and a cached root that the ".." of a new directory repeats.
\* Without a block for it, the new entry is no new owner.
Kept(made, noalloc) ==
    /\ Keeps(made.fat, made.disk, made.root)
    /\ Grows(made.fat)
    /\ made.ret = "OK" =>
          /\ made.offset # RootOffset
          /\ CacheEntry(made.root, [made.parent EXCEPT !.name = DotDot]) = made.root
          /\ ~noalloc => Fresh(made.fat, made.new.start)
          /\ noalloc => \A x \in Holders(made.disk) :
                            x \in Holders(disk) /\ made.disk[x].start = disk[x].start

LEMMA GrownChains ==
    ASSUME Keeps(fat, disk, root), NEW table, Grows(table)
    PROVE  /\ Keeps(table, disk, root)
           /\ \A x \in Holders(disk) : /\ Chained(table, disk[x])
                                       /\ Chain(table, disk[x].start) = Chain(fat, disk[x].start)
                                       /\ \A b \in Chain(fat, disk[x].start) : fat[b] # FREE
<1>1. Keeps(table, disk, root)
  BY Retable DEF Grows
<1>2. ASSUME NEW x \in Holders(disk)
      PROVE  /\ Chained(table, disk[x])
             /\ Chain(table, disk[x].start) = Chain(fat, disk[x].start)
             /\ \A b \in Chain(fat, disk[x].start) : fat[b] # FREE
  <2>1. Chained(fat, disk[x])
    BY DEF Keeps, OwnChains
  <2>2. \A b \in Chain(fat, disk[x].start) : fat[b] # FREE /\ table[b] = fat[b]
    BY <2>1, HolderChain DEF Grows
  <2>. QED BY <2>1, <2>2, ChainedElsewhere
<1>. QED BY <1>1, <1>2

LEMMA FailureKept ==
    ASSUME Keeps(fat, disk, root), NEW table, Grows(table), NEW code, code # "OK",
           NEW noalloc \in BOOLEAN
    PROVE  Kept(Failure(code, table), noalloc)
BY GrownChains DEF Kept, Failure

\* The parent's entry, saved or not, is what the cached root follows.
LEMMA ParentCached ==
    ASSUME NEW t, NEW d, NEW cached, Keeps(t, d, cached), NEW dirOffset \in Holders(d)
    PROVE  CacheEntry(cached, [d[dirOffset] EXCEPT !.name = DotDot]) = cached
<1>. DEFINE parent == d[dirOffset]
            up == [parent EXCEPT !.name = DotDot]
<1>1. parent \in Entry /\ cached = d[RootOffset] /\ cached \in Entry
  BY HoldersInRange, RootHolds DEF Keeps, RootKept
<1>2. up.start = parent.start /\ up.length = parent.length
  BY <1>1 DEF Entry
<1>3. CASE dirOffset = RootOffset
  <2>1. up.length = cached.length
    BY <1>1, <1>2, <1>3
  <2>2. [cached EXCEPT !.length = cached.length] = cached
    BY <1>1 DEF Entry
  <2>. QED BY <2>1, <2>2 DEF CacheEntry
<1>4. CASE dirOffset # RootOffset
  <2>1. up.start # RootBlock
    BY <1>2, <1>4, RootIsAlone
  <2>. QED BY <2>1 DEF CacheEntry
<1>. QED BY <1>3, <1>4

LEMMA SuccessKept ==
    ASSUME Keeps(fat, disk, root), NEW table, Grows(table), NEW new \in Entry,
           NEW noalloc \in BOOLEAN,
           noalloc => new.start = FREE, ~noalloc => Fresh(table, new.start),
           NEW dirOffset \in Holders(disk), disk[dirOffset].length > 0,
           NEW offset, offset # RootOffset, NEW grown \in {0, 1}
    PROVE  Kept(Success(table, new, disk[dirOffset], dirOffset, offset, grown), noalloc)
<1>. DEFINE dir == disk[dirOffset]
            parent == [dir EXCEPT !.length = @ + grown]
            entered == WriteEntry(disk, offset, new)
            written == WriteEntry(entered, dirOffset, parent)
            outcome == Success(table, new, dir, dirOffset, offset, grown)
<1>1. Keeps(table, disk, root) /\ Chained(table, dir)
  BY GrownChains
<1>2. disk \in [Offsets -> Entry] /\ dir \in Entry /\ dirOffset \in Offsets /\ dir.length \in Nat
  BY HoldersInRange DEF Keeps, Entry
<1>3. new.start # RootBlock
  BY RootFound, BlockAssumption DEF Fresh, RootBlock, FREE
<1>4. entered = [disk EXCEPT ![offset] = new] /\ CacheEntry(root, new) = root
  BY <1>3 DEF WriteEntry, CacheEntry
<1>5. Keeps(table, entered, root)
  <2>. DEFINE put == [disk EXCEPT ![offset] = new]
  <2>. SUFFICES Keeps(table, put, root)
    BY <1>4
  <2>1. CASE noalloc
    BY <1>1, <2>1, Drop
  <2>2. CASE ~noalloc
    <3>1. \A x \in Holders(disk) : new.start \notin Chain(table, disk[x].start)
      BY <2>2, GrownChains DEF Fresh
    <3>. QED BY <1>1, <2>2, <3>1, Place DEF Fresh
  <2>. QED BY <2>1, <2>2
<1>6. /\ outcome.ret = "OK" /\ outcome.fat = table
      /\ outcome.disk = IF grown = 0 THEN entered ELSE written
      /\ outcome.root = IF grown = 0 THEN root ELSE CacheEntry(root, parent)
      /\ outcome.new = new /\ outcome.parent = parent /\ outcome.offset = offset
  BY <1>4 DEF Success
<1>7. \A x \in Offsets : x # offset => entered[x] = disk[x]
  BY <1>2, <1>4
<1>8. offset \in Offsets => entered[offset] = new
  BY <1>2, <1>4
<1>9. parent \in Entry /\ parent.name = dir.name /\ parent.type = dir.type /\ parent.start = dir.start
  BY <1>2 DEF Entry
<1>10. grown = 0 => parent = dir
  BY <1>2 DEF Entry
<1>11. grown = 1 => parent = [dir EXCEPT !.length = @ + 1]
  OBVIOUS
<1>12. grown = 1 => Chained(table, parent)
  <2>. HIDE DEF parent, dir
  <2>. QED BY <1>1, <1>2, <1>11, RoomForOneMore DEF dir
<1>. HIDE DEF entered, parent, outcome
<1>13. grown = 1 => Keeps(table, written, CacheEntry(root, parent))
  <2>1. CASE offset = dirOffset
    <3>1. written = WriteEntry(disk, dirOffset, parent)
      BY <1>2, <1>4, <2>1 DEF WriteEntry
    <3>. HIDE DEF written
    <3>. QED BY <1>1, <1>9, <1>12, <3>1, Rewrite
  <2>2. CASE offset # dirOffset
    <3>1. entered[dirOffset] = dir
      BY <1>2, <1>7, <2>2
    <3>2. dirOffset \in Holders(entered)
      BY <1>2, <3>1 DEF Holders
    <3>. QED BY <1>5, <1>9, <1>12, <3>1, <3>2, Rewrite
  <2>. QED BY <2>1, <2>2
<1>14. Keeps(outcome.fat, outcome.disk, outcome.root)
  BY <1>5, <1>6, <1>13
<1>15. CacheEntry(outcome.root, [parent EXCEPT !.name = DotDot]) = outcome.root
  <2>1. CASE grown = 0
    BY <1>6, <1>10, <2>1, ParentCached
  <2>2. CASE grown = 1
    <3>1. written[dirOffset] = parent
      <4>1. entered \in [Offsets -> Entry] /\ dirOffset # dirOffset + 1
        BY <1>2, <1>5 DEF Keeps, Offsets
      <4>. QED BY <1>2, <4>1 DEF WriteEntry
    <3>2. dirOffset \in Holders(written)
      BY <1>2, <1>9, <3>1 DEF Holders
    <3>. HIDE DEF written
    <3>. QED BY <1>6, <1>13, <2>2, <3>1, <3>2, ParentCached
  <2>. QED BY <2>1, <2>2
<1>16. ASSUME noalloc, NEW x \in Holders(outcome.disk)
       PROVE  x \in Holders(disk) /\ outcome.disk[x].start = disk[x].start
  <2>1. ASSUME NEW y \in Holders(entered) PROVE y \in Holders(disk) /\ entered[y] = disk[y]
    <3>1. y # offset
      BY <1>8, <1>16, <2>1 DEF Holders
    <3>. QED BY <1>7, <2>1, <3>1 DEF Holders
  <2>2. CASE grown = 0
    BY <1>6, <1>16, <2>1, <2>2
  <2>3. CASE grown = 1
    <3>1. entered \in [Offsets -> Entry] /\ x \in Offsets /\ dirOffset # dirOffset + 1
      BY <1>2, <1>5, <1>16 DEF Keeps, Offsets, Holders
    <3>2. \/ x = dirOffset /\ written[x] = parent
          \/ x # dirOffset /\ written[x] = entered[x]
          \/ x = RootOffset + 1 /\ written[x].name = DotDot
      BY <1>9, <3>1 DEF WriteEntry, Entry
    <3>3. RootOffset + 1 # RootOffset
      BY RootHolds DEF Offsets
    <3>4. x \in Holders(written)
      BY <1>6, <1>16, <2>3
    <3>. HIDE DEF written
    <3>5. CASE x = dirOffset /\ written[x] = parent
      BY <1>6, <1>9, <2>3, <3>5
    <3>6. CASE x # dirOffset /\ written[x] = entered[x]
      <4>1. x \in Holders(entered)
        BY <3>1, <3>4, <3>6 DEF Holders
      <4>. QED BY <1>6, <2>1, <2>3, <3>6, <4>1
    <3>7. CASE x = RootOffset + 1 /\ written[x].name = DotDot
      BY <3>3, <3>4, <3>7 DEF Holders
    <3>. QED BY <3>2, <3>5, <3>6, <3>7
  <2>. QED BY <2>2, <2>3
<1>17. Kept(outcome, noalloc)
  BY <1>6, <1>14, <1>15, <1>16 DEF Kept
<1>. QED BY <1>17 DEF outcome

LEMMA GrowFurther ==
    ASSUME NEW table, Grows(table), NEW b, NEW link \in Links,
           b \in DataBlocks => fat[b] = FREE, b \in DataBlocks \union {UNUSABLE}
    PROVE  Grows([table EXCEPT ![b] = link])
<1>1. Table([table EXCEPT ![b] = link])
  BY LinkType DEF Grows
<1>2. \A c \in 0 .. FatBlocks : c # b /\ c \in Blocks
  BY BlockAssumption DEF DataBlocks, RootBlock, UNUSABLE, Blocks
<1>3. \A c \in DataBlocks : c \in Blocks
  BY BlockAssumption DEF DataBlocks, RootBlock, Blocks
<1>4. table \in [Blocks -> Links]
  BY DEF Grows, Table
<1>. QED BY <1>1, <1>2, <1>3, <1>4 DEF Grows, Marked

\* No entry lies where the root's does but the root's.
LEMMA OffsetOfBlock ==
    ASSUME NEW b \in Int, b # RootBlock
    PROVE  b * EntriesPerBlock # RootOffset
<1>1. \A e \in Nat, k \in Int : e > 0 /\ b # k => b * e # k * e
  BY Z3
<1>. QED BY <1>1, BlockAssumption, NamespaceAssumption DEF RootOffset, RootBlock

LEMMA OffsetInside ==
    ASSUME NEW b \in Int, NEW r \in 1 .. EntriesPerBlock - 1
    PROVE  b * EntriesPerBlock + r # RootOffset
<1>1. \A e \in Nat, k \in Int : r < e => b * e + r # k * e
  BY Z3
<1>. QED BY <1>1, BlockAssumption, NamespaceAssumption DEF RootOffset, RootBlock

LEMMA ExpandKept ==
    ASSUME Keeps(fat, disk, root), NEW table, Grows(table),
           NEW free \in DataBlocks \union {UNUSABLE}, free \in DataBlocks => fat[free] = FREE,
           NEW new \in Entry, NEW noalloc \in BOOLEAN,
           noalloc => new.start = FREE /\ (free \in DataBlocks \/ FreeBlocks(table) = {}),
           ~noalloc => free \in DataBlocks,
           NEW dirOffset \in Holders(disk), disk[dirOffset].length >= EntriesPerBlock,
           NEW made \in Expand(table, free, new, disk[dirOffset], dirOffset, noalloc)
    PROVE  Kept(made, noalloc)
<1>. DEFINE dir == disk[dirOffset]
            last == Hop(table, dir.start, dir.length \div EntriesPerBlock - 1)
            linked == [table EXCEPT ![free] = last]
            offset == free * EntriesPerBlock
            cleared == [table EXCEPT ![free] = FREE]
<1>1. dir \in Entry /\ dir.length > 0
  BY NamespaceAssumption, HoldersInRange DEF Keeps, Entry
<1>2. last \in Links
  <2>1. dir.length \div EntriesPerBlock - 1 \in Nat
    BY <1>1, BlocksInLength DEF Entry
  <2>2. dir.start \in Links
    BY <1>1 DEF Entry, Links
  <2>. QED BY <2>1, <2>2, HopType DEF Grows, Table
<1>. HIDE DEF last
<1>3. Grows(linked) /\ Grows(cleared)
  BY <1>2, GrowFurther DEF Links
<1>4. free \in DataBlocks => offset # RootOffset
  <2>1. free \in DataBlocks => free # RootBlock /\ free \in Int
    BY RootFound, BlockAssumption DEF DataBlocks, RootBlock
  <2>. QED BY <2>1, OffsetOfBlock
<1>5. \/ made \in {Failure("ENOSPC", table), Failure("ENOSPC", cleared)}
      \/ noalloc /\ HasFree(table, 1) /\ made = Success(linked, new, dir, dirOffset, offset, 1)
      \/ ~noalloc /\ \E start \in FindFreeBlock(linked) :
            made = Success([linked EXCEPT ![start] = FINAL], [new EXCEPT !.start = start],
                           dir, dirOffset, offset, 1)
  BY Zenon DEF Expand, last
<1>. HIDE DEF linked, cleared, offset
<1>6. CASE made \in {Failure("ENOSPC", table), Failure("ENOSPC", cleared)}
  BY <1>3, <1>6, FailureKept
<1>7. CASE noalloc /\ HasFree(table, 1) /\ made = Success(linked, new, dir, dirOffset, offset, 1)
  <2>1. free \in DataBlocks
    <3>1. FreeBlocks(table) # {}
      BY <1>7, FS_EmptySet DEF HasFree
    <3>. QED BY <1>7, <3>1
  <2>. QED BY <1>1, <1>3, <1>4, <1>7, <2>1, SuccessKept
<1>8. CASE ~noalloc /\ \E start \in FindFreeBlock(linked) :
              made = Success([linked EXCEPT ![start] = FINAL], [new EXCEPT !.start = start],
                             dir, dirOffset, offset, 1)
  <2>1. PICK start \in FindFreeBlock(linked) :
              made = Success([linked EXCEPT ![start] = FINAL], [new EXCEPT !.start = start],
                             dir, dirOffset, offset, 1)
    BY <1>8
  <2>. DEFINE final == [linked EXCEPT ![start] = FINAL]
              started == [new EXCEPT !.start = start]
  <2>2. start \in DataBlocks /\ start \in Blocks /\ linked[start] = FREE
    BY <1>3, FreeBlocksType DEF Grows, FindFreeBlock, FreeBlocks
  <2>3. fat[start] = FREE
    BY <1>3, <2>2 DEF Grows
  <2>4. Grows(final)
    BY <1>3, <2>2, <2>3, GrowFurther DEF Links
  <2>5. started \in Entry /\ started.start = start
    BY <2>2, EntryType DEF Entry
  <2>6. final[start] = FINAL
    BY <1>3, <2>2 DEF Grows, Table
  <2>. HIDE DEF final, started
  <2>7. Fresh(final, started.start)
    BY <2>2, <2>3, <2>5, <2>6 DEF Fresh
  <2>. QED BY <1>1, <1>4, <1>8, <2>1, <2>4, <2>5, <2>7, SuccessKept DEF final, started
<1>. QED BY <1>5, <1>6, <1>7, <1>8

LEMMA InsertKept ==
    ASSUME Keeps(fat, disk, root), NEW table, Grows(table),
           NEW free \in DataBlocks \union {UNUSABLE}, free \in DataBlocks => fat[free] = FREE,
           NEW new \in Entry, NEW noalloc \in BOOLEAN,
           noalloc => new.start = FREE /\ (free \in DataBlocks \/ FreeBlocks(table) = {}),
           ~noalloc => Fresh(table, free) /\ new.start = free,
           NEW dirOffset \in Holders(disk),
           NEW made \in Insert(table, free, new, dirOffset, noalloc)
    PROVE  Kept(made, noalloc)
<1>. DEFINE dir == EntryAt(dirOffset)
            slot(i) == SlotOffset(table, dir, i)
            cleared == [table EXCEPT ![free] = FREE]
<1>1. dir \in Entry /\ dir.length \in Nat /\ dir = disk[dirOffset]
  BY RootFound, HoldersInRange DEF Keeps, Entry
<1>2. Grows(cleared)
  BY GrowFurther DEF Links
<1>. HIDE DEF dir, cleared
<1>3. \/ DirStatus(table, dir) # "OK" /\ made = Failure(DirStatus(table, dir), table)
      \/ DirStatus(table, dir) = "OK" /\
            \/ \E i \in Nat : IsFree(table, disk[slot(i)])
                              /\ made = Success(table, new, dir, dirOffset, slot(i), 0)
            \/ made = Failure("ENOSPC", cleared)
            \/ /\ dir.length < EntriesPerBlock \/ dir.length % EntriesPerBlock # 0
               /\ made = Success(table, new, dir, dirOffset, slot(dir.length), 1)
            \/ ~(dir.length < EntriesPerBlock)
               /\ made \in Expand(table, free, new, dir, dirOffset, noalloc)
  <2>. DEFINE freed(first) == Least({i \in first .. dir.length - 1 : IsFree(table, disk[slot(i)])})
              append == Success(table, new, dir, dirOffset, slot(dir.length), 1)
              place(first) ==
                  IF freed(first) # {}
                  THEN {Success(table, new, dir, dirOffset, slot(i), 0) : i \in freed(first)}
                  ELSE IF dir.length < EntriesPerBlock
                  THEN IF ~noalloc /\ ~HasFree(table, BlocksFor(new.length))
                       THEN {Failure("ENOSPC", cleared)}
                       ELSE {append}
                  ELSE IF dir.length % EntriesPerBlock # 0 THEN {append}
                  ELSE Expand(table, free, new, dir, dirOffset, noalloc)
  <2>. HIDE DEF slot
  <2>1. \/ DirStatus(table, dir) # "OK" /\ made = Failure(DirStatus(table, dir), table)
        \/ DirStatus(table, dir) = "OK" /\ \E first \in FirstIndices(dir) : made \in place(first)
    BY Zenon DEF Insert, dir, slot, cleared
  <2>2. FirstIndices(dir) \subseteq Nat
    BY <1>1 DEF FirstIndices
  <2>3. ASSUME NEW first \in Nat, made \in place(first)
        PROVE  \/ \E i \in Nat : IsFree(table, disk[slot(i)])
                                 /\ made = Success(table, new, dir, dirOffset, slot(i), 0)
               \/ made = Failure("ENOSPC", cleared)
               \/ /\ dir.length < EntriesPerBlock \/ dir.length % EntriesPerBlock # 0
                  /\ made = append
               \/ ~(dir.length < EntriesPerBlock)
                  /\ made \in Expand(table, free, new, dir, dirOffset, noalloc)
    <3>1. CASE freed(first) # {}
      <4>1. PICK i \in freed(first) : made = Success(table, new, dir, dirOffset, slot(i), 0)
        BY <2>3, <3>1
      <4>2. i \in first .. dir.length - 1 /\ IsFree(table, disk[slot(i)])
        BY <4>1 DEF Least
      <4>3. i \in Nat
        BY <4>2
      <4>. QED BY <4>1, <4>2, <4>3
    <3>2. CASE ~(freed(first) # {})
      <4>. HIDE DEF freed, append
      <4>. QED BY <2>3, <3>2
    <3>. QED BY <3>1, <3>2
  <2>4. CASE DirStatus(table, dir) # "OK" /\ made = Failure(DirStatus(table, dir), table)
    BY <2>4
  <2>5. CASE DirStatus(table, dir) = "OK" /\ \E first \in FirstIndices(dir) : made \in place(first)
    <3>1. PICK first \in Nat : made \in place(first)
      BY <2>2, <2>5
    <3>. HIDE DEF place
    <3>. QED BY <2>3, <2>5, <3>1
  <2>. QED BY <2>1, <2>4, <2>5
<1>4. DirStatus(table, dir) = "OK" => dir.length > 0
  BY <1>1 DEF DirStatus
<1>5. CASE DirStatus(table, dir) # "OK" /\ made = Failure(DirStatus(table, dir), table)
  BY <1>5, FailureKept
<1>6. CASE made = Failure("ENOSPC", cleared)
  BY <1>2, <1>6, FailureKept
<1>7. \A grown \in {0, 1} : \A offset : DirStatus(table, dir) = "OK" /\ offset # RootOffset =>
         Kept(Success(table, new, dir, dirOffset, offset, grown), noalloc)
  BY <1>1, <1>4, SuccessKept
<1>8. CASE DirStatus(table, dir) = "OK" /\
           \E i \in Nat : IsFree(table, disk[slot(i)])
                          /\ made = Success(table, new, dir, dirOffset, slot(i), 0)
  <2>1. PICK i \in Nat : IsFree(table, disk[slot(i)])
                         /\ made = Success(table, new, dir, dirOffset, slot(i), 0)
    BY <1>8
  <2>2. ~IsFree(table, disk[RootOffset])
    <3>1. disk[RootOffset].start = RootBlock /\ fat[RootBlock] # FREE
      BY RootFound DEF Keeps, RootKept
    <3>2. RootBlock \in DataBlocks /\ RootBlock # FREE
      BY BlockAssumption DEF DataBlocks, RootBlock, FREE
    <3>. QED BY <3>1, <3>2 DEF Grows, IsFree
  <2>3. slot(i) # RootOffset
    BY <2>1, <2>2
  <2>. HIDE DEF slot
  <2>. QED BY <1>7, <1>8, <2>1, <2>3
<1>9. CASE /\ DirStatus(table, dir) = "OK"
           /\ dir.length < EntriesPerBlock \/ dir.length % EntriesPerBlock # 0
           /\ made = Success(table, new, dir, dirOffset, slot(dir.length), 1)
  <2>. DEFINE b == Hop(table, dir.start, dir.length \div EntriesPerBlock)
              r == dir.length % EntriesPerBlock
  <2>1. r \in 1 .. EntriesPerBlock - 1
    BY <1>1, <1>4, <1>9, NamespaceAssumption
  <2>2. b \in Int
    <3>1. dir.length \div EntriesPerBlock \in Nat /\ dir.start \in Links
      BY <1>1, NamespaceAssumption DEF Entry, Links
    <3>2. b \in Links
      BY <3>1, HopType DEF Grows, Table
    <3>. QED BY <3>2, BlockAssumption DEF Links, DataBlocks, RootBlock, FREE, UNUSABLE, FINAL
  <2>3. slot(dir.length) = b * EntriesPerBlock + r
    BY DEF SlotOffset
  <2>. HIDE DEF slot, b, r
  <2>4. slot(dir.length) # RootOffset
    BY <2>1, <2>2, <2>3, OffsetInside
  <2>. QED BY <1>7, <1>9, <2>4
<1>10. CASE /\ ~(dir.length < EntriesPerBlock)
            /\ made \in Expand(table, free, new, dir, dirOffset, noalloc)
  <2>1. dir.length >= EntriesPerBlock
    BY <1>1, <1>10, NamespaceAssumption
  <2>. QED BY <1>1, <1>10, <2>1, ExpandKept DEF Fresh
<1>. QED BY <1>3, <1>5, <1>6, <1>8, <1>9, <1>10

LEMMA NewFileKept ==
    ASSUME Keeps(fat, disk, root), NEW path \in Seq(Names), NEW length \in Nat,
           NEW type \in {"file", "dir"}, NEW noalloc \in BOOLEAN,
           NEW made \in NewFile(path, length, type, noalloc)
    PROVE  Kept(made, noalloc)
<1>. DEFINE table(free) == IF noalloc THEN fat ELSE [fat EXCEPT ![free] = FINAL]
            new(free) == [name |-> IF noalloc THEN NoName ELSE LastName(path), type |-> type,
                          start |-> IF noalloc THEN FREE ELSE free, length |-> length]
            allocate(free) ==
                IF FindParent(path) = "ENOENT" THEN {Failure("ENOTDIR", table(free))}
                ELSE UNION {Insert(table(free), free, new(free), o, noalloc)
                               : o \in Resolve(ParentPath(path))}
<1>1. Grows(fat)
  BY DEF Keeps, Grows
<1>2. ASSUME NEW free \in DataBlocks \union {UNUSABLE}, free \in DataBlocks => fat[free] = FREE,
             noalloc => free \in DataBlocks \/ FreeBlocks(fat) = {}, ~noalloc => free \in DataBlocks,
             made \in allocate(free)
      PROVE  Kept(made, noalloc)
  <2>1. Grows(table(free))
    BY <1>1, <1>2, GrowFurther DEF Links
  <2>2. new(free) \in Entry
    BY <1>2, PathType DEF Entry
  <2>3. noalloc => new(free).start = FREE /\ (free \in DataBlocks \/ FreeBlocks(table(free)) = {})
    BY <1>2
  <2>4. ~noalloc => Fresh(table(free), free) /\ new(free).start = free
    <3>1. SUFFICES ASSUME ~noalloc PROVE table(free)[free] = FINAL
      BY <1>2 DEF Fresh
    <3>2. free \in Blocks
      BY <1>2, <3>1, BlockAssumption DEF Blocks, DataBlocks, RootBlock
    <3>. QED BY <1>1, <3>1, <3>2 DEF Grows, Table
  <2>. HIDE DEF table, new
  <2>5. CASE made = Failure("ENOTDIR", table(free))
    BY <2>1, <2>5, FailureKept
  <2>6. CASE \E o \in Resolve(ParentPath(path)) :
               made \in Insert(table(free), free, new(free), o, noalloc)
    <3>1. PICK o \in Holders(disk) : made \in Insert(table(free), free, new(free), o, noalloc)
      BY <2>6, PathType, ResolvedHolds
    <3>. QED BY <1>2, <2>1, <2>2, <2>3, <2>4, <3>1, InsertKept
  <2>. QED BY <1>2, <2>5, <2>6
<1>3. ASSUME NEW free \in FindFreeBlock(fat) PROVE free \in DataBlocks /\ fat[free] = FREE
  BY FreeBlocksType DEF Keeps, FindFreeBlock, FreeBlocks
<1>. HIDE DEF table, new
<1>4. \/ FindParent(path) \notin {"OK", "ENOENT"} /\ made = Failure(FindParent(path), fat)
      \/ \E free \in FindFreeBlock(fat) : made \in allocate(free)
      \/ noalloc /\ FreeBlocks(fat) = {} /\ made \in allocate(UNUSABLE)
      \/ made = Failure("ENOSPC", fat)
      \/ made = Failure("ENAMETOOLONG", fat)
  <2>. HIDE DEF allocate
  <2>. QED BY Zenon DEF NewFile, allocate, table, new
<1>5. CASE FindParent(path) \notin {"OK", "ENOENT"} /\ made = Failure(FindParent(path), fat)
  BY <1>1, <1>5, FailureKept
<1>6. CASE made = Failure("ENOSPC", fat) \/ made = Failure("ENAMETOOLONG", fat)
  BY <1>1, <1>6, FailureKept
<1>7. CASE \E free \in FindFreeBlock(fat) : made \in allocate(free)
  <2>. HIDE DEF allocate
  <2>. QED BY <1>2, <1>3, <1>7
<1>8. CASE noalloc /\ FreeBlocks(fat) = {} /\ made \in allocate(UNUSABLE)
  <2>1. UNUSABLE \notin DataBlocks
    BY BlockAssumption DEF UNUSABLE, DataBlocks, RootBlock
  <2>. HIDE DEF allocate
  <2>. QED BY <1>2, <1>8, <2>1
<1>. HIDE DEF allocate
<1>. QED BY <1>4, <1>5, <1>6, <1>7, <1>8

-----------------------------------------------------------------------------
(* resize.                                                                 *)

\* What resize may make of the table for an entry: a chain for the new length, of the
\* entry's own blocks and free ones, those left over free, and no other block changed.
Refits(table, entry, size) ==
    /\ Table(table) /\ Marked(table)
    /\ \A b \in DataBlocks : fat[b] # FREE /\ b \notin Chain(fat, entry.start) => table[b] = fat[b]
    /\ Exact(table, [entry EXCEPT !.length = size])
    /\ \A b \in Chain(table, entry.start) : b \in Chain(fat, entry.start) \/ fat[b] = FREE
    /\ \A b \in DataBlocks : fat[b] = FREE \/ b \in Chain(fat, entry.start) =>
                               table[b] = FREE \/ b \in Chain(table, entry.start)

\* A table is marked as long as it agrees outside the data blocks.
LEMMA MarkedElsewhere ==
    ASSUME Marked(fat), NEW table, \A b \in Blocks : b \notin DataBlocks => table[b] = fat[b]
    PROVE  Marked(table)
<1>1. \A b \in 0 .. FatBlocks : b \in Blocks /\ b \notin DataBlocks
  BY BlockAssumption DEF Blocks, DataBlocks, RootBlock
<1>. QED BY <1>1 DEF Marked

LEMMA EmptiedRefits ==
    ASSUME Table(fat), Marked(fat), NEW entry \in Entry, Chained(fat, entry)
    PROVE  Refits([Forget(fat, entry.start) EXCEPT ![entry.start] = FINAL], entry, 0)
<1>. DEFINE start == entry.start
            chain == Chain(fat, start)
            table == [Forget(fat, start) EXCEPT ![start] = FINAL]
            resized == [entry EXCEPT !.length = 0]
<1>1. start \in chain /\ start \in DataBlocks /\ start \in Blocks
  BY HolderChain, BlockAssumption DEF Blocks, DataBlocks, RootBlock
<1>2. Table(Forget(fat, start))
  BY ForgetType
<1>3. Table(table)
  BY <1>1, <1>2, LinkType DEF Links
<1>4. table[start] = FINAL
  BY <1>1, <1>2 DEF Table
<1>5. \A b \in Blocks : b \notin chain => table[b] = fat[b]
  BY <1>1, <1>2 DEF Forget, Table
<1>6. \A b \in chain : b # start => table[b] = FREE
  <2>1. \A b \in chain : b \in Blocks /\ fat[b] # UNUSABLE
    BY HolderChain, BlockAssumption DEF Blocks, DataBlocks, RootBlock, UNUSABLE, FINAL
  <2>. QED BY <1>1, <1>2, <2>1 DEF Forget, Table
<1>. HIDE DEF table
<1>7. Marked(table)
  BY <1>5, ChainType, MarkedElsewhere
<1>8. resized \in Entry /\ resized.start = start
  BY EntryType DEF Entry
<1>9. Exact(table, resized) /\ Chain(table, start) = {start}
  <2>1. Needs(resized) = 1
    BY DEF Needs, Entry
  <2>. HIDE DEF resized
  <2>. QED BY <1>1, <1>4, <1>8, <2>1, SingleExact, SingleChain
<1>10. \A b \in DataBlocks : b \in Blocks
  BY BlockAssumption DEF Blocks, DataBlocks, RootBlock
<1>11. Refits(table, entry, 0)
  BY <1>1, <1>3, <1>5, <1>7, <1>9, <1>10, <1>6 DEF Refits
<1>. QED BY <1>11 DEF table

\* Shrinking keeps the first blocks of a chain, in their order.
LEMMA ShrunkRefits ==
    ASSUME Table(fat), Marked(fat), NEW entry \in Entry, NEW p, NEW n,
           Follows(fat, entry.start, p, n), NEW size \in Nat,
           BlocksFor(size) \in 1 .. n
    PROVE  Refits(Shrink(fat, entry.start, BlocksFor(size)), entry, size)
<1>. DEFINE start == entry.start
            count == BlocksFor(size)
            chain == Chain(fat, start)
            table == Shrink(fat, start, count)
            q == [i \in 1 .. count |-> p[i]]
            resized == [entry EXCEPT !.length = size]
<1>1. /\ n \in Nat \ {0} /\ count \in Nat \ {0} /\ count <= n
      /\ p \in [1 .. n -> DataBlocks] /\ p[1] = start /\ fat \in [Blocks -> Links]
      /\ \A i \in 1 .. n - 1 : fat[p[i]] = p[i + 1]
      /\ \A i, j \in 1 .. n : p[i] = p[j] => i = j
  BY DEF Follows, Table
<1>2. chain = {p[i] : i \in 1 .. n}
  BY FollowedChain
<1>3. \A i \in 1 .. n : Hop(fat, start, i - 1) = p[i]
  <2>1. ASSUME NEW i \in 1 .. n PROVE Hop(fat, start, i - 1) = p[i]
    <3>1. i - 1 \in Nat /\ i - 1 < n /\ (i - 1) + 1 = i
      BY <1>1
    <3>. QED BY <1>1, <3>1, FollowedHop
  <2>. QED BY <2>1
<1>4. \A b \in DataBlocks : b \in Blocks
  BY BlockAssumption DEF Blocks, DataBlocks, RootBlock
<1>. HIDE DEF count
<1>5. \A b \in Blocks : b \notin chain => table[b] = fat[b]
  BY DEF Shrink
<1>6. table[p[count]] = FINAL
  <2>1. count \in 1 .. n
    BY <1>1
  <2>2. p[count] \in Blocks /\ p[count] \in chain /\ p[count] = Hop(fat, start, count - 1)
    BY <1>1, <1>2, <1>3, <1>4, <2>1
  <2>. QED BY <2>2 DEF Shrink
<1>7. ASSUME NEW i \in 1 .. count - 1 PROVE table[p[i]] = p[i + 1]
  <2>1. i \in 1 .. n /\ count \in 1 .. n /\ i \in 1 .. n - 1 /\ i # count /\ i - 1 \in 0 .. count - 1
    BY <1>1
  <2>2. p[i] \in Blocks /\ p[i] \in chain /\ p[i] # Hop(fat, start, count - 1)
    BY <1>1, <1>2, <1>3, <1>4, <2>1
  <2>3. p[i] \in {Hop(fat, start, k) : k \in 0 .. count - 1}
    BY <1>3, <2>1
  <2>4. table[p[i]] = fat[p[i]]
    BY <2>2, <2>3 DEF Shrink
  <2>. QED BY <1>1, <2>1, <2>4
<1>8. Table(table)
  BY <1>1, ShrinkType
<1>9. ASSUME NEW i \in 1 .. n, i \notin 1 .. count PROVE table[p[i]] = FREE
  <2>1. count \in 1 .. n /\ i # count /\ p[i] \in Blocks /\ p[i] \in chain
    BY <1>1, <1>2, <1>4, <1>9
  <2>2. p[i] # Hop(fat, start, count - 1)
    BY <1>1, <1>3, <2>1
  <2>3. p[i] \notin {Hop(fat, start, k) : k \in 0 .. count - 1}
    <3>1. SUFFICES ASSUME NEW k \in 0 .. count - 1, p[i] = Hop(fat, start, k) PROVE FALSE
      OBVIOUS
    <3>2. k + 1 \in 1 .. count /\ k + 1 \in 1 .. n /\ (k + 1) - 1 = k
      BY <1>1
    <3>3. p[i] = p[k + 1]
      BY <1>3, <3>1, <3>2
    <3>. QED BY <1>1, <1>9, <3>2, <3>3
  <2>. QED BY <2>1, <2>2, <2>3 DEF Shrink
<1>. HIDE DEF table
<1>10. Follows(table, start, q, count)
  <2>1. q \in [1 .. count -> DataBlocks]
    BY <1>1
  <2>2. 1 \in 1 .. count /\ count \in 1 .. count /\ \A i \in 1 .. count - 1 : i \in 1 .. count /\ i + 1 \in 1 .. count
    BY <1>1
  <2>3. \A i \in 1 .. count : i \in 1 .. n /\ q[i] = p[i]
    BY <1>1
  <2>. HIDE DEF q
  <2>. QED BY <1>1, <1>6, <1>7, <2>1, <2>2, <2>3 DEF Follows
<1>11. /\ Chain(table, start) \subseteq chain
       /\ \A b \in chain : table[b] = FREE \/ b \in Chain(table, start)
  <2>1. Chain(table, start) = {q[i] : i \in 1 .. count}
    BY <1>10, FollowedChain
  <2>2. \A i \in 1 .. count : i \in 1 .. n /\ q[i] = p[i]
    BY <1>1
  <2>. HIDE DEF q
  <2>. QED BY <1>2, <1>9, <2>1, <2>2
<1>12. resized.start = start /\ resized.length = size
  BY DEF Entry
<1>13. Exact(table, resized)
  <2>1. size # 0 /\ count = BlocksFor(size)
    <3>1. \A e \in Nat : e >= 2 => (0 + e - 1) \div e = 0
      BY Z3
    <3>2. BlocksFor(0) = 0
      BY <3>1, NamespaceAssumption DEF BlocksFor
    <3>. QED BY <1>1, <3>2 DEF count
  <2>2. Needs(resized) = count
    BY <1>12, <2>1 DEF Needs
  <2>. HIDE DEF resized, q
  <2>. QED BY <1>10, <1>12, <2>2 DEF Exact
<1>14. Marked(table)
  BY <1>5, ChainType, MarkedElsewhere
<1>15. Refits(table, entry, size)
  BY <1>4, <1>5, <1>8, <1>11, <1>13, <1>14 DEF Refits
<1>. QED BY <1>15 DEF table, count

\* Growing puts the taken blocks behind the chain, in their order.
LEMMA ExtendedRefits ==
    ASSUME Table(fat), Marked(fat), NEW entry \in Entry, NEW p, NEW n,
           Follows(fat, entry.start, p, n), NEW size \in Nat,
           NEW count \in Nat \ {0}, n + count = BlocksFor(size),
           NEW tail \in Tails(fat, entry.start), NEW taken \in LowestFree(fat, count)
    PROVE  Refits(Extend(fat, tail, taken, count), entry, size)
<1>. DEFINE start == entry.start
            chain == Chain(fat, start)
            table == Extend(fat, tail, taken, count)
            q == [i \in 1 .. n + count |-> IF i <= n THEN p[i] ELSE taken[i - n]]
            resized == [entry EXCEPT !.length = size]
<1>1. /\ n \in Nat \ {0} /\ p \in [1 .. n -> DataBlocks] /\ p[1] = start /\ fat \in [Blocks -> Links]
      /\ \A i \in 1 .. n - 1 : fat[p[i]] = p[i + 1]
      /\ \A i, j \in 1 .. n : p[i] = p[j] => i = j
  BY DEF Follows, Table
<1>2. chain = {p[i] : i \in 1 .. n}
  BY FollowedChain
<1>3. \A b \in DataBlocks : b \in Blocks
  BY BlockAssumption DEF Blocks, DataBlocks, RootBlock
<1>4. tail = p[n] /\ tail \in chain
  <2>1. tail \in chain /\ fat[tail] \notin DataBlocks
    BY DEF Tails
  <2>2. PICK i \in 1 .. n : tail = p[i]
    BY <1>2, <2>1
  <2>3. i \notin 1 .. n - 1
    <3>1. SUFFICES ASSUME i \in 1 .. n - 1 PROVE FALSE
      OBVIOUS
    <3>2. i + 1 \in 1 .. n
      BY <1>1, <3>1
    <3>. QED BY <1>1, <2>1, <2>2, <3>1, <3>2
  <2>. QED BY <1>1, <2>1, <2>2, <2>3
<1>5. taken \in [1 .. count -> FreeBlocks(fat)] /\ \A i, j \in 1 .. count : i < j => taken[i] < taken[j]
  BY DEF LowestFree
<1>6. \A i \in 1 .. count : taken[i] \in DataBlocks /\ taken[i] \in Blocks /\ fat[taken[i]] = FREE
  BY <1>5, FreeBlocksType DEF FreeBlocks
<1>7. \A i, j \in 1 .. count : taken[i] = taken[j] => i = j
  <2>1. \A i \in 1 .. count : taken[i] \in Int
    BY <1>6, BlockAssumption DEF DataBlocks, RootBlock
  <2>. QED BY <1>5, <2>1
<1>8. \A b \in chain : fat[b] # FREE
  BY FollowedTaken
<1>9. \A i \in 1 .. count : taken[i] \notin chain
  BY <1>6, <1>8
<1>10. 1 \in 1 .. count /\ count \in 1 .. count
  OBVIOUS
<1>11. Table(table)
  BY ExtendType
<1>12. table[tail] = taken[1]
  BY <1>1, <1>3, <1>4 DEF Extend
<1>13. ASSUME NEW b \in Blocks, b # tail, \A i \in 1 .. count : taken[i] # b PROVE table[b] = fat[b]
  <2>1. ~(\E i \in 1 .. count - 1 : taken[i] = b) /\ b # taken[count]
    BY <1>10, <1>13
  <2>. QED BY <1>13, <2>1 DEF Extend
<1>14. table[taken[count]] = FINAL
  <2>1. taken[count] # tail /\ taken[count] \in Blocks
    BY <1>4, <1>6, <1>9, <1>10
  <2>. QED BY <2>1 DEF Extend
<1>15. ASSUME NEW i \in 1 .. count - 1 PROVE table[taken[i]] = taken[i + 1]
  <2>1. i \in 1 .. count /\ i # count
    OBVIOUS
  <2>2. taken[i] # tail /\ taken[i] \in Blocks /\ taken[i] # taken[count]
    BY <1>4, <1>6, <1>7, <1>9, <1>10, <2>1
  <2>. DEFINE k == CHOOSE j \in 1 .. count - 1 : taken[j] = taken[i]
  <2>3. k \in 1 .. count - 1 /\ taken[k] = taken[i]
    <3>1. \E j \in 1 .. count - 1 : taken[j] = taken[i]
      BY <1>15
    <3>. QED BY <3>1
  <2>4. table[taken[i]] = taken[1 + k]
    BY <1>15, <2>2 DEF Extend
  <2>. HIDE DEF k
  <2>5. k = i
    BY <1>7, <2>1, <2>3
  <2>6. 1 + k = i + 1
    BY <2>5
  <2>. QED BY <2>4, <2>6
<1>. HIDE DEF table
<1>16. q \in [1 .. n + count -> DataBlocks]
  BY <1>1, <1>6
<1>17. /\ \A i \in 1 .. n : i \in 1 .. n + count /\ q[i] = p[i]
       /\ \A i \in 1 .. count : n + i \in 1 .. n + count /\ q[n + i] = taken[i]
  BY <1>1
<1>18. \A i \in 1 .. n + count : i \in 1 .. n \/ \E j \in 1 .. count : i = n + j
  <2>1. ASSUME NEW i \in 1 .. n + count, i \notin 1 .. n PROVE i - n \in 1 .. count /\ i = n + (i - n)
    BY <1>1, <2>1
  <2>. QED BY <2>1
<1>. HIDE DEF q
<1>19. Follows(table, start, q, n + count)
  <2>1. n + count \in Nat \ {0} /\ 1 \in 1 .. n /\ n \in 1 .. n
    BY <1>1
  <2>2. q[1] = start
    BY <1>1, <1>17, <2>1
  <2>3. table[q[n + count]] = FINAL
    BY <1>10, <1>14, <1>17
  <2>4. ASSUME NEW i \in 1 .. n + count - 1 PROVE table[q[i]] = q[i + 1]
    <3>1. CASE i \in 1 .. n - 1
      <4>1. i \in 1 .. n /\ i + 1 \in 1 .. n /\ i # n
        BY <1>1, <3>1
      <4>2. p[i] # tail /\ p[i] \in chain /\ p[i] \in Blocks
        BY <1>1, <1>2, <1>3, <1>4, <2>1, <4>1
      <4>3. table[p[i]] = fat[p[i]]
        BY <1>9, <1>13, <4>2
      <4>. QED BY <1>1, <1>17, <3>1, <4>1, <4>3
    <3>2. CASE i = n
      <4>1. q[i] = tail
        BY <1>4, <1>17, <2>1, <3>2
      <4>2. q[n + 1] = taken[1]
        BY <1>10, <1>17
      <4>. QED BY <1>12, <3>2, <4>1, <4>2
    <3>3. CASE i \notin 1 .. n
      <4>1. PICK j \in 1 .. count : i = n + j
        BY <1>1, <1>18, <3>3
      <4>2. j \in 1 .. count - 1 /\ j + 1 \in 1 .. count /\ n + (j + 1) = i + 1
        BY <1>1, <4>1
      <4>3. q[i] = taken[j] /\ q[i + 1] = taken[j + 1]
        BY <1>17, <4>1, <4>2
      <4>. QED BY <1>15, <4>2, <4>3
    <3>4. i \in 1 .. n - 1 \/ i = n \/ i \notin 1 .. n
      BY <1>1
    <3>. QED BY <3>1, <3>2, <3>3, <3>4
  <2>5. ASSUME NEW i \in 1 .. n + count, NEW j \in 1 .. n + count, q[i] = q[j] PROVE i = j
    <3>1. \A k \in 1 .. n : q[k] \in chain
      BY <1>2, <1>17
    <3>2. CASE i \in 1 .. n
      <4>1. j \in 1 .. n
        BY <1>9, <1>17, <1>18, <2>5, <3>1, <3>2
      <4>. QED BY <1>1, <1>17, <2>5, <3>2, <4>1
    <3>3. CASE i \notin 1 .. n
      <4>1. PICK k \in 1 .. count : i = n + k
        BY <1>18, <3>3
      <4>2. j \notin 1 .. n
        BY <1>9, <1>17, <2>5, <3>1, <4>1
      <4>3. PICK l \in 1 .. count : j = n + l
        BY <1>18, <4>2
      <4>. QED BY <1>7, <1>17, <2>5, <4>1, <4>3
    <3>. QED BY <3>2, <3>3
  <2>. QED BY <1>16, <2>1, <2>2, <2>3, <2>4, <2>5 DEF Follows
<1>20. /\ \A b \in Chain(table, start) : b \in chain \/ fat[b] = FREE
       /\ chain \subseteq Chain(table, start)
       /\ \A i \in 1 .. count : taken[i] \in Chain(table, start)
  <2>1. Chain(table, start) = {q[i] : i \in 1 .. n + count}
    BY <1>19, FollowedChain
  <2>2. \A b \in Chain(table, start) : b \in chain \/ fat[b] = FREE
    BY <1>2, <1>6, <1>17, <1>18, <2>1
  <2>. QED BY <1>2, <1>17, <2>1, <2>2
<1>21. resized.start = start /\ resized.length = size
  BY DEF Entry
<1>22. Exact(table, resized)
  <2>1. size # 0
    <3>1. \A e \in Nat : e >= 2 => (0 + e - 1) \div e = 0
      BY Z3
    <3>2. BlocksFor(0) = 0
      BY <3>1, NamespaceAssumption DEF BlocksFor
    <3>. QED BY <1>1, <3>2
  <2>2. Needs(resized) = n + count
    BY <1>21, <2>1 DEF Needs
  <2>. HIDE DEF resized
  <2>. QED BY <1>19, <1>21, <2>2 DEF Exact
<1>23. Marked(table)
  BY <1>3, <1>4, <1>6, <1>13, ChainType, MarkedElsewhere
<1>24. \A b \in DataBlocks : fat[b] # FREE /\ b \notin chain => table[b] = fat[b]
  BY <1>3, <1>4, <1>6, <1>13
<1>25. \A b \in DataBlocks : fat[b] = FREE \/ b \in chain => table[b] = FREE \/ b \in Chain(table, start)
  BY <1>3, <1>4, <1>13, <1>20
<1>26. Refits(table, entry, size)
  BY <1>11, <1>20, <1>22, <1>23, <1>24, <1>25 DEF Refits
<1>. QED BY <1>26 DEF table

\* The zeroes a shrinking owner writes start inside one of its blocks: behind the root.
LEMMA ZeroesBehindRoot ==
    ASSUME Keeps(fat, disk, root), NEW entry \in Entry, NEW p, NEW n, Follows(fat, entry.start, p, n),
           NEW size \in Nat, size # 0, BlocksFor(size) <= n, NEW zero \in ZeroOutFree(entry, size)
    PROVE  /\ zero.disk \in [Offsets -> Entry] /\ zero.disk[RootOffset] = disk[RootOffset]
           /\ \A x \in Offsets : zero.disk[x] = disk[x] \/ zero.disk[x] = Nothing
           /\ zero.ret \in {"OK", "PANIC"}
<1>. DEFINE k == (size - 1) \div EntriesPerBlock
            from == Hop(fat, entry.start, k) * EntriesPerBlock + (size % EntriesPerBlock)
            zeroed(end) == [o \in Offsets |-> IF from <= o /\ o < end THEN Nothing ELSE disk[o]]
<1>1. disk \in [Offsets -> Entry] /\ fat \in [Blocks -> Links] /\ n \in Nat
  BY DEF Keeps, Table, Follows
<1>2. \/ zero = [ret |-> "OK", disk |-> disk]
      \/ /\ size % EntriesPerBlock # 0
         /\ \E end : zero.disk = zeroed(end) /\ zero.ret \in {"OK", "PANIC"}
  <2>. DEFINE until == from + entry.length - size
  <2>1. CASE size % EntriesPerBlock = 0 \/ entry.length <= size
    BY <2>1 DEF ZeroOutFree
  <2>2. CASE ~(size % EntriesPerBlock = 0 \/ entry.length <= size)
    <3>1. zero \in IF until <= BlockCount * EntriesPerBlock
                   THEN {[ret |-> "OK", disk |-> zeroed(until)]}
                   ELSE {[ret |-> "PANIC", disk |-> zeroed(end)] :
                            end \in from .. BlockCount * EntriesPerBlock}
      BY <2>2 DEF ZeroOutFree
    <3>. HIDE DEF zeroed, from, until
    <3>. QED BY <2>2, <3>1
  <2>. QED BY <2>1, <2>2
<1>3. CASE zero = [ret |-> "OK", disk |-> disk]
  BY <1>1, <1>3
<1>4. CASE /\ size % EntriesPerBlock # 0
           /\ \E end : zero.disk = zeroed(end) /\ zero.ret \in {"OK", "PANIC"}
  <2>1. k \in Nat /\ k < BlocksFor(size) /\ BlocksFor(size) \in Nat
    <3>1. \A a, e \in Nat : e >= 2 => a \div e \in Nat /\ (a + e) \div e = a \div e + 1
      BY Z3
    <3>2. size - 1 \in Nat /\ size + EntriesPerBlock - 1 = (size - 1) + EntriesPerBlock
      BY NamespaceAssumption
    <3>3. BlocksFor(size) = ((size - 1) + EntriesPerBlock) \div EntriesPerBlock
      BY <3>2 DEF BlocksFor
    <3>4. k \in Nat /\ BlocksFor(size) = k + 1
      BY <3>1, <3>2, <3>3, NamespaceAssumption
    <3>. QED BY <3>4
  <2>. HIDE DEF k
  <2>2. Hop(fat, entry.start, k) \in DataBlocks
    <3>1. k < n /\ k + 1 \in 1 .. n
      BY <1>1, <2>1
    <3>2. Hop(fat, entry.start, k) = p[k + 1]
      BY <1>1, <2>1, <3>1, FollowedHop
    <3>. QED BY <3>1, <3>2 DEF Follows
  <2>3. size % EntriesPerBlock > 0
    BY <1>4, NamespaceAssumption
  <2>4. from > RootOffset
    <3>. DEFINE b == Hop(fat, entry.start, k)
                r == size % EntriesPerBlock
    <3>1. b \in Nat /\ b >= RootBlock /\ RootBlock \in Nat /\ r \in Nat /\ r > 0
      BY <2>2, <2>3, BlockAssumption, NamespaceAssumption DEF DataBlocks, RootBlock
    <3>. HIDE DEF b, r
    <3>2. \A e \in Nat : b * e + r > RootBlock * e
      BY <3>1, Z3
    <3>. QED BY <3>2, NamespaceAssumption DEF RootOffset, b, r
  <2>. HIDE DEF from
  <2>6. PICK end : zero.disk = zeroed(end) /\ zero.ret \in {"OK", "PANIC"}
    BY <1>4
  <2>7. RootOffset \in Offsets /\ ~(from <= RootOffset)
    BY <2>2, <2>4, RootHolds, BlockAssumption, NamespaceAssumption DEF from, Offsets, DataBlocks, RootBlock
  <2>8. zeroed(end) \in [Offsets -> Entry]
    BY <1>1, EntryType
  <2>9. zeroed(end)[RootOffset] = disk[RootOffset]
    BY <2>7
  <2>. QED BY <2>6, <2>8, <2>9
<1>. QED BY <1>2, <1>3, <1>4

\* Whatever resize makes of the table and the zeroes, saving the entry keeps the order.
LEMMA SaveKept ==
    ASSUME Keeps(fat, disk, root), NEW o \in Holders(disk), NEW size \in Nat,
           NEW table, Refits(table, disk[o], size), NEW d \in [Offsets -> Entry],
           d[RootOffset] = disk[RootOffset], \A x \in Offsets : d[x] = disk[x] \/ d[x] = Nothing
    PROVE  /\ Keeps(Save(table, d, disk[o], o, size).fat, Save(table, d, disk[o], o, size).disk,
                    Save(table, d, disk[o], o, size).root)
<1>. DEFINE resized == [disk[o] EXCEPT !.length = size]
<1>1. disk[o] \in Entry
  BY HoldersInRange DEF Keeps
<1>2. resized \in Entry /\ resized.name = disk[o].name /\ resized.type = disk[o].type
      /\ resized.start = disk[o].start
  BY <1>1, EntryType DEF Entry
<1>3. Chained(table, resized)
  BY <1>2, ExactIsChained DEF Refits
<1>4. \A b \in Chain(table, resized.start) : b \in Chain(fat, disk[o].start) \/ fat[b] = FREE
  BY <1>2 DEF Refits
<1>5. /\ Save(table, d, disk[o], o, size).fat = table
      /\ Save(table, d, disk[o], o, size).disk = WriteEntry(d, o, resized)
      /\ Save(table, d, disk[o], o, size).root = CacheEntry(root, resized)
  BY DEF Save
<1>. HIDE DEF resized
<1>6. Keeps(table, WriteEntry(d, o, resized), CacheEntry(root, resized))
  BY <1>2, <1>3, <1>4, Resave DEF Refits
<1>. QED BY <1>5, <1>6

\* An owner of another length keeps a chain that has the blocks it needs.
LEMMA SameRefits ==
    ASSUME Table(fat), Marked(fat), NEW entry \in Entry, NEW p, NEW n,
           Follows(fat, entry.start, p, n), NEW size \in Nat, size # 0, n = BlocksFor(size)
    PROVE  Refits(fat, entry, size)
<1>1. [entry EXCEPT !.length = size].start = entry.start /\ [entry EXCEPT !.length = size].length = size
  BY DEF Entry
<1>2. Exact(fat, [entry EXCEPT !.length = size])
  BY <1>1 DEF Exact, Needs
<1>. QED BY <1>2 DEF Refits

\* What the outcomes of resize come to: a table that fits, and perhaps zeroes written.
Fitted(entry, o, size, n, resized) ==
    \/ entry.length = size /\ resized = Failure("OK", fat)
    \/ resized = Failure("ENOSPC", fat)
    \/ \E table : Refits(table, entry, size) /\ resized = Save(table, disk, entry, o, size)
    \/ /\ size # 0 /\ BlocksFor(size) <= n
       /\ \E table : \E zero \in ZeroOutFree(entry, size) :
             /\ Refits(table, entry, size)
             /\ resized = IF zero.ret = "OK" THEN Save(table, zero.disk, entry, o, size)
                          ELSE [ret |-> zero.ret, fat |-> fat, disk |-> zero.disk, root |-> root]

LEMMA ResizeFits ==
    ASSUME Table(fat), Marked(fat), NEW entry \in Entry, Chained(fat, entry), NEW p, NEW n,
           Follows(fat, entry.start, p, n), NEW o, NEW size \in Nat,
           NEW resized \in Resize(entry, o, size)
    PROVE  Fitted(entry, o, size, n, resized)
<1>. DEFINE old == ChainLength(fat, entry.start)
            new == BlocksFor(size)
            missing == new - old
            save(table, zero) ==
                IF zero.ret = "OK" THEN Save(table, zero.disk, entry, o, size)
                ELSE [ret |-> zero.ret, fat |-> fat, disk |-> zero.disk, root |-> root]
<1>1. old = n /\ n \in Nat \ {0}
  <2>1. n \in Nat \ {0}
    BY DEF Follows
  <2>. QED BY <2>1, FollowedChain
<1>2. new \in Nat /\ (size # 0 => new >= 1)
  <2>1. \A e \in Nat : e >= 2 => /\ (size + e - 1) \div e \in Nat
                                 /\ size # 0 => (size + e - 1) \div e >= 1
    BY Z3
  <2>. QED BY <2>1, NamespaceAssumption DEF BlocksFor
<1>. HIDE DEF old, new, save
<1>3. \/ entry.length = size /\ resized = Failure("OK", fat)
      \/ resized = Failure("ENOSPC", fat)
      \/ size = 0 /\ resized = Save([Forget(fat, entry.start) EXCEPT ![entry.start] = FINAL],
                                    disk, entry, o, size)
      \/ size # 0 /\ new = old /\ \E zero \in ZeroOutFree(entry, size) : resized = save(fat, zero)
      \/ size # 0 /\ new < old /\ \E zero \in ZeroOutFree(entry, size) :
                                     resized = save(Shrink(fat, entry.start, new), zero)
      \/ size # 0 /\ new # old /\ ~(new < old) /\
            \E tail \in Tails(fat, entry.start), taken \in LowestFree(fat, missing) :
                resized = Save(Extend(fat, tail, taken, missing), disk, entry, o, size)
  <2>. DEFINE outcomes == Resize(entry, o, size)
  <2>1. outcomes =
          IF entry.length = size THEN {Failure("OK", fat)}
          ELSE IF size = 0
          THEN {Save([Forget(fat, entry.start) EXCEPT ![entry.start] = FINAL], disk, entry, o, size)}
          ELSE IF new = old
          THEN {save(fat, zero) : zero \in ZeroOutFree(entry, size)}
          ELSE IF new < old
          THEN {save(Shrink(fat, entry.start, new), zero) : zero \in ZeroOutFree(entry, size)}
          ELSE IF ~HasFree(fat, missing) THEN {Failure("ENOSPC", fat)}
          ELSE {Save(Extend(fat, tail, taken, missing), disk, entry, o, size) :
                   tail \in Tails(fat, entry.start), taken \in LowestFree(fat, missing)}
    BY DEF Resize, old, new, save
  <2>2. resized \in outcomes
    OBVIOUS
  <2>. HIDE DEF outcomes, missing
  <2>. QED BY <2>1, <2>2
<1>4. CASE \/ entry.length = size /\ resized = Failure("OK", fat)
           \/ resized = Failure("ENOSPC", fat)
  BY <1>4 DEF Fitted
<1>5. CASE size = 0 /\ resized = Save([Forget(fat, entry.start) EXCEPT ![entry.start] = FINAL],
                                      disk, entry, o, size)
  <2>1. Refits([Forget(fat, entry.start) EXCEPT ![entry.start] = FINAL], entry, size)
    BY <1>5, EmptiedRefits
  <2>. QED BY <1>5, <2>1 DEF Fitted
<1>6. ASSUME size # 0, new <= n, NEW table, Refits(table, entry, size),
             NEW zero \in ZeroOutFree(entry, size), resized = save(table, zero)
      PROVE  Fitted(entry, o, size, n, resized)
  BY <1>6 DEF Fitted, save, new
<1>7. CASE size # 0 /\ new = old /\ \E zero \in ZeroOutFree(entry, size) : resized = save(fat, zero)
  <2>1. new <= n /\ n = new /\ size # 0
    BY <1>1, <1>7
  <2>2. Refits(fat, entry, size)
    BY <2>1, SameRefits DEF new
  <2>. QED BY <1>6, <1>7, <2>1, <2>2
<1>8. CASE size # 0 /\ new < old /\ \E zero \in ZeroOutFree(entry, size) :
                                       resized = save(Shrink(fat, entry.start, new), zero)
  <2>1. new \in 1 .. n /\ new <= n
    BY <1>1, <1>2, <1>8
  <2>2. Refits(Shrink(fat, entry.start, new), entry, size)
    BY <2>1, ShrunkRefits DEF new
  <2>. QED BY <1>6, <1>8, <2>1, <2>2
<1>9. CASE size # 0 /\ new # old /\ ~(new < old) /\
              \E tail \in Tails(fat, entry.start), taken \in LowestFree(fat, missing) :
                  resized = Save(Extend(fat, tail, taken, missing), disk, entry, o, size)
  <2>1. missing \in Nat \ {0} /\ n + missing = new
    BY <1>1, <1>2, <1>9
  <2>. HIDE DEF missing
  <2>2. PICK tail \in Tails(fat, entry.start), taken \in LowestFree(fat, missing) :
             resized = Save(Extend(fat, tail, taken, missing), disk, entry, o, size)
    BY <1>9
  <2>3. Refits(Extend(fat, tail, taken, missing), entry, size)
    BY <2>1, <2>2, ExtendedRefits DEF new
  <2>. QED BY <2>2, <2>3 DEF Fitted
<1>. QED BY <1>3, <1>4, <1>5, <1>7, <1>8, <1>9

LEMMA ResizeKept ==
    ASSUME Keeps(fat, disk, root), NEW o \in Holders(disk), NEW size \in Nat,
           NEW resized \in Resize(disk[o], o, size)
    PROVE  Keeps(resized.fat, resized.disk, resized.root)
<1>. DEFINE entry == disk[o]
<1>1. entry \in Entry /\ Chained(fat, entry) /\ Table(fat) /\ Marked(fat) /\ disk \in [Offsets -> Entry]
  BY HoldersInRange DEF Keeps, OwnChains
<1>2. PICK p, n : Follows(fat, entry.start, p, n)
  BY <1>1 DEF Chained
<1>. HIDE DEF entry
<1>3. Fitted(entry, o, size, n, resized)
  BY <1>1, <1>2, ResizeFits DEF entry
<1>4. CASE resized \in {Failure("OK", fat), Failure("ENOSPC", fat)}
  BY <1>4 DEF Failure
<1>5. ASSUME NEW table, Refits(table, entry, size), resized = Save(table, disk, entry, o, size)
      PROVE  Keeps(resized.fat, resized.disk, resized.root)
  BY <1>1, <1>5, SaveKept DEF entry
<1>6. ASSUME size # 0, BlocksFor(size) <= n, NEW table, Refits(table, entry, size),
             NEW zero \in ZeroOutFree(entry, size),
             resized = IF zero.ret = "OK" THEN Save(table, zero.disk, entry, o, size)
                       ELSE [ret |-> zero.ret, fat |-> fat, disk |-> zero.disk, root |-> root]
      PROVE  Keeps(resized.fat, resized.disk, resized.root)
  <2>1. /\ zero.disk \in [Offsets -> Entry] /\ zero.disk[RootOffset] = disk[RootOffset]
        /\ \A x \in Offsets : zero.disk[x] = disk[x] \/ zero.disk[x] = Nothing
    BY <1>1, <1>2, <1>6, ZeroesBehindRoot
  <2>2. CASE zero.ret = "OK"
    BY <1>6, <2>1, <2>2, SaveKept DEF entry
  <2>3. CASE zero.ret # "OK"
    <3>1. resized.fat = fat /\ resized.disk = zero.disk /\ resized.root = root
      BY <1>6, <2>3
    <3>2. Keeps(fat, zero.disk, root)
      BY <2>1, Lose DEF Nothing
    <3>. QED BY <3>1, <3>2
  <2>. QED BY <2>2, <2>3
<1>. QED BY <1>3, <1>4, <1>5, <1>6 DEF Fitted

-----------------------------------------------------------------------------
(* Every call keeps the partition in order.                                *)

\* The same after a step.
KeepsNext == Keeps(fat', disk', root')

LEMMA BecomeKept ==
    ASSUME NEW outcome, Keeps(outcome.fat, outcome.disk, outcome.root), Become(outcome)
    PROVE  KeepsNext
BY DEF Become, Leave, KeepsNext

LEMMA LeaveKept ==
    ASSUME NEW outcome, Keeps(outcome.fat, outcome.disk, outcome.root), Leave(outcome)
    PROVE  KeepsNext
BY DEF Leave, KeepsNext

LEMMA UnchangedKept ==
    ASSUME Keeps(fat, disk, root), UNCHANGED <<fat, disk, root>> PROVE KeepsNext
BY DEF KeepsNext

LEMMA NotFoundKept ==
    ASSUME Keeps(fat, disk, root), NEW path, NotFound(path) PROVE KeepsNext
BY UnchangedKept DEF NotFound, Fail

LEMMA CreateKept ==
    ASSUME Keeps(fat, disk, root), NEW path \in Seq(Names), Create(path) PROVE KeepsNext
<1>1. CASE Fail("EEXIST")
  BY <1>1, UnchangedKept DEF Fail
<1>2. CASE \E made \in NewFile(path, 0, "file", FALSE) : Become(made)
  <2>1. PICK made \in NewFile(path, 0, "file", FALSE) : Become(made)
    BY <1>2
  <2>2. Kept(made, FALSE)
    BY NewFileKept
  <2>. QED BY <2>1, <2>2, BecomeKept DEF Kept
<1>. QED BY <1>1, <1>2 DEF Create

LEMMA MkdirKept ==
    ASSUME Inv, Keeps(fat, disk, root), NEW path \in Seq(Names), Mkdir(path) PROVE KeepsNext
<1>1. PICK made \in NewFile(path, 1, "dir", FALSE) :
          IF made.ret # "OK" THEN Become(made)
          ELSE LET up == [made.parent EXCEPT !.name = DotDot]
                   first == made.new.start * EntriesPerBlock
               IN  Become([made EXCEPT !.disk = WriteEntry(@, first, up),
                                       !.root = CacheEntry(@, up)])
  BY Zenon DEF Mkdir
<1>2. Kept(made, FALSE)
  BY NewFileKept
<1>3. CASE made.ret # "OK"
  BY <1>1, <1>2, <1>3, BecomeKept DEF Kept
<1>4. CASE made.ret = "OK"
  <2>. DEFINE up == [made.parent EXCEPT !.name = DotDot]
              first == made.new.start * EntriesPerBlock
              outcome == [made EXCEPT !.disk = WriteEntry(@, first, up),
                                      !.root = CacheEntry(@, up)]
  <2>1. Become(outcome)
    BY <1>1, <1>4
  <2>2. up \in Entry /\ up.name = DotDot
    <3>1. made.parent \in Entry
      BY <1>4, NewFileMade DEF Made
    <3>. QED BY <3>1, EntryType DEF Entry
  <2>3. first # RootOffset
    <3>1. made.new.start \in DataBlocks /\ fat[made.new.start] = FREE
      BY <1>2, <1>4 DEF Kept, Fresh
    <3>2. made.new.start \in Int /\ made.new.start # RootBlock
      BY <3>1, RootFound, BlockAssumption DEF DataBlocks, RootBlock
    <3>. QED BY <3>2, OffsetOfBlock
  <2>4. CacheEntry(made.root, up) = made.root
    BY <1>2, <1>4 DEF Kept
  <2>5. WriteEntry(made.disk, first, up) = [made.disk EXCEPT ![first] = up]
    BY <2>3 DEF WriteEntry
  <2>. HIDE DEF up, first
  <2>6. Keeps(made.fat, [made.disk EXCEPT ![first] = up], made.root)
    BY <1>2, <2>2, <2>3, Drop DEF Kept
  <2>7. /\ fat' = made.fat
        /\ disk' \in {made.disk, WriteEntry(made.disk, first, up)}
        /\ root' \in {made.root, CacheEntry(made.root, up)}
    BY <2>1 DEF Become, Leave
  <2>. QED BY <1>2, <2>4, <2>5, <2>6, <2>7 DEF Kept, KeepsNext
<1>. QED BY <1>3, <1>4

\* The owner an entry names is removed: its blocks are free, and its slot owns nothing.
LEMMA RemovedKept ==
    ASSUME Keeps(fat, disk, root), NEW path \in Seq(Names), NEW o \in Resolve(path),
           o # RootOffset, NEW removed \in Entry, removed.start = FREE,
           Become([ret |-> "OK", fat |-> Forget(fat, EntryAt(o).start), root |-> root,
                   disk |-> WriteEntry(disk, o, removed)])
    PROVE  KeepsNext
<1>1. o \in Holders(disk) /\ EntryAt(o) = disk[o]
  BY ResolvedHolds
<1>2. WriteEntry(disk, o, removed) = [disk EXCEPT ![o] = removed]
  BY DEF WriteEntry
<1>3. Keeps(Forget(fat, disk[o].start), [disk EXCEPT ![o] = removed], root)
  BY <1>1, Remove
<1>4. Keeps(Forget(fat, EntryAt(o).start), WriteEntry(disk, o, removed), root)
  BY <1>1, <1>2, <1>3
<1>. QED BY <1>4, BecomeKept

LEMMA UnlinkKept ==
    ASSUME Keeps(fat, disk, root), NEW path \in Seq(Names), Unlink(path) PROVE KeepsNext
<1>1. CASE NotFound(path)
  BY <1>1, NotFoundKept
<1>2. ASSUME Fail("EISDIR") PROVE KeepsNext
  BY <1>2, UnchangedKept DEF Fail
<1>3. ASSUME NEW o \in Resolve(path), EntryAt(o).type # "dir",
             Become([ret |-> "OK", fat |-> Forget(fat, EntryAt(o).start), root |-> root,
                     disk |-> WriteEntry(disk, o, [EntryAt(o) EXCEPT !.start = FREE])])
      PROVE  KeepsNext
  <2>1. o \in Offsets /\ EntryAt(o) = disk[o] /\ EntryAt(o) \in Entry
    BY ResolvedHolds DEF Keeps
  <2>2. o # RootOffset
    BY <1>3, <2>1 DEF Keeps, RootKept
  <2>3. [EntryAt(o) EXCEPT !.start = FREE] \in Entry /\ [EntryAt(o) EXCEPT !.start = FREE].start = FREE
    BY <2>1, EntryType DEF Entry
  <2>. QED BY <1>3, <2>2, <2>3, RemovedKept
<1>. QED BY <1>1, <1>2, <1>3 DEF Unlink

LEMMA RmdirKept ==
    ASSUME Keeps(fat, disk, root), NEW path \in Seq(Names), Rmdir(path) PROVE KeepsNext
<1>1. CASE NotFound(path)
  BY <1>1, NotFoundKept
<1>2. ASSUME NEW code, Fail(code) PROVE KeepsNext
  BY <1>2, UnchangedKept DEF Fail
<1>3. ASSUME NEW o \in Resolve(path), path # <<>>,
             Become([ret |-> "OK", fat |-> Forget(fat, EntryAt(o).start), root |-> root,
                     disk |-> WriteEntry(disk, o, [EntryAt(o) EXCEPT !.start = FREE,
                                                                    !.length = 0])])
      PROVE  KeepsNext
  <2>1. o # RootOffset /\ EntryAt(o) \in Entry
    BY <1>3, ResolvedHolds DEF Keeps
  <2>2. /\ [EntryAt(o) EXCEPT !.start = FREE, !.length = 0] \in Entry
        /\ [EntryAt(o) EXCEPT !.start = FREE, !.length = 0].start = FREE
    BY <2>1 DEF Entry
  <2>. QED BY <1>3, <2>1, <2>2, RemovedKept
<1>. QED BY <1>1, <1>2, <1>3 DEF Rmdir

LEMMA RenameOverKept ==
    ASSUME Keeps(fat, disk, root), NEW src \in Seq(Names), src # <<>>, NEW dest \in Seq(Names),
           NEW from \in Resolve(src), NEW to \in Resolve(dest), RenameOver(dest, from, to)
    PROVE  KeepsNext
<1>. DEFINE removed == [disk[to] EXCEPT !.start = FREE]
            gone == [disk EXCEPT ![to] = removed]
            freed == Forget(fat, disk[to].start)
            d == Moved(gone, disk[from], from, to, LastName(dest))
<1>1. CASE Fail("EISDIR")
  BY <1>1, UnchangedKept DEF Fail
<1>2. CASE EntryAt(to).type # "dir" /\ ~Fail("EISDIR")
  <2>1. /\ from \in Holders(disk) /\ EntryAt(from) = disk[from] /\ from # RootOffset
        /\ to \in Holders(disk) /\ EntryAt(to) = disk[to]
        /\ disk[to] \in Entry /\ disk[from] \in Entry
    BY ResolvedHolds DEF Keeps
  <2>2. to # RootOffset
    BY <1>2, <2>1 DEF Keeps, RootKept
  <2>3. removed \in Entry /\ removed.start = FREE
    BY <2>1, EntryType DEF Entry
  <2>4. WriteEntry(disk, to, removed) = gone
    BY <2>2 DEF WriteEntry
  <2>5. Become([ret |-> "OK", fat |-> freed, root |-> root, disk |-> d])
    BY <1>2, <2>1, <2>4 DEF RenameOver
  <2>. HIDE DEF removed
  <2>6. Keeps(freed, gone, root)
    BY <2>1, <2>2, <2>3, Remove
  <2>7. from # to => /\ Chained(freed, disk[from])
                     /\ \A x \in Holders(gone) :
                           x # from => Chain(freed, disk[from].start) \cap Chain(freed, gone[x].start) = {}
    <3>1. SUFFICES ASSUME from # to
                   PROVE  /\ Chained(freed, disk[from])
                          /\ \A x \in Holders(gone) :
                                x # from => Chain(freed, disk[from].start)
                                            \cap Chain(freed, gone[x].start) = {}
      OBVIOUS
    <3>2. gone[from] = disk[from]
      BY <3>1, <2>1, HoldersInRange DEF Keeps
    <3>3. from \in Holders(gone)
      BY <2>1, <3>2 DEF Holders
    <3>. HIDE DEF gone, freed
    <3>. QED BY <2>6, <3>2, <3>3 DEF Keeps, OwnChains
  <2>8. LastName(dest) \in Names \union {NoName}
    BY PathType
  <2>. HIDE DEF gone, freed, d
  <2>9. Keeps(freed, d, root)
    BY <2>1, <2>2, <2>6, <2>7, <2>8, Move DEF d
  <2>. QED BY <2>5, <2>9, BecomeKept
<1>. QED BY <1>1, <1>2 DEF RenameOver

LEMMA RenameToKept ==
    ASSUME Keeps(fat, disk, root), NEW src \in Seq(Names), src # <<>>, NEW dest \in Seq(Names),
           NEW from \in Resolve(src), RenameTo(dest, from)
    PROVE  KeepsNext
<1>. DEFINE entry == disk[from]
<1>1. /\ from \in Holders(disk) /\ EntryAt(from) = entry /\ from # RootOffset
      /\ entry \in Entry /\ entry.type \in {"file", "dir"}
  BY ResolvedHolds DEF Keeps, Entry
<1>2. PICK made \in NewFile(dest, 0, entry.type, TRUE) :
          IF made.ret # "OK" THEN Become(made)
          ELSE Become([made EXCEPT !.disk = Moved(@, entry, from, made.offset, LastName(dest))])
  BY <1>1 DEF RenameTo
<1>. HIDE DEF entry
<1>3. Kept(made, TRUE)
  BY <1>1, <1>2, NewFileKept
<1>4. CASE made.ret # "OK"
  BY <1>2, <1>3, <1>4, BecomeKept DEF Kept
<1>5. CASE made.ret = "OK"
  <2>. DEFINE d == Moved(made.disk, entry, from, made.offset, LastName(dest))
  <2>1. fat' = made.fat /\ root' = made.root /\ disk' \in {made.disk, d}
    BY <1>2, <1>5 DEF Become, Leave
  <2>2. /\ Keeps(made.fat, made.disk, made.root) /\ Grows(made.fat) /\ made.offset # RootOffset
        /\ \A x \in Holders(made.disk) : x \in Holders(disk) /\ made.disk[x].start = disk[x].start
    BY <1>3, <1>5 DEF Kept
  <2>3. Chained(made.fat, entry) /\ Keeps(made.fat, disk, root)
    BY <1>1, <2>2, GrownChains DEF entry
  <2>4. \A x \in Holders(made.disk) :
            x # from => Chain(made.fat, entry.start) \cap Chain(made.fat, made.disk[x].start) = {}
    BY <1>1, <2>2, <2>3 DEF Keeps, OwnChains, entry
  <2>5. LastName(dest) \in Names \union {NoName}
    BY PathType
  <2>6. Keeps(made.fat, d, made.root)
    BY <1>1, <2>2, <2>3, <2>4, <2>5, Move
  <2>. HIDE DEF d
  <2>. QED BY <2>1, <2>2, <2>6 DEF KeepsNext
<1>. QED BY <1>4, <1>5

LEMMA RenameKept ==
    ASSUME Keeps(fat, disk, root), NEW src \in Seq(Names), src # <<>>, NEW dest \in Seq(Names),
           Rename(src, dest)
    PROVE  KeepsNext
<1>1. CASE NotFound(src)
  BY <1>1, NotFoundKept
<1>2. CASE Fail(Find(dest))
  BY <1>2, UnchangedKept DEF Fail
<1>3. CASE \E from \in Resolve(src) : RenameTo(dest, from)
  BY <1>3, RenameToKept
<1>4. CASE \E from \in Resolve(src), to \in Resolve(dest) : RenameOver(dest, from, to)
  BY <1>4, RenameOverKept
<1>. QED BY <1>1, <1>2, <1>3, <1>4 DEF Rename

LEMMA TruncateKept ==
    ASSUME Keeps(fat, disk, root), NEW path \in Seq(Names), NEW size \in Nat, Truncate(path, size)
    PROVE  KeepsNext
<1>1. CASE NotFound(path)
  BY <1>1, NotFoundKept
<1>2. ASSUME NEW o \in Resolve(path), NEW resized \in Resize(EntryAt(o), o, size), Become(resized)
      PROVE  KeepsNext
  <2>1. o \in Holders(disk) /\ EntryAt(o) = disk[o]
    BY ResolvedHolds
  <2>2. Keeps(resized.fat, resized.disk, resized.root)
    BY <1>2, <2>1, ResizeKept
  <2>. QED BY <1>2, <2>2, BecomeKept
<1>. QED BY <1>1, <1>2 DEF Truncate

\* What resize may do, seen from outside.
LEMMA ResizeIs ==
    ASSUME NEW entry, NEW o, NEW size, NEW resized \in Resize(entry, o, size)
    PROVE  \/ entry.length = size /\ resized = Failure("OK", fat)
           \/ resized = Failure("ENOSPC", fat)
           \/ \E table, d : resized = Save(table, d, entry, o, size)
                            /\ (d = disk \/ \E zero \in ZeroOutFree(entry, size) : d = zero.disk)
           \/ \E zero \in ZeroOutFree(entry, size) :
                 zero.ret # "OK" /\ resized = [ret |-> zero.ret, fat |-> fat, disk |-> zero.disk,
                                               root |-> root]
<1>. DEFINE new == BlocksFor(size)
            old == ChainLength(fat, entry.start)
            missing == new - old
            stopped(zero) == [ret |-> zero.ret, fat |-> fat, disk |-> zero.disk, root |-> root]
            save(table, zero) == IF zero.ret = "OK" THEN Save(table, zero.disk, entry, o, size)
                                 ELSE stopped(zero)
<1>. HIDE DEF new, old, missing, stopped
<1>1. \/ entry.length = size /\ resized = Failure("OK", fat)
      \/ resized = Failure("ENOSPC", fat)
      \/ \E table : resized = Save(table, disk, entry, o, size)
      \/ \E table : \E zero \in ZeroOutFree(entry, size) : resized = save(table, zero)
  <2>1. CASE entry.length = size
    BY <2>1 DEF Resize
  <2>2. CASE entry.length # size /\ size = 0
    BY <2>2 DEF Resize
  <2>3. CASE entry.length # size /\ size # 0 /\ new = old
    <3>1. \E zero \in ZeroOutFree(entry, size) : resized = save(fat, zero)
      BY <2>3 DEF Resize, new, old, stopped
    <3>. QED BY <3>1
  <2>4. CASE entry.length # size /\ size # 0 /\ new # old /\ new < old
    <3>1. \E zero \in ZeroOutFree(entry, size) :
              resized = save(Shrink(fat, entry.start, new), zero)
      BY <2>4 DEF Resize, new, old, stopped
    <3>. QED BY <3>1
  <2>5. CASE entry.length # size /\ size # 0 /\ new # old /\ ~(new < old)
    <3>1. resized \in IF ~HasFree(fat, missing) THEN {Failure("ENOSPC", fat)}
                      ELSE {Save(Extend(fat, tail, taken, missing), disk, entry, o, size) :
                               tail \in Tails(fat, entry.start), taken \in LowestFree(fat, missing)}
      BY <2>5 DEF Resize, new, old, missing
    <3>. QED BY <3>1
  <2>. QED BY <2>1, <2>2, <2>3, <2>4, <2>5
<1>. QED BY <1>1 DEF stopped

\* Where resize succeeds, the entry has its new length.
LEMMA ResizeLengthens ==
    ASSUME Inv, NEW o \in Offsets, NEW size \in Nat, NEW resized \in Resize(disk[o], o, size),
           resized.ret = "OK"
    PROVE  resized.disk[o] = [disk[o] EXCEPT !.length = size]
<1>. DEFINE entry == disk[o]
            saved == [entry EXCEPT !.length = size]
<1>1. entry \in Entry /\ disk \in [Offsets -> Entry]
  BY DEF Inv
<1>2. entry.length = size => entry = saved
  BY <1>1 DEF Entry
<1>3. ASSUME NEW table, NEW d \in [Offsets -> Entry], resized = Save(table, d, entry, o, size)
      PROVE  resized.disk[o] = saved
  <2>1. resized.disk = WriteEntry(d, o, saved)
    BY <1>3 DEF Save
  <2>. HIDE DEF saved
  <2>2. RootOffset + 1 # RootOffset
    BY RootInRange DEF Offsets
  <2>. QED BY <2>1, <2>2 DEF WriteEntry
<1>4. \A zero \in ZeroOutFree(entry, size) : zero.ret \in {"OK", "PANIC"} /\ zero.disk \in [Offsets -> Entry]
  BY ZeroOutFreeType
<1>. HIDE DEF entry, saved
<1>5. \/ entry.length = size /\ resized = Failure("OK", fat)
      \/ resized = Failure("ENOSPC", fat)
      \/ \E table, d : resized = Save(table, d, entry, o, size)
                       /\ (d = disk \/ \E zero \in ZeroOutFree(entry, size) : d = zero.disk)
      \/ \E zero \in ZeroOutFree(entry, size) :
            zero.ret # "OK" /\ resized = [ret |-> zero.ret, fat |-> fat, disk |-> zero.disk,
                                          root |-> root]
  BY ResizeIs DEF entry
<1>6. CASE entry.length = size /\ resized = Failure("OK", fat)
  BY <1>2, <1>6 DEF Failure, entry, saved
<1>7. CASE \E table, d : resized = Save(table, d, entry, o, size)
                         /\ (d = disk \/ \E zero \in ZeroOutFree(entry, size) : d = zero.disk)
  <2>1. PICK table, d : resized = Save(table, d, entry, o, size)
                        /\ (d = disk \/ \E zero \in ZeroOutFree(entry, size) : d = zero.disk)
    BY <1>7
  <2>2. d \in [Offsets -> Entry]
    BY <1>1, <1>4, <2>1
  <2>. QED BY <1>3, <2>1, <2>2 DEF entry, saved
<1>. QED BY <1>5, <1>6, <1>7 DEF Failure

\* It leaves a table, a disk and a root, of which Fill replaces two.
IsOutcome(outcome) ==
    outcome = [ret |-> outcome.ret, fat |-> outcome.fat, disk |-> outcome.disk,
               root |-> outcome.root]

LEMMA ResizeOutcome ==
    ASSUME NEW entry, NEW o, NEW size, NEW resized \in Resize(entry, o, size)
    PROVE  IsOutcome(resized)
<1>1. ASSUME NEW code, resized = Failure(code, fat) PROVE IsOutcome(resized)
  BY <1>1 DEF Failure, IsOutcome
<1>2. ASSUME NEW table, NEW d1, resized = Save(table, d1, entry, o, size) PROVE IsOutcome(resized)
  <2>. DEFINE d3 == WriteEntry(d1, o, [entry EXCEPT !.length = size])
              cached3 == CacheEntry(root, [entry EXCEPT !.length = size])
  <2>1. resized = [ret |-> "OK", fat |-> table, disk |-> d3, root |-> cached3]
    BY <1>2 DEF Save
  <2>. HIDE DEF d3, cached3
  <2>. QED BY <2>1 DEF IsOutcome
<1>3. ASSUME NEW zero,
             resized = [ret |-> zero.ret, fat |-> fat, disk |-> zero.disk, root |-> root]
      PROVE  IsOutcome(resized)
  BY <1>3 DEF IsOutcome
<1>4. \/ \E code : resized = Failure(code, fat)
      \/ \E table, d1 : resized = Save(table, d1, entry, o, size)
      \/ \E zero : resized = [ret |-> zero.ret, fat |-> fat, disk |-> zero.disk, root |-> root]
  BY ResizeIs
<1>. QED BY <1>1, <1>2, <1>3, <1>4

\* An offset on the blocks of a chain.
Inside(table, start, x) ==
    \E b \in Chain(table, start), j \in 0 .. EntriesPerBlock - 1 : x = b * EntriesPerBlock + j

\* What is written to a file lands in its blocks.
Lands(table, d, file, pieces, d2) ==
    \A x \in Offsets : d2[x] = d[x] \/ (d2[x] \in pieces /\ Inside(table, file.start, x))

LEMMA OverwrittenIn ==
    ASSUME NEW table \in [Blocks -> Links], NEW file, NEW p, NEW n, Follows(table, file.start, p, n),
           NEW d \in [Offsets -> Entry], NEW size \in Nat, NEW pieces,
           NEW d2 \in Overwritten(table, d, file, size, pieces)
    PROVE  Lands(table, d, file, pieces, d2)
<1>. DEFINE written == Offsets \cap {SlotOffset(table, file, i) : i \in 0 .. size - 1}
<1>1. PICK piece \in [written -> pieces] :
          d2 = [o \in Offsets |-> IF o \in written THEN piece[o] ELSE d[o]]
  BY DEF Overwritten
<1>2. ASSUME NEW x \in written PROVE Inside(table, file.start, x)
  <2>1. PICK i \in 0 .. size - 1 : x = SlotOffset(table, file, i)
    BY <1>2
  <2>. DEFINE k == i \div EntriesPerBlock
              j == i % EntriesPerBlock
              b == Hop(table, file.start, k)
  <2>2. k \in Nat /\ j \in 0 .. EntriesPerBlock - 1
    <3>1. \A m, e \in Nat : e >= 2 => m \div e \in Nat /\ m % e \in 0 .. e - 1
      BY Z3
    <3>2. i \in Nat
      OBVIOUS
    <3>. QED BY <3>1, <3>2, NamespaceAssumption DEF k, j
  <2>3. x = b * EntriesPerBlock + j
    BY <2>1 DEF SlotOffset
  <2>. HIDE DEF k, j
  <2>4. b = IF k < n THEN p[k + 1] ELSE FINAL
    BY <2>2, FollowedHop
  <2>. HIDE DEF b
  <2>5. k < n
    <3>1. SUFFICES ASSUME b = FINAL PROVE FALSE
      BY <2>4
    <3>2. \A e, r \in Nat : r < e => ~((-2) * e + r >= 0)
      BY Z3
    <3>3. j \in Nat /\ j < EntriesPerBlock /\ EntriesPerBlock \in Nat
      BY <2>2, NamespaceAssumption
    <3>4. x >= 0
      BY DEF Offsets
    <3>. QED BY <2>3, <3>1, <3>2, <3>3, <3>4 DEF FINAL
  <2>6. n \in Nat /\ k + 1 \in 1 .. n
    BY <2>2, <2>5 DEF Follows
  <2>7. b \in Chain(table, file.start)
    BY <2>4, <2>5, <2>6, FollowedChain
  <2>. QED BY <2>2, <2>3, <2>7 DEF Inside
<1>. HIDE DEF written
<1>. QED BY <1>1, <1>2 DEF Lands

\* Bytes that own nothing, written to what an entry owns, take no block from any other.
LEMMA FillKept ==
    ASSUME NEW t, NEW d, NEW cached, Keeps(t, d, cached), NEW o \in Holders(d), NEW size \in Nat,
           NEW d1 \in Overwritten(t, d, d[o], size, Harmless)
    PROVE  Keeps(t, WriteEntry(d1, o, d[o]), CacheEntry(cached, d[o]))
<1>. DEFINE file == d[o]
            d2 == WriteEntry(d1, o, file)
<1>1. /\ t \in [Blocks -> Links] /\ d \in [Offsets -> Entry] /\ o \in Offsets /\ file \in Entry
      /\ RootKept(d, cached) /\ Chained(t, file)
  BY HoldersInRange DEF Keeps, Table, OwnChains
<1>2. d1 \in [Offsets -> Entry]
  <2>1. Harmless \subseteq Entry
    BY ContentsAssumption DEF Harmless
  <2>. QED BY <1>1, <2>1, OverwrittenType
<1>3. PICK p, n : Follows(t, file.start, p, n)
  BY <1>1 DEF Chained
<1>4. ASSUME NEW x \in Offsets
      PROVE  d1[x] = d[x] \/ (d1[x].start = FREE /\ Inside(t, file.start, x))
  <2>1. d1[x] = d[x] \/ (d1[x] \in Harmless /\ Inside(t, file.start, x))
    <3>1. d1 \in Overwritten(t, d, file, size, Harmless)
      OBVIOUS
    <3>. HIDE DEF file
    <3>2. Lands(t, d, file, Harmless, d1)
      BY <1>1, <1>3, <3>1, OverwrittenIn
    <3>. QED BY <3>2 DEF Lands
  <2>. QED BY <2>1 DEF Harmless
<1>. HIDE DEF file
<1>5. CacheEntry(cached, file) = cached
  <2>1. cached \in Entry /\ cached = d[RootOffset]
    BY <1>1, RootHolds DEF RootKept
  <2>2. CASE o = RootOffset
    <3>1. [cached EXCEPT !.length = cached.length] = cached
      BY <2>1 DEF Entry
    <3>. QED BY <2>1, <2>2, <3>1 DEF CacheEntry, file
  <2>3. CASE o # RootOffset
    <3>1. file.start # RootBlock
      BY <2>3, RootIsAlone DEF file
    <3>. QED BY <3>1 DEF CacheEntry
  <2>. QED BY <2>2, <2>3
<1>6. /\ d2 \in [Offsets -> Entry] /\ d2[o] = file
      /\ \A x \in Offsets : x # o => d2[x] = d1[x] \/ (o = RootOffset /\ d2[x].name = DotDot)
  <2>1. d2 \in [Offsets -> Entry]
    BY <1>1, <1>2, WriteEntryType
  <2>2. RootOffset + 1 # RootOffset
    BY RootInRange DEF Offsets
  <2>3. [file EXCEPT !.name = DotDot].name = DotDot
    BY <1>1 DEF Entry
  <2>. QED BY <1>1, <1>2, <2>1, <2>2, <2>3 DEF WriteEntry
<1>7. d2[RootOffset] = d[RootOffset]
  <2>1. CASE o = RootOffset
    BY <1>6, <2>1 DEF file
  <2>2. CASE o # RootOffset
    <3>1. d2[RootOffset] = d1[RootOffset]
      BY <1>6, <2>2, RootHolds
    <3>2. SUFFICES ASSUME NEW b \in Chain(t, file.start), NEW j \in 0 .. EntriesPerBlock - 1,
                          RootOffset = b * EntriesPerBlock + j
                   PROVE  FALSE
      BY <1>4, <3>1, RootHolds DEF Inside
    <3>3. b \in DataBlocks /\ b \in Int
      BY <1>1, HolderChain, BlockAssumption DEF DataBlocks, RootBlock
    <3>4. j = 0
      <4>1. j = 0 \/ j \in 1 .. EntriesPerBlock - 1
        BY NamespaceAssumption
      <4>. QED BY <3>2, <3>3, <4>1, OffsetInside
    <3>5. b = RootBlock
      <4>1. b * EntriesPerBlock + 0 = b * EntriesPerBlock
        BY <3>3, NamespaceAssumption
      <4>. QED BY <3>2, <3>3, <3>4, <4>1, OffsetOfBlock
    <3>6. RootBlock \in Chain(t, d[RootOffset].start)
      BY <1>1, RootHolds, HolderChain DEF Keeps, OwnChains, RootKept
    <3>7. Chain(t, file.start) \cap Chain(t, d[RootOffset].start) = {}
      BY <2>2, RootHolds DEF Keeps, OwnChains, file
    <3>. QED BY <3>2, <3>5, <3>6, <3>7
  <2>. QED BY <2>1, <2>2
<1>8. \A x \in Offsets : \/ d2[x] = d[x]
                         \/ d2[x].start = FREE \/ d2[x].name \in {Dot, DotDot}
  <2>1. ASSUME NEW x \in Offsets, x # o
        PROVE  d2[x] = d[x] \/ d2[x].start = FREE \/ d2[x].name \in {Dot, DotDot}
    BY <1>4, <1>6, <2>1
  <2>. QED BY <1>6, <2>1 DEF file
<1>. HIDE DEF d2
<1>9. Keeps(t, d2, cached)
  BY <1>6, <1>7, <1>8, Lose
<1>. QED BY <1>5, <1>9 DEF file, d2

LEMMA WriteKept ==
    ASSUME Inv, Keeps(fat, disk, root), NEW path \in Seq(Names), NEW size \in Nat,
           Write(path, size, Harmless)
    PROVE  KeepsNext
<1>1. CASE NotFound(path)
  BY <1>1, NotFoundKept
<1>2. ASSUME NEW o \in Resolve(path), Writes(o, size, Harmless) PROVE KeepsNext
  <2>1. o \in Holders(disk) /\ EntryAt(o) = disk[o] /\ disk[o] \in Entry /\ o \in Offsets
    BY ResolvedHolds, HoldersInRange DEF Keeps
  <2>. DEFINE length == Enlarged(disk[o], size)
              file == [disk[o] EXCEPT !.length = length]
  <2>2. length \in Nat
    BY <2>1, EnlargedType
  <2>3. PICK resized \in Resize(disk[o], o, length) :
            \E filled \in Fill(resized, file, o, size, Harmless) : Leave(filled)
    BY <1>2, <2>1 DEF Writes
  <2>4. PICK filled \in Fill(resized, file, o, size, Harmless) : Leave(filled)
    BY <2>3
  <2>. HIDE DEF length
  <2>5. Keeps(resized.fat, resized.disk, resized.root)
    BY <2>1, <2>2, ResizeKept
  <2>6. CASE resized.ret # "OK"
    BY <2>4, <2>5, <2>6, LeaveKept DEF Fill
  <2>7. CASE resized.ret = "OK"
    <3>1. resized.disk[o] = file
      BY <2>1, <2>2, <2>7, ResizeLengthens
    <3>2. o \in Holders(resized.disk)
      <4>1. file.start = disk[o].start /\ file.name = disk[o].name
        BY <2>1 DEF Entry
      <4>. QED BY <2>1, <3>1, <4>1 DEF Holders
    <3>. HIDE DEF file
    <3>3. PICK d \in Overwritten(resized.fat, resized.disk, file, size, Harmless) :
              filled = [resized EXCEPT !.disk = WriteEntry(d, o, file),
                                       !.root = CacheEntry(@, file)]
      BY <2>4, <2>7 DEF Fill
    <3>4. Keeps(resized.fat, WriteEntry(d, o, file), CacheEntry(resized.root, file))
      BY <2>5, <3>1, <3>2, <3>3, FillKept
    <3>5. fat' = filled.fat /\ disk' = filled.disk /\ root' = filled.root
      BY <2>4 DEF Leave
    <3>. DEFINE d2 == WriteEntry(d, o, file)
                cached2 == CacheEntry(resized.root, file)
    <3>6. filled = [resized EXCEPT !.disk = d2, !.root = cached2]
      BY <3>3
    <3>. HIDE DEF d2, cached2
    <3>7. filled = [ret |-> resized.ret, fat |-> resized.fat, disk |-> d2, root |-> cached2]
      <4>1. IsOutcome(resized)
        BY ResizeOutcome
      <4>. QED BY <3>6, <4>1 DEF IsOutcome
    <3>. QED BY <3>4, <3>5, <3>7 DEF d2, cached2, KeepsNext
  <2>. QED BY <2>6, <2>7
<1>. QED BY <1>1, <1>2, WriteIs

LEMMA TouchKept ==
    ASSUME Keeps(fat, disk, root), NEW path \in Seq(Names), NEW o \in Resolve(path), NEW time,
           Touch(o, time)
    PROVE  KeepsNext
<1>1. o \in Holders(disk) /\ EntryAt(o) = disk[o] /\ EntryAt(o) \in Entry /\ Chained(fat, disk[o])
  BY ResolvedHolds DEF Keeps, OwnChains
<1>2. Keeps(fat, WriteEntry(disk, o, EntryAt(o)), CacheEntry(root, EntryAt(o)))
  BY <1>1, Rewrite
<1>. DEFINE d2 == WriteEntry(disk, o, EntryAt(o))
            cached2 == CacheEntry(root, EntryAt(o))
<1>3. Leave([ret |-> "OK", fat |-> fat, disk |-> d2, root |-> cached2])
  BY DEF Touch
<1>. HIDE DEF d2, cached2
<1>4. fat' = fat /\ disk' = d2 /\ root' = cached2
  BY <1>3 DEF Leave
<1>. QED BY <1>2, <1>4 DEF KeepsNext, d2, cached2

LEMMA UtimensKept ==
    ASSUME Keeps(fat, disk, root), NEW path \in Seq(Names), NEW time, Utimens(path, time)
    PROVE  KeepsNext
<1>1. CASE NotFound(path)
  BY <1>1, NotFoundKept
<1>2. CASE \E o \in Resolve(path) : Touch(o, time)
  BY <1>2, TouchKept
<1>. QED BY <1>1, <1>2 DEF Utimens

LEMMA ReadKept ==
    ASSUME Keeps(fat, disk, root), NEW path \in Seq(Names), Read(path) PROVE KeepsNext
<1>1. CASE NotFound(path)
  BY <1>1, NotFoundKept
<1>2. CASE \E code : Fail(code)
  BY <1>2, UnchangedKept DEF Fail
<1>3. CASE \E o \in Resolve(path) : Touch(o, times.cached)
  BY <1>3, TouchKept
<1>. QED BY <1>1, <1>2, <1>3 DEF Read

LEMMA RestartKept == ASSUME Keeps(fat, disk, root), Restart PROVE KeepsNext
BY DEF Restart, KeepsNext, Keeps, RootKept

LEMMA InitKept == Init => Keeps(fat, disk, root)
<1>. SUFFICES ASSUME Init PROVE Keeps(fat, disk, root)
  OBVIOUS
<1>1. disk \in [Offsets -> Entry] /\ Table(fat)
  BY InitInv DEF Inv
<1>2. Marked(fat)
  BY BlockAssumption DEF Init, InitFAT, Marked, Blocks
<1>3. disk[RootOffset] = NewRoot /\ root = NewRoot /\ RootOffset # RootOffset + 1
  BY RootInRange DEF Init, WriteEntry, Offsets
<1>4. \A o \in Offsets : o # RootOffset => disk[o].start = FREE \/ disk[o].name = DotDot
  BY DEF Init, WriteEntry, Nothing, NewRoot
<1>5. Holders(disk) = {RootOffset}
  BY <1>4, RootInRange DEF Holders
<1>6. NewRoot \in Entry /\ NewRoot.start = RootBlock /\ RootBlock \in DataBlocks
      /\ RootBlock \in Blocks /\ RootBlock > FatBlocks
  BY EntryType, BlockAssumption DEF NewRoot, DataBlocks, RootBlock, Blocks
<1>7. fat[RootBlock] = FINAL
  BY <1>6, BlockAssumption DEF Init, InitFAT, RootBlock
<1>8. Chained(fat, disk[RootOffset])
  BY <1>3, <1>6, <1>7, SingleChain
<1>9. RootKept(disk, root)
  BY <1>3 DEF RootKept, NewRoot
<1>. QED BY <1>1, <1>2, <1>5, <1>8, <1>9 DEF Keeps, OwnChains

\* The invariant of the theorems below.
Ordered == Inv /\ Keeps(fat, disk, root)

LEMMA NextKept == Ordered /\ [Next]_vars => Ordered'
<1>. SUFFICES ASSUME Inv, Keeps(fat, disk, root), [Next]_vars PROVE KeepsNext
  BY NextInv DEF Ordered, KeepsNext, AnyNext
<1>. USE NamespaceAssumption
<1>1. ASSUME NEW path \in Paths, Create(path) PROVE KeepsNext
  BY <1>1, CreateKept
<1>2. ASSUME NEW path \in Paths, Mkdir(path) PROVE KeepsNext
  BY <1>2, MkdirKept
<1>3. ASSUME NEW path \in Paths, Unlink(path) PROVE KeepsNext
  BY <1>3, UnlinkKept
<1>4. ASSUME NEW path \in Paths, Rmdir(path) PROVE KeepsNext
  BY <1>4, RmdirKept
<1>5. ASSUME NEW path \in Paths, NEW time \in Times, Utimens(path, time) PROVE KeepsNext
  BY <1>5, UtimensKept
<1>10. ASSUME NEW path \in Paths, Read(path) PROVE KeepsNext
  BY <1>10, ReadKept
<1>11. ASSUME NEW path \in Paths, NEW size \in Sizes, Write(path, size, Harmless) PROVE KeepsNext
  BY <1>11, WriteKept
<1>6. ASSUME NEW path \in Paths, NEW size \in Sizes, Truncate(path, size) PROVE KeepsNext
  BY <1>6, TruncateKept
<1>7. ASSUME NEW src \in Paths \ {<<>>}, NEW dest \in Paths, Rename(src, dest) PROVE KeepsNext
  BY <1>7, RenameKept
<1>8. CASE Restart
  BY <1>8, RestartKept
<1>9. CASE UNCHANGED vars
  BY <1>9, UnchangedKept DEF vars
<1>. QED BY <1>1, <1>2, <1>3, <1>4, <1>5, <1>6, <1>7, <1>8, <1>9, <1>10, <1>11
         DEF Next, ShellNext

-----------------------------------------------------------------------------
(* What paths lead to.                                                     *)

\* The nodes of the tree that can exist: each leads to an owner.
Reachable == [path : Seq(Names \union {Dot, DotDot, NoName}), offset : Holders(disk)]

LEMMA ChildrenHold ==
    ASSUME Keeps(fat, disk, root), NEW dir, NEW o \in Children(dir)
    PROVE  o \in Holders(disk) /\ disk[o].name \in Names \union {Dot, DotDot, NoName}
<1>1. o \in Offsets /\ disk[o].name \notin {Dot, DotDot} /\ disk[o].start # FREE
  BY DEF Children, IsFree
<1>2. disk[o] \in Entry
  BY <1>1 DEF Keeps
<1>. QED BY <1>1, <1>2 DEF Holders, Entry

LEMMA LiveHold == ASSUME Keeps(fat, disk, root) PROVE Live \subseteq Holders(disk)
<1>. DEFINE below(node) ==
                {[path |-> Append(node.path, disk[o].name), offset |-> o]
                    : o \in Children(EntryAt(node.offset))}
            first == {[path |-> <<>>, offset |-> RootOffset]}
            next(nodes) == UNION {below(node) : node \in nodes}
            level[depth \in 0 .. BlockCount] == IF depth = 0 THEN first ELSE next(level[depth - 1])
            Levels == SUBSET Reachable
            step == [k \in Nat |-> [nodes \in Levels |-> next(nodes)]]
<1>1. first \in Levels
  BY RootHolds DEF Reachable
<1>2. \A nodes \in Levels : next(nodes) \in Levels
  <2>1. SUFFICES ASSUME NEW node \in Reachable, NEW o \in Children(EntryAt(node.offset))
                 PROVE  [path |-> Append(node.path, disk[o].name), offset |-> o] \in Reachable
    OBVIOUS
  <2>2. o \in Holders(disk) /\ disk[o].name \in Names \union {Dot, DotDot, NoName}
    BY ChildrenHold
  <2>3. node.path \in Seq(Names \union {Dot, DotDot, NoName})
    BY DEF Reachable
  <2>4. Append(node.path, disk[o].name) \in Seq(Names \union {Dot, DotDot, NoName})
    BY <2>2, <2>3
  <2>. QED BY <2>2, <2>4 DEF Reachable
<1>. HIDE DEF first, next, Levels
<1>3. step \in [Nat -> [Levels -> Levels]]
  BY <1>2
<1>4. BlockCount \in Nat
  BY BlockAssumption
<1>5. PICK f \in [0 .. BlockCount -> Levels] : Run(f, first, step, BlockCount)
  <2>. HIDE DEF step
  <2>. QED BY <1>1, <1>3, <1>4, Iteration
<1>6. f = [depth \in 0 .. BlockCount |-> IF depth = 0 THEN first ELSE next(f[depth - 1])]
  <2>1. ASSUME NEW k \in 0 .. BlockCount PROVE f[k] = IF k = 0 THEN first ELSE next(f[k - 1])
    <3>1. CASE k = 0
      BY <1>5, <3>1 DEF Run
    <3>2. CASE k # 0
      <4>1. k \in 1 .. BlockCount /\ k - 1 \in 0 .. BlockCount /\ k \in Nat
        BY <1>4, <3>2
      <4>2. f[k - 1] \in Levels
        BY <4>1
      <4>3. f[k] = step[k][f[k - 1]]
        BY <1>5, <4>1 DEF Run
      <4>. QED BY <3>2, <4>1, <4>2, <4>3
    <3>. QED BY <3>1, <3>2
  <2>. QED BY <2>1
<1>7. level = [depth \in 0 .. BlockCount |-> IF depth = 0 THEN first ELSE next(level[depth - 1])]
  BY <1>6 DEF level
<1>8. \A k \in 0 .. BlockCount : level[k] \in Levels
  <2>. DEFINE S == {k \in Nat : k \in 0 .. BlockCount => level[k] \in Levels}
  <2>. HIDE DEF level
  <2>1. 0 \in S
    BY <1>1, <1>7
  <2>2. ASSUME NEW k \in Nat, k \in S PROVE k + 1 \in S
    <3>1. SUFFICES ASSUME k + 1 \in 0 .. BlockCount PROVE level[k + 1] \in Levels
      OBVIOUS
    <3>2. level[k] \in Levels
      BY <1>4, <2>2, <3>1
    <3>3. k + 1 # 0 /\ (k + 1) - 1 = k
      OBVIOUS
    <3>4. level[k + 1] = next(level[(k + 1) - 1])
      BY <1>7, <3>1, <3>3, Zenon
    <3>. QED BY <1>2, <3>2, <3>3, <3>4
  <2>3. Nat \subseteq S
    <3>. HIDE DEF S
    <3>. QED BY <2>1, <2>2, SetInduction
  <2>. QED BY <2>3
<1>9. Nodes = UNION {level[depth] : depth \in 0 .. BlockCount}
  BY Zenon DEF Nodes, level, first, next, below
<1>. HIDE DEF level
<1>10. Nodes \subseteq Reachable
  BY <1>8, <1>9 DEF Levels
<1>. QED BY <1>10 DEF Live, Reachable

-----------------------------------------------------------------------------
(* The theorems about that order.                                          *)

LEMMA OrderedRoot == Ordered => RootCacheCoherent
BY DEF Ordered, Keeps, RootKept, RootCacheCoherent

LEMMA OrderedBlocks == Ordered => NoSharedBlocks
<1>1. SUFFICES ASSUME Keeps(fat, disk, root), NEW o \in Live, NEW p \in Live, o # p
               PROVE  Chain(fat, EntryAt(o).start) \cap Chain(fat, EntryAt(p).start) = {}
  BY DEF Ordered, NoSharedBlocks
<1>2. o \in Holders(disk) /\ p \in Holders(disk)
  BY <1>1, LiveHold
<1>3. EntryAt(o) = disk[o] /\ EntryAt(p) = disk[p]
  BY <1>1, <1>2, RootFound, HoldersInRange
<1>. QED BY <1>1, <1>2, <1>3 DEF Keeps, OwnChains

\* A directory with as many blocks as its length needs ends in the last of them.
LEMMA NothingBehind ==
    ASSUME Keeps(fat, disk, root), NEW dir \in Entry, Chained(fat, dir),
           dir.length > 0, DirStatus(fat, dir) = "OK"
    PROVE  fat[Hop(fat, dir.start, BlocksFor(dir.length) - 1)] = FINAL
<1>. DEFINE needed == BlocksFor(dir.length)
<1>1. dir.type = "dir" /\ \A i \in 1 .. needed - 1 : Hop(fat, dir.start, i) # FINAL
  BY DEF DirStatus
<1>2. PICK p, n : Follows(fat, dir.start, p, n) /\ n <= needed
  BY <1>1 DEF Chained
<1>3. n \in Nat \ {0} /\ fat[p[n]] = FINAL /\ fat \in [Blocks -> Links]
  BY <1>2 DEF Follows, Keeps, Table
<1>4. needed \in Nat
  BY BlocksForMore DEF Entry
<1>5. n = needed
  <2>1. SUFFICES ASSUME n < needed PROVE FALSE
    BY <1>2, <1>3, <1>4
  <2>2. n \in 1 .. needed - 1 /\ n \in Nat /\ ~(n < n)
    BY <1>3, <1>4, <2>1
  <2>. HIDE DEF needed
  <2>3. Hop(fat, dir.start, n) = FINAL
    BY <1>2, <1>3, <2>2, FollowedHop
  <2>. QED BY <1>1, <2>2, <2>3
<1>6. n - 1 \in Nat /\ n - 1 < n /\ (n - 1) + 1 = n
  BY <1>3
<1>. HIDE DEF needed
<1>7. Hop(fat, dir.start, n - 1) = p[n]
  BY <1>2, <1>3, <1>6, FollowedHop
<1>8. Hop(fat, dir.start, needed - 1) = p[n]
  BY <1>5, <1>7
<1>. QED BY <1>3, <1>8 DEF needed

LEMMA OrderedTable == Ordered => SoundTable
<1>1. SUFFICES ASSUME Keeps(fat, disk, root) PROVE ReservedIntact /\ ChainsTerminate /\ NothingToTrim
  BY DEF Ordered, SoundTable
<1>2. ASSUME NEW o \in Live PROVE EntryAt(o) = disk[o] /\ Chained(fat, disk[o]) /\ disk[o] \in Entry
  <2>1. o \in Holders(disk) /\ o \in Offsets
    BY <1>1, LiveHold, HoldersInRange
  <2>. QED BY <1>1, <2>1, RootFound DEF Keeps, OwnChains
<1>3. ReservedIntact
  BY <1>1, RootFound DEF Keeps, Marked, ReservedIntact
<1>4. ChainsTerminate
  BY <1>2, HolderChain DEF ChainsTerminate
<1>5. NothingToTrim
  <2>1. SUFFICES ASSUME NEW d \in Live, EntryAt(d).length > 0, DirStatus(fat, EntryAt(d)) = "OK"
                 PROVE  fat[Hop(fat, EntryAt(d).start, BlocksFor(EntryAt(d).length) - 1)] = FINAL
    BY DEF NothingToTrim, LiveDirs
  <2>. QED BY <1>1, <1>2, <2>1, NothingBehind
<1>. QED BY <1>3, <1>4, <1>5

LEMMA AlwaysOrdered == Spec => []Ordered
<1>1. Init => Ordered
  BY InitInv, InitKept DEF Ordered
<1>2. Ordered /\ [Next]_vars => Ordered'
  BY NextKept
<1>. QED BY <1>1, <1>2, PTL DEF Spec

\* The root entry the driver keeps in memory is the one on disk after every call, failing
\* ones and ones that ruin a directory included: a restart loses nothing.
THEOREM RootNeverStale == Spec => []RootCacheCoherent
<1>. QED BY AlwaysOrdered, OrderedRoot, PTL

\* No block is ever on the chains of two entries that paths lead to, however often
\* entries are removed, moved over others, cut short and grown again.
THEOREM BlocksNeverShared == Spec => []NoSharedBlocks
<1>. QED BY AlwaysOrdered, OrderedBlocks, PTL

\* The table's own blocks stay out of use, every chain that is in use ends at FINAL, and a
\* readable directory has no block behind its last one, so readFile has nothing to cut off.
THEOREM TableStaysSound == Spec => []SoundTable
<1>. QED BY AlwaysOrdered, OrderedTable, PTL

-----------------------------------------------------------------------------
(* The tree on the disk: its nodes, and what is in order about them.        *)

\* The first slot of a directory behind "." and "..", and where a slot lies.
First(o) == IF o = RootOffset THEN 2 ELSE 1
Slot(entry, i) == entry.start * EntriesPerBlock + i

\* The entry at c is listed in the directory at q, under the path its name makes; ".." of a
\* directory leads back to q.
Listed(d, at, q, c) ==
    /\ d[q].type = "dir"
    /\ \E i \in First(q) .. d[q].length - 1 : c = Slot(d[q], i)
    /\ d[c].name \in Names
    /\ at[c] = Append(at[q], d[c].name)
    /\ d[c].type = "dir" => /\ d[Slot(d[c], 0)].name = DotDot
                            /\ d[Slot(d[c], 0)].start = d[q].start

\* A directory stays within one block, and its slots hold nodes or nothing.
Kempt(d, H, o) ==
    d[o].type = "dir" =>
        /\ d[o].length \in First(o) .. EntriesPerBlock
        /\ \A i \in First(o) .. d[o].length - 1 :
              Slot(d[o], i) \in H \/ d[Slot(d[o], i)].start = FREE

\* The root, with its second name for itself.
Rooted(d, H, at) ==
    /\ RootOffset \in H /\ H \subseteq Offsets
    /\ at \in [H -> Seq(Names)] /\ at[RootOffset] = <<>>
    /\ d[RootOffset + 1] = [d[RootOffset] EXCEPT !.name = DotDot]

\* The nodes hang together, and no path leads to two of them.
Hangs(d, H, at) ==
    /\ Rooted(d, H, at)
    /\ \A o \in H : Kempt(d, H, o)
    /\ \A c \in H : c # RootOffset => \E q \in H : Listed(d, at, q, c)
    /\ \A x, y \in H : at[x] = at[y] => x = y

\* Every block that is not free is on the chain of one node, which has as many as it needs.
Owns(t, d, H) ==
    /\ \A o \in H : Exact(t, d[o])
    /\ \A x, y \in H : x # y => Chain(t, d[x].start) \cap Chain(t, d[y].start) = {}
    /\ \A b \in DataBlocks : t[b] = FREE \/ \E o \in H : b \in Chain(t, d[o].start)

Tidy(t, d, cached, H, at) ==
    /\ Table(t) /\ Marked(t) /\ d \in [Offsets -> Entry] /\ RootKept(d, cached)
    /\ Hangs(d, H, at)
    /\ Owns(t, d, H)

-----------------------------------------------------------------------------
(* Slots.                                                                   *)

\* Two slots of blocks are the same only if block and index are.
LEMMA SlotIsOne ==
    ASSUME NEW b \in Int, NEW c \in Int,
           NEW i \in 0 .. EntriesPerBlock - 1, NEW j \in 0 .. EntriesPerBlock - 1,
           b * EntriesPerBlock + i = c * EntriesPerBlock + j
    PROVE  b = c /\ i = j
<1>1. \A e, x, y \in Int : x < e /\ y < e /\ x >= 0 /\ y >= 0 /\ b * e + x = c * e + y => b = c /\ x = y
  BY Z3
<1>2. i \in Int /\ j \in Int /\ EntriesPerBlock \in Int /\ i < EntriesPerBlock /\ j < EntriesPerBlock /\ i >= 0 /\ j >= 0
  BY NamespaceAssumption
<1>. QED BY <1>1, <1>2

LEMMA SlotInRange ==
    ASSUME NEW b \in DataBlocks, NEW i \in 0 .. EntriesPerBlock - 1
    PROVE  b * EntriesPerBlock + i \in Offsets
<1>1. /\ i \in Int /\ i < EntriesPerBlock /\ i >= 0 /\ EntriesPerBlock \in Nat
      /\ BlockCount \in Nat /\ b < BlockCount /\ b \in Nat
  BY NamespaceAssumption, BlockAssumption DEF DataBlocks, RootBlock
<1>2. \A e, n, c \in Nat, x \in Int : c < n /\ x < e /\ x >= 0 => c * e + x < n * e
  <2>1. \A e, n, c \in Nat : c < n => (c + 1) * e <= n * e /\ (c + 1) * e = c * e + e
    BY Z3
  <2>2. \A e, c \in Nat : c * e \in Nat
    BY Z3
  <2>. QED BY <2>1, <2>2
<1>3. b * EntriesPerBlock + i < BlockCount * EntriesPerBlock
  BY <1>1, <1>2
<1>4. b * EntriesPerBlock \in Nat /\ BlockCount * EntriesPerBlock \in Nat
  <2>1. \A m, n \in Nat : m * n \in Nat
    BY Z3
  <2>. QED BY <1>1, <2>1
<1>. QED BY <1>1, <1>3, <1>4 DEF Offsets

\* A node's entry, its first block and its chain.
LEMMA NodeType ==
    ASSUME NEW t, NEW d, NEW cached, NEW H, NEW at, Tidy(t, d, cached, H, at), NEW o \in H
    PROVE  /\ o \in Offsets /\ d[o] \in Entry
           /\ d[o].start \in DataBlocks /\ t[d[o].start] # FREE
           /\ d[o].start \in Chain(t, d[o].start)
           /\ Chained(t, d[o])
           /\ at[o] \in Seq(Names)
<1>1. o \in Offsets /\ d[o] \in Entry /\ at[o] \in Seq(Names)
  BY DEF Tidy, Hangs, Rooted
<1>2. Chained(t, d[o])
  BY <1>1, ExactIsChained DEF Tidy, Owns
<1>. QED BY <1>1, <1>2, HolderChain

\* A directory has one block.
LEMMA DirectoryType ==
    ASSUME NEW t, NEW d, NEW cached, NEW H, NEW at, Tidy(t, d, cached, H, at),
           NEW q \in H, d[q].type = "dir"
    PROVE  /\ d[q].length \in Nat /\ d[q].length >= 1 /\ d[q].length <= EntriesPerBlock
           /\ First(q) \in {1, 2} /\ First(q) <= d[q].length
           /\ Needs(d[q]) = 1 /\ BlocksFor(d[q].length) = 1
           /\ t[d[q].start] = FINAL
           /\ Chain(t, d[q].start) = {d[q].start}
           /\ \A i \in 0 .. EntriesPerBlock - 1 : Slot(d[q], i) \in Offsets
           /\ Slot(d[q], 0) \in Offsets
           /\ \A i \in First(q) .. d[q].length - 1 : Slot(d[q], i) \in Offsets
<1>1. d[q].length \in First(q) .. EntriesPerBlock /\ First(q) \in {1, 2}
  BY DEF Tidy, Hangs, Kempt, First
<1>2. d[q].length \in Nat /\ d[q].length >= 1 /\ d[q].length <= EntriesPerBlock /\ First(q) <= d[q].length
  BY <1>1, NamespaceAssumption
<1>3. BlocksFor(d[q].length) = 1
  <2>1. \A e, l \in Nat : l >= 1 /\ l <= e => (l + e - 1) \div e = 1
    BY Z3
  <2>. QED BY <1>2, <2>1, NamespaceAssumption DEF BlocksFor
<1>4. Needs(d[q]) = 1
  BY <1>3 DEF Needs
<1>5. PICK p : Follows(t, d[q].start, p, 1)
  BY <1>4 DEF Tidy, Owns, Exact
<1>6. p[1] = d[q].start /\ t[p[1]] = FINAL /\ Chain(t, d[q].start) = {p[1]}
  <2>1. p[1] = d[q].start /\ t[p[1]] = FINAL
    BY <1>5 DEF Follows
  <2>2. Chain(t, d[q].start) = {p[i] : i \in 1 .. 1}
    BY <1>5, FollowedChain
  <2>. QED BY <2>1, <2>2
<1>7. \A i \in 0 .. EntriesPerBlock - 1 : Slot(d[q], i) \in Offsets
  BY NodeType, SlotInRange DEF Slot
<1>8. 0 \in 0 .. EntriesPerBlock - 1 /\ \A i \in First(q) .. d[q].length - 1 : i \in 0 .. EntriesPerBlock - 1
  BY <1>1, <1>2, NamespaceAssumption
<1>. QED BY <1>1, <1>2, <1>3, <1>4, <1>6, <1>7, <1>8

\* Different nodes start at different blocks.
LEMMA StartIsOne ==
    ASSUME NEW t, NEW d, NEW cached, NEW H, NEW at, Tidy(t, d, cached, H, at),
           NEW x \in H, NEW y \in H, d[x].start = d[y].start
    PROVE  x = y
BY NodeType DEF Tidy, Owns

\* A node but the root lies in a slot of exactly one directory.
LEMMA ParentIs ==
    ASSUME NEW t, NEW d, NEW cached, NEW H, NEW at, Tidy(t, d, cached, H, at),
           NEW c \in H, c # RootOffset
    PROVE  \E q \in H : /\ Listed(d, at, q, c)
                        /\ \E i \in First(q) .. d[q].length - 1 :
                              c = Slot(d[q], i) /\ i \in 1 .. EntriesPerBlock - 1
<1>1. PICK q \in H : Listed(d, at, q, c)
  BY DEF Tidy, Hangs
<1>2. PICK i \in First(q) .. d[q].length - 1 : c = Slot(d[q], i)
  BY <1>1 DEF Listed
<1>3. d[q].length \in Nat /\ d[q].length <= EntriesPerBlock /\ First(q) \in {1, 2}
  BY <1>1, DirectoryType DEF Listed
<1>4. i \in 1 .. EntriesPerBlock - 1
  BY <1>3, NamespaceAssumption
<1>. QED BY <1>1, <1>2, <1>4

LEMMA RootSlot == ASSUME NEW entry, entry.start = RootBlock PROVE Slot(entry, 0) = RootOffset
BY BlockAssumption, NamespaceAssumption DEF Slot, RootOffset, RootBlock

LEMMA RootType ==
    ASSUME NEW t, NEW d, NEW cached, NEW H, NEW at, Tidy(t, d, cached, H, at)
    PROVE  /\ RootOffset \in H /\ d[RootOffset].type = "dir" /\ d[RootOffset].start = RootBlock
           /\ cached = d[RootOffset] /\ d[RootOffset].name = Dot /\ at[RootOffset] = <<>>
           /\ RootBlock \in DataBlocks
           /\ RootOffset + 1 \in Offsets /\ RootOffset + 1 = Slot(d[RootOffset], 1)
<1>1. /\ RootOffset \in H /\ d[RootOffset].type = "dir" /\ d[RootOffset].start = RootBlock
      /\ cached = d[RootOffset] /\ d[RootOffset].name = Dot /\ at[RootOffset] = <<>>
  BY DEF Tidy, Hangs, Rooted, RootKept
<1>2. RootBlock \in DataBlocks
  BY BlockAssumption DEF DataBlocks, RootBlock
<1>3. 1 \in 0 .. EntriesPerBlock - 1
  BY NamespaceAssumption
<1>4. RootOffset + 1 = Slot(d[RootOffset], 1)
  BY <1>1 DEF Slot, RootOffset
<1>. QED BY <1>1, <1>2, <1>3, <1>4, DirectoryType

\* A node in the slot of a directory is listed there: no other directory has that slot.
LEMMA SlotOfNode ==
    ASSUME NEW t, NEW d, NEW cached, NEW H, NEW at, Tidy(t, d, cached, H, at),
           NEW q \in H, d[q].type = "dir", NEW i \in 0 .. EntriesPerBlock - 1, Slot(d[q], i) \in H,
           Slot(d[q], i) # RootOffset
    PROVE  /\ Listed(d, at, q, Slot(d[q], i))
           /\ i \in First(q) .. d[q].length - 1
<1>. DEFINE c == Slot(d[q], i)
<1>1. c \in H /\ c # RootOffset
  OBVIOUS
<1>. HIDE DEF c
<1>2. PICK y \in H : Listed(d, at, y, c) /\ \E j \in First(y) .. d[y].length - 1 :
                              c = Slot(d[y], j) /\ j \in 1 .. EntriesPerBlock - 1
  BY <1>1, ParentIs
<1>3. PICK j \in First(y) .. d[y].length - 1 : c = Slot(d[y], j) /\ j \in 1 .. EntriesPerBlock - 1
  BY <1>2
<1>4. d[q].start \in Int /\ d[y].start \in Int /\ j \in 0 .. EntriesPerBlock - 1
  BY <1>3, NodeType, NamespaceAssumption, BlockAssumption DEF DataBlocks, RootBlock
<1>5. d[q].start = d[y].start /\ i = j
  BY <1>3, <1>4, SlotIsOne DEF c, Slot
<1>6. q = y
  BY <1>5, StartIsOne
<1>. QED BY <1>2, <1>3, <1>5, <1>6 DEF c

\* An offset in a block that is free, or behind the first of a directory's chain of a file,
\* is no node and in no directory.
LEMMA BlockOfNode ==
    ASSUME NEW t, NEW d, NEW cached, NEW H, NEW at, Tidy(t, d, cached, H, at),
           NEW b \in DataBlocks, \A q \in H : d[q].type = "dir" => d[q].start # b,
           NEW i \in 0 .. EntriesPerBlock - 1
    PROVE  /\ b * EntriesPerBlock + i \notin H
           /\ b * EntriesPerBlock + i # RootOffset + 1
           /\ \A q \in H, j \in 0 .. EntriesPerBlock - 1 :
                 d[q].type = "dir" => b * EntriesPerBlock + i # Slot(d[q], j)
<1>1. b \in Int /\ \A q \in H : d[q].start \in Int
  BY NodeType, BlockAssumption DEF DataBlocks, RootBlock
<1>2. \A q \in H, j \in 0 .. EntriesPerBlock - 1 :
          d[q].type = "dir" => b * EntriesPerBlock + i # Slot(d[q], j)
  BY <1>1, SlotIsOne DEF Slot
<1>3. 0 \in 0 .. EntriesPerBlock - 1 /\ 1 \in 0 .. EntriesPerBlock - 1
      /\ \A j \in 1 .. EntriesPerBlock - 1 : j \in 0 .. EntriesPerBlock - 1
  BY NamespaceAssumption
<1>4. b * EntriesPerBlock + i # RootOffset /\ b * EntriesPerBlock + i # RootOffset + 1
  BY <1>2, <1>3, RootType, RootSlot
<1>5. b * EntriesPerBlock + i \notin H
  BY <1>2, <1>3, <1>4, ParentIs DEF Listed
<1>. QED BY <1>2, <1>4, <1>5

\* The offsets of "." and "..", and of the other slots of a directory.
LEMMA DirectorySlots ==
    ASSUME NEW t, NEW d, NEW cached, NEW H, NEW at, Tidy(t, d, cached, H, at),
           NEW q \in H, d[q].type = "dir"
    PROVE  /\ RootOffset + 1 \notin H
           /\ q # RootOffset => Slot(d[q], 0) \notin H /\ Slot(d[q], 0) # RootOffset + 1
           /\ q = RootOffset => Slot(d[q], 0) = RootOffset
           /\ \A i \in First(q) .. EntriesPerBlock - 1 :
                 Slot(d[q], i) # RootOffset /\ Slot(d[q], i) # RootOffset + 1
<1>1. /\ 0 \in 0 .. EntriesPerBlock - 1 /\ 1 \in 0 .. EntriesPerBlock - 1
      /\ \A i \in First(q) .. EntriesPerBlock - 1 : i \in 0 .. EntriesPerBlock - 1
  BY NamespaceAssumption DEF First
<1>2. /\ RootOffset \in H /\ d[RootOffset].type = "dir" /\ RootOffset + 1 = Slot(d[RootOffset], 1)
      /\ RootOffset = Slot(d[RootOffset], 0)
  BY RootType, RootSlot
<1>3. d[q].start \in Int /\ d[RootOffset].start \in Int
  BY <1>2, NodeType, BlockAssumption DEF DataBlocks, RootBlock
<1>4. ASSUME NEW i \in 0 .. EntriesPerBlock - 1, NEW j \in 0 .. EntriesPerBlock - 1,
             Slot(d[q], i) = Slot(d[RootOffset], j)
      PROVE  q = RootOffset /\ i = j
  <2>1. d[q].start = d[RootOffset].start /\ i = j
    BY <1>3, <1>4, SlotIsOne DEF Slot
  <2>. QED BY <1>2, <2>1, StartIsOne
<1>5. RootOffset + 1 \notin H
  <2>1. SUFFICES ASSUME RootOffset + 1 \in H PROVE FALSE
    OBVIOUS
  <2>2. RootOffset + 1 # RootOffset
    BY RootInRange DEF Offsets
  <2>3. 1 \in First(RootOffset) .. d[RootOffset].length - 1
    BY <1>1, <1>2, <2>1, <2>2, SlotOfNode
  <2>. QED BY <2>3, <1>2, DirectoryType DEF First
<1>6. ASSUME q # RootOffset PROVE Slot(d[q], 0) \notin H /\ Slot(d[q], 0) # RootOffset + 1
  <2>1. Slot(d[q], 0) # RootOffset /\ Slot(d[q], 0) # RootOffset + 1
    BY <1>1, <1>2, <1>4, <1>6
  <2>2. SUFFICES ASSUME Slot(d[q], 0) \in H PROVE FALSE
    BY <2>1
  <2>3. 0 \in First(q) .. d[q].length - 1
    BY <1>1, <2>1, <2>2, SlotOfNode
  <2>. QED BY <2>3 DEF First
<1>7. ASSUME NEW i \in First(q) .. EntriesPerBlock - 1
      PROVE  Slot(d[q], i) # RootOffset /\ Slot(d[q], i) # RootOffset + 1
  BY <1>1, <1>2, <1>4 DEF First
<1>. QED BY <1>2, <1>5, <1>6, <1>7

-----------------------------------------------------------------------------
(* What may happen on the disk that leaves the tree in order.              *)

\* What is not seen may change, and an empty slot may be filled with another empty entry.
SameSight(d, d2, H) ==
    /\ \A o \in H : d2[o] = d[o]
    /\ d2[RootOffset + 1] = d[RootOffset + 1]
    /\ \A q \in H : d[q].type = "dir" =>
          /\ d2[Slot(d[q], 0)] = d[Slot(d[q], 0)]
          /\ \A i \in First(q) .. d[q].length - 1 :
                d2[Slot(d[q], i)].start \in {d[Slot(d[q], i)].start, FREE}

LEMMA Unseen ==
    ASSUME NEW t, NEW d, NEW cached, NEW H, NEW at, Tidy(t, d, cached, H, at),
           NEW d2 \in [Offsets -> Entry], SameSight(d, d2, H)
    PROVE  Tidy(t, d2, cached, H, at)
<1>1. RootKept(d2, cached) /\ Rooted(d2, H, at)
  BY DEF Tidy, Hangs, Rooted, RootKept, SameSight
<1>2. ASSUME NEW o \in H PROVE Kempt(d2, H, o)
  <2>1. Kempt(d, H, o) /\ d2[o] = d[o]
    BY DEF Tidy, Hangs, SameSight
  <2>. QED BY <2>1 DEF Kempt, SameSight
<1>3. ASSUME NEW q \in H, NEW c \in H, Listed(d, at, q, c) PROVE Listed(d2, at, q, c)
  <2>1. d2[q] = d[q] /\ d2[c] = d[c] /\ (d[c].type = "dir" => d2[Slot(d[c], 0)] = d[Slot(d[c], 0)])
    BY DEF SameSight
  <2>. QED BY <1>3, <2>1 DEF Listed
<1>4. Hangs(d2, H, at)
  BY <1>1, <1>2, <1>3 DEF Tidy, Hangs
<1>5. Owns(t, d2, H)
  BY DEF Tidy, Owns, Exact, Needs, SameSight
<1>. QED BY <1>1, <1>4, <1>5 DEF Tidy

\* An entry of exact length keeps it when its chain is left alone.
LEMMA ExactElsewhere ==
    ASSUME NEW t, NEW entry, Exact(t, entry), NEW t2, NEW entry2,
           entry2.start = entry.start, Needs(entry2) = Needs(entry),
           \A b \in Chain(t, entry.start) : t2[b] = t[b]
    PROVE  Exact(t2, entry2) /\ Chain(t2, entry2.start) = Chain(t, entry.start)
<1>1. PICK p : Follows(t, entry.start, p, Needs(entry))
  BY DEF Exact
<1>2. Follows(t2, entry.start, p, Needs(entry)) /\ Chain(t2, entry.start) = Chain(t, entry.start)
  BY <1>1, FollowsElsewhere
<1>. QED BY <1>2 DEF Exact

\* The blocks of at most one node change.
OnlyFits(o, t, d, t2, d2, H, H2) ==
    /\ \A x \in H2 : x # o => /\ x \in H /\ d2[x] = d[x]
                              /\ \A b \in Chain(t, d[x].start) : t2[b] = t[b]
    /\ o \in H2 => /\ Exact(t2, d2[o])
                   /\ \A x \in H2 : x # o => Chain(t2, d2[o].start) \cap Chain(t, d[x].start) = {}
    /\ \A b \in DataBlocks : \/ t2[b] = FREE
                             \/ o \in H2 /\ b \in Chain(t2, d2[o].start)
                             \/ \E x \in H2 : x # o /\ b \in Chain(t, d[x].start)

LEMMA OwnsUpdate ==
    ASSUME NEW t, NEW d, NEW H, Owns(t, d, H), NEW o, NEW t2, NEW d2, NEW H2,
           OnlyFits(o, t, d, t2, d2, H, H2)
    PROVE  Owns(t2, d2, H2)
<1>. USE DEF OnlyFits
<1>1. ASSUME NEW x \in H2, x # o
      PROVE  Exact(t2, d2[x]) /\ Chain(t2, d2[x].start) = Chain(t, d[x].start)
  <2>1. Exact(t, d[x]) /\ d2[x] = d[x] /\ \A b \in Chain(t, d[x].start) : t2[b] = t[b]
    BY <1>1 DEF Owns
  <2>. QED BY <2>1, ExactElsewhere
<1>2. \A x \in H2 : Exact(t2, d2[x])
  BY <1>1
<1>3. ASSUME NEW x \in H2, NEW y \in H2, x # y
      PROVE  Chain(t2, d2[x].start) \cap Chain(t2, d2[y].start) = {}
  <2>1. CASE x = o
    BY <1>1, <1>3, <2>1
  <2>2. CASE y = o
    BY <1>1, <1>3, <2>2
  <2>3. CASE x # o /\ y # o
    <3>1. Chain(t, d[x].start) \cap Chain(t, d[y].start) = {}
      BY <1>3, <2>3 DEF Owns
    <3>. QED BY <1>1, <2>3, <3>1
  <2>. QED BY <2>1, <2>2, <2>3
<1>4. \A b \in DataBlocks : t2[b] = FREE \/ \E x \in H2 : b \in Chain(t2, d2[x].start)
  BY <1>1
<1>. QED BY <1>2, <1>3, <1>4 DEF Owns

\* No block of a node is free, the table's own blocks are on no chain, and only nodes own.
LEMMA NodeBlocks ==
    ASSUME NEW t, NEW d, NEW cached, NEW H, NEW at, Tidy(t, d, cached, H, at), NEW x \in H
    PROVE  \A b \in Chain(t, d[x].start) :
              b \in DataBlocks /\ t[b] # FREE /\ (t[b] = FINAL \/ t[b] \in DataBlocks)
<1>1. Chained(t, d[x])
  BY NodeType
<1>. QED BY <1>1, HolderChain, ChainType

\* What writeEntry leaves of the other entries, and of the cached root.
LEMMA WrittenEntry ==
    ASSUME NEW t, NEW d, NEW cached, NEW H, NEW at, Tidy(t, d, cached, H, at),
           NEW o \in H, NEW entry \in Entry, entry.name = d[o].name, entry.type = d[o].type,
           entry.start = d[o].start
    PROVE  /\ WriteEntry(d, o, entry) \in [Offsets -> Entry]
           /\ WriteEntry(d, o, entry)[o] = entry
           /\ \A x \in Offsets : x # o /\ x # RootOffset + 1 => WriteEntry(d, o, entry)[x] = d[x]
           /\ RootKept(WriteEntry(d, o, entry), CacheEntry(cached, entry))
           /\ Rooted(WriteEntry(d, o, entry), H, at)
<1>. DEFINE d2 == WriteEntry(d, o, entry)
            cached2 == CacheEntry(cached, entry)
<1>1. d \in [Offsets -> Entry] /\ RootKept(d, cached) /\ o \in Offsets /\ Rooted(d, H, at)
  BY DEF Tidy, Hangs, Rooted
<1>2. d2 \in [Offsets -> Entry]
  BY <1>1, WriteEntryType
<1>3. RootOffset + 1 # RootOffset /\ RootOffset + 1 \in Offsets /\ RootOffset \in Offsets
  BY RootInRange, RootType DEF Offsets
<1>4. d2[o] = entry
  BY <1>1, <1>3 DEF WriteEntry
<1>5. \A x \in Offsets : x # o /\ x # RootOffset + 1 => d2[x] = d[x]
  BY <1>1 DEF WriteEntry
<1>6. o # RootOffset => d2[RootOffset + 1] = d[RootOffset + 1] /\ d2[RootOffset] = d[RootOffset]
  <2>1. RootOffset + 1 # o
    BY RootType, DirectorySlots
  <2>. QED BY <1>1, <1>3, <2>1 DEF WriteEntry
<1>7. o = RootOffset => d2[RootOffset + 1] = [entry EXCEPT !.name = DotDot]
  BY <1>1, <1>3 DEF WriteEntry
<1>. HIDE DEF d2
<1>8. RootKept(d2, cached2)
  <2>1. CASE o = RootOffset
    <3>1. cached2 = [cached EXCEPT !.length = entry.length] /\ cached = d[o]
      BY <1>1, <2>1 DEF CacheEntry, RootKept
    <3>2. cached \in Entry
      BY <1>1, <3>1
    <3>3. cached2 = entry
      BY <3>1, <3>2 DEF Entry
    <3>. QED BY <1>1, <1>4, <2>1, <3>3 DEF RootKept
  <2>2. CASE o # RootOffset
    <3>1. entry.start # RootBlock
      BY <2>2, RootType, StartIsOne
    <3>. QED BY <1>1, <1>6, <2>2, <3>1 DEF CacheEntry, RootKept
  <2>. QED BY <2>1, <2>2
<1>9. Rooted(d2, H, at)
  <2>1. d2[RootOffset + 1] = [d2[RootOffset] EXCEPT !.name = DotDot]
    BY <1>1, <1>4, <1>6, <1>7 DEF Rooted
  <2>. QED BY <1>1, <2>1 DEF Rooted
<1>. QED BY <1>2, <1>4, <1>5, <1>8, <1>9 DEF d2

\* A table in which an entry has as many blocks as it needs, out of those it had and free ones.
Reowns(t, t2, entry) ==
    /\ Table(t2) /\ Marked(t2) /\ Exact(t2, entry)
    /\ \A b \in DataBlocks :
          IF t[b] = FREE \/ b \in Chain(t, entry.start)
          THEN t2[b] = FREE \/ b \in Chain(t2, entry.start)
          ELSE t2[b] = t[b] /\ b \notin Chain(t2, entry.start)

\* A node's length is saved, and its chain fitted to it.
LEMMA Resaved ==
    ASSUME NEW t, NEW d, NEW cached, NEW H, NEW at, Tidy(t, d, cached, H, at),
           NEW o \in H, NEW entry \in Entry, entry.name = d[o].name, entry.type = d[o].type,
           entry.start = d[o].start, NEW t2, Reowns(t, t2, entry),
           entry.type = "dir" =>
               /\ d[o].length <= entry.length
               /\ entry.length \in First(o) .. EntriesPerBlock
               /\ \A i \in First(o) .. entry.length - 1 :
                     Slot(entry, i) \in H \/ d[Slot(entry, i)].start = FREE
    PROVE  Tidy(t2, WriteEntry(d, o, entry), CacheEntry(cached, entry), H, at)
<1>. DEFINE d2 == WriteEntry(d, o, entry)
            cached2 == CacheEntry(cached, entry)
<1>1. /\ d2 \in [Offsets -> Entry] /\ d2[o] = entry
      /\ \A x \in Offsets : x # o /\ x # RootOffset + 1 => d2[x] = d[x]
      /\ RootKept(d2, cached2) /\ Rooted(d2, H, at)
  BY WrittenEntry
<1>. HIDE DEF d2, cached2
<1>2. H \subseteq Offsets /\ RootOffset + 1 \notin H
  <2>1. H \subseteq Offsets
    BY DEF Tidy, Hangs, Rooted
  <2>2. RootOffset \in H /\ d[RootOffset].type = "dir"
    BY RootType
  <2>3. RootOffset + 1 \notin H
    BY <2>2, DirectorySlots
  <2>. QED BY <2>1, <2>3
<1>3. \A x \in H : /\ x # o => d2[x] = d[x]
                   /\ d2[x].name = d[x].name /\ d2[x].type = d[x].type /\ d2[x].start = d[x].start
  BY <1>1, <1>2
<1>4. \A x \in H, i \in Int : Slot(d2[x], i) = Slot(d[x], i)
  BY <1>3 DEF Slot
<1>5. ASSUME NEW x \in H PROVE Kempt(d2, H, x)
  <2>1. SUFFICES ASSUME d2[x].type = "dir"
                 PROVE  /\ d2[x].length \in First(x) .. EntriesPerBlock
                        /\ \A i \in First(x) .. d2[x].length - 1 :
                              Slot(d2[x], i) \in H \/ d2[Slot(d2[x], i)].start = FREE
    BY DEF Kempt
  <2>2. /\ d2[x].length \in First(x) .. EntriesPerBlock
        /\ \A i \in First(x) .. d2[x].length - 1 :
              Slot(d2[x], i) \in H \/ d[Slot(d2[x], i)].start = FREE
    <3>1. CASE x = o
      BY <1>1, <2>1, <3>1
    <3>2. CASE x # o
      <4>1. Kempt(d, H, x) /\ d2[x] = d[x]
        BY <1>3, <3>2 DEF Tidy, Hangs
      <4>. QED BY <2>1, <4>1 DEF Kempt
    <3>. QED BY <3>1, <3>2
  <2>3. ASSUME NEW i \in First(x) .. d2[x].length - 1, Slot(d2[x], i) \notin H
        PROVE  d2[Slot(d2[x], i)] = d[Slot(d2[x], i)]
    <3>1. d[x].type = "dir" /\ i \in Int /\ Slot(d2[x], i) = Slot(d[x], i)
      BY <1>3, <1>4, <2>1 DEF First
    <3>2. i \in First(x) .. EntriesPerBlock - 1 /\ i \in 0 .. EntriesPerBlock - 1
      BY <2>2, NamespaceAssumption DEF First
    <3>3. Slot(d[x], i) \in Offsets /\ Slot(d[x], i) # RootOffset + 1
      BY <3>1, <3>2, DirectoryType, DirectorySlots
    <3>. QED BY <1>1, <2>3, <3>1, <3>3
  <2>. QED BY <2>2, <2>3
<1>6. ASSUME NEW q \in H, NEW c \in H, Listed(d, at, q, c), c # RootOffset PROVE Listed(d2, at, q, c)
  <2>1. d[q].type = "dir" /\ d[q].length \in Nat /\ d2[q].length \in Nat /\ d[q].length <= d2[q].length
    <3>1. d[q].type = "dir" /\ d[q].length \in Nat
      BY <1>6, DirectoryType DEF Listed
    <3>2. d2[q] \in Entry
      BY <1>1, <1>2
    <3>. QED BY <1>1, <1>3, <3>1, <3>2 DEF Entry
  <2>2. \E i \in First(q) .. d2[q].length - 1 : c = Slot(d2[q], i)
    <3>1. PICK i \in First(q) .. d[q].length - 1 : c = Slot(d[q], i)
      BY <1>6 DEF Listed
    <3>2. First(q) \in Int
      BY DEF First
    <3>3. i \in First(q) .. d2[q].length - 1 /\ i \in Int
      BY <2>1, <3>2
    <3>. QED BY <1>4, <3>1, <3>3
  <2>3. d[c].type = "dir" => d2[Slot(d2[c], 0)] = d[Slot(d[c], 0)]
    <3>1. SUFFICES ASSUME d[c].type = "dir" PROVE d2[Slot(d[c], 0)] = d[Slot(d[c], 0)]
      BY <1>4
    <3>2. Slot(d[c], 0) \notin H /\ Slot(d[c], 0) # RootOffset + 1
      BY <1>6, <3>1, DirectorySlots
    <3>3. Slot(d[c], 0) \in Offsets
      BY <3>1, DirectoryType, NamespaceAssumption
    <3>. QED BY <1>1, <3>2, <3>3
  <2>. QED BY <1>3, <1>6, <2>2, <2>3 DEF Listed
<1>7. Hangs(d2, H, at)
  <2>1. \A c \in H : c # RootOffset => \E q \in H : Listed(d2, at, q, c)
    <3>1. SUFFICES ASSUME NEW c \in H, c # RootOffset PROVE \E q \in H : Listed(d2, at, q, c)
      OBVIOUS
    <3>2. PICK q \in H : Listed(d, at, q, c)
      BY <3>1 DEF Tidy, Hangs
    <3>. QED BY <1>6, <3>1, <3>2
  <2>. QED BY <1>1, <1>5, <2>1 DEF Tidy, Hangs
<1>8. \A x \in H : x # o => \A b \in Chain(t, d[x].start) : t2[b] = t[b] /\ b \notin Chain(t2, entry.start)
  <2>1. SUFFICES ASSUME NEW x \in H, x # o, NEW b \in Chain(t, d[x].start)
                 PROVE  t2[b] = t[b] /\ b \notin Chain(t2, entry.start)
    OBVIOUS
  <2>2. b \in DataBlocks /\ t[b] # FREE
    BY <2>1, NodeBlocks
  <2>3. b \notin Chain(t, entry.start)
    BY <2>1 DEF Tidy, Owns
  <2>. QED BY <2>2, <2>3 DEF Reowns
<1>9. ASSUME NEW b \in DataBlocks, t2[b] # FREE, b \notin Chain(t2, entry.start)
      PROVE  \E x \in H : x # o /\ b \in Chain(t, d[x].start)
  <2>1. t[b] # FREE /\ b \notin Chain(t, entry.start)
    BY <1>9 DEF Reowns
  <2>2. PICK x \in H : b \in Chain(t, d[x].start)
    BY <2>1 DEF Tidy, Owns
  <2>. QED BY <2>1, <2>2
<1>10. OnlyFits(o, t, d, t2, d2, H, H)
  <2>1. Exact(t2, d2[o]) /\ d2[o].start = entry.start
    BY <1>1 DEF Reowns
  <2>. QED BY <1>3, <1>8, <1>9, <2>1 DEF OnlyFits
<1>11. Owns(t2, d2, H)
  BY <1>10, OwnsUpdate DEF Tidy
<1>12. Tidy(t2, d2, cached2, H, at)
  BY <1>1, <1>7, <1>11 DEF Tidy, Reowns
<1>. QED BY <1>12 DEF d2, cached2

\* A block taken, an entry written, and the paths with one more node or one less.
Taken(t, b) == [t EXCEPT ![b] = FINAL]
Filled(d, o, entry) == [d EXCEPT ![o] = entry]
Named(H, at, o, path) == [x \in H \union {o} |-> IF x = o THEN path ELSE at[x]]
Without(H, at, o) == [x \in H \ {o} |-> at[x]]

\* A name is entered in an empty slot of a directory, with a free block of its own.
LEMMA Entered ==
    ASSUME NEW t, NEW d, NEW cached, NEW H, NEW at, Tidy(t, d, cached, H, at),
           NEW q \in H, d[q].type = "dir", NEW i \in First(q) .. d[q].length - 1,
           Slot(d[q], i) \notin H,
           NEW new \in Entry, new.start \in DataBlocks, t[new.start] = FREE,
           new.name \in Names, Needs(new) = 1,
           \A x \in H : at[x] # Append(at[q], new.name),
           new.type = "dir" => /\ new.length = 1
                               /\ d[Slot(new, 0)].name = DotDot
                               /\ d[Slot(new, 0)].start = d[q].start
    PROVE  Tidy(Taken(t, new.start), Filled(d, Slot(d[q], i), new), cached,
                H \union {Slot(d[q], i)}, Named(H, at, Slot(d[q], i), Append(at[q], new.name)))
<1>. DEFINE o == Slot(d[q], i)
            t2 == [t EXCEPT ![new.start] = FINAL]
            d2 == [d EXCEPT ![o] = new]
            H2 == H \union {o}
            at2 == [x \in H2 |-> IF x = o THEN Append(at[q], new.name) ELSE at[x]]
<1>1. /\ d \in [Offsets -> Entry] /\ RootKept(d, cached) /\ Rooted(d, H, at)
      /\ Table(t) /\ Marked(t) /\ H \subseteq Offsets /\ RootOffset \in H
  BY DEF Tidy, Hangs, Rooted
<1>2. i \in 1 .. EntriesPerBlock - 1 /\ i \in First(q) .. EntriesPerBlock - 1 /\ i \in 0 .. EntriesPerBlock - 1
  <2>1. d[q].length <= EntriesPerBlock /\ d[q].length \in Nat
    BY DirectoryType
  <2>. QED BY <2>1, NamespaceAssumption DEF First
<1>3. o \in Offsets /\ o \notin H /\ o # RootOffset /\ o # RootOffset + 1
  BY <1>2, DirectoryType, DirectorySlots
<1>4. \A b \in DataBlocks : b \in Int
  BY BlockAssumption DEF DataBlocks, RootBlock
<1>5. \A x \in H : d[x].start \in DataBlocks /\ t[d[x].start] # FREE
  BY NodeType
<1>6. \A x \in H : d[x].type = "dir" => Slot(d[x], 0) # o
  <2>1. SUFFICES ASSUME NEW x \in H, Slot(d[x], 0) = o PROVE FALSE
    OBVIOUS
  <2>2. 0 \in 0 .. EntriesPerBlock - 1 /\ i # 0
    BY <1>2, NamespaceAssumption
  <2>. QED BY <1>2, <1>4, <1>5, <2>1, <2>2, SlotIsOne DEF Slot
<1>7. Slot(new, 0) # o
  <2>1. SUFFICES ASSUME Slot(new, 0) = o PROVE FALSE
    OBVIOUS
  <2>2. 0 \in 0 .. EntriesPerBlock - 1 /\ i # 0
    BY <1>2, NamespaceAssumption
  <2>. QED BY <1>2, <1>4, <1>5, <2>1, <2>2, SlotIsOne DEF Slot
<1>8. /\ d2 \in [Offsets -> Entry] /\ d2[o] = new
      /\ \A x \in Offsets : x # o => d2[x] = d[x]
  <2>. HIDE DEF o
  <2>. QED BY <1>1, <1>3
<1>9. at[q] \in Seq(Names) /\ Append(at[q], new.name) \in Seq(Names)
  <2>1. at[q] \in Seq(Names)
    BY NodeType
  <2>. QED BY <2>1
<1>10. /\ at2 \in [H2 -> Seq(Names)] /\ at2[o] = Append(at[q], new.name)
       /\ \A x \in H : at2[x] = at[x]
  <2>. HIDE DEF o
  <2>. QED BY <1>1, <1>3, <1>9 DEF Rooted
<1>11. /\ Slot(new, 0) \in Offsets
       /\ \A x \in H : d[x].type = "dir" =>
             /\ Slot(d[x], 0) \in Offsets
             /\ \A k \in First(x) .. d[x].length - 1 : Slot(d[x], k) \in Offsets
  <2>1. Slot(new, 0) \in Offsets
    BY SlotInRange, NamespaceAssumption DEF Slot
  <2>. QED BY <2>1, DirectoryType
<1>12. H2 = H \union {o} /\ o = Slot(d[q], i)
  OBVIOUS
<1>13. Table(t2) /\ Marked(t2)
  <2>1. Table(t2)
    BY <1>1, LinkType DEF Links
  <2>2. \A b \in 0 .. FatBlocks : b # new.start /\ b \in Blocks
    BY BlockAssumption DEF DataBlocks, RootBlock, Blocks
  <2>. QED BY <1>1, <2>1, <2>2 DEF Marked
<1>14. t2[new.start] = FINAL /\ \A b \in DataBlocks : b # new.start => t2[b] = t[b]
  <2>1. new.start \in Blocks
    BY BlockAssumption DEF DataBlocks, RootBlock, Blocks
  <2>. QED BY <1>1, <2>1 DEF Table
<1>. HIDE DEF o, t2, d2, H2, at2
<1>15. Rooted(d2, H2, at2) /\ RootKept(d2, cached)
  <2>1. RootOffset + 1 \in Offsets
    BY RootType
  <2>. QED BY <1>1, <1>3, <1>8, <1>10, <1>12, <2>1 DEF Rooted, RootKept
<1>16. ASSUME NEW x \in H2 PROVE Kempt(d2, H2, x)
  <2>1. CASE x = o
    <3>1. new.type = "dir" => new.length = 1 /\ First(o) = 1
      BY <1>3 DEF First
    <3>2. 1 \in 1 .. EntriesPerBlock /\ 1 .. 1 - 1 = {}
      BY NamespaceAssumption
    <3>. QED BY <1>8, <2>1, <3>1, <3>2 DEF Kempt
  <2>2. CASE x # o
    <3>1. x \in H /\ d2[x] = d[x] /\ Kempt(d, H, x)
      BY <1>1, <1>8, <1>12, <2>2 DEF Tidy, Hangs
    <3>. QED BY <1>8, <1>11, <1>12, <3>1 DEF Kempt
  <2>. QED BY <2>1, <2>2
<1>17. ASSUME NEW c \in H2, c # RootOffset PROVE \E y \in H2 : Listed(d2, at2, y, c)
  <2>1. CASE c = o
    <3>1. q \in H2 /\ d2[q] = d[q] /\ at2[q] = at[q]
      BY <1>1, <1>3, <1>8, <1>10, <1>12
    <3>2. new.type = "dir" => d2[Slot(new, 0)] = d[Slot(new, 0)]
      BY <1>7, <1>8, <1>11
    <3>3. Listed(d2, at2, q, o)
      BY <1>8, <1>10, <1>12, <3>1, <3>2 DEF Listed
    <3>. QED BY <2>1, <3>1, <3>3
  <2>2. CASE c # o
    <3>1. c \in H
      BY <1>12, <2>2
    <3>2. PICK y \in H : Listed(d, at, y, c)
      BY <1>17, <3>1 DEF Tidy, Hangs
    <3>3. y # o /\ y \in H2 /\ d2[y] = d[y] /\ d2[c] = d[c] /\ at2[y] = at[y] /\ at2[c] = at[c]
      BY <1>1, <1>3, <1>8, <1>10, <1>12, <2>2, <3>1
    <3>4. d[c].type = "dir" => d2[Slot(d[c], 0)] = d[Slot(d[c], 0)]
      BY <1>6, <1>8, <1>11, <3>1
    <3>5. Listed(d2, at2, y, c)
      BY <3>2, <3>3, <3>4 DEF Listed
    <3>. QED BY <3>3, <3>5
  <2>. QED BY <2>1, <2>2
<1>18. \A x, y \in H2 : at2[x] = at2[y] => x = y
  <2>1. SUFFICES ASSUME NEW x \in H2, NEW y \in H2, at2[x] = at2[y], x # y PROVE FALSE
    OBVIOUS
  <2>2. CASE x = o
    BY <1>10, <1>12, <2>1, <2>2
  <2>3. CASE y = o
    BY <1>10, <1>12, <2>1, <2>3
  <2>4. CASE x # o /\ y # o
    BY <1>10, <1>12, <2>1, <2>4 DEF Tidy, Hangs
  <2>. QED BY <2>2, <2>3, <2>4
<1>19. Exact(t2, new) /\ Chain(t2, new.start) = {new.start}
  BY <1>14, SingleExact, SingleChain
<1>20. \A x \in H : \A b \in Chain(t, d[x].start) : t2[b] = t[b] /\ b # new.start
  BY <1>14, NodeBlocks
<1>21. \A b \in DataBlocks : t2[b] # FREE /\ b # new.start => \E x \in H : b \in Chain(t, d[x].start)
  BY <1>14 DEF Tidy, Owns
<1>22. OnlyFits(o, t, d, t2, d2, H, H2)
  <2>1. o \in H2 /\ d2[o] = new /\ \A x \in H2 : x # o => x \in H /\ d2[x] = d[x]
    BY <1>1, <1>8, <1>12
  <2>2. \A x \in H : x # o /\ x \in H2
    BY <1>3, <1>12
  <2>3. \A x \in H2 : x # o => Chain(t2, d2[o].start) \cap Chain(t, d[x].start) = {}
    BY <1>19, <1>20, <2>1
  <2>4. \A b \in DataBlocks : \/ t2[b] = FREE \/ b \in Chain(t2, d2[o].start)
                              \/ \E x \in H2 : x # o /\ b \in Chain(t, d[x].start)
    BY <1>19, <1>21, <2>1, <2>2
  <2>. QED BY <1>19, <1>20, <2>1, <2>3, <2>4 DEF OnlyFits
<1>23. Owns(t2, d2, H2)
  BY <1>22, OwnsUpdate DEF Tidy
<1>24. Tidy(t2, d2, cached, H2, at2)
  BY <1>8, <1>13, <1>15, <1>16, <1>17, <1>18, <1>23 DEF Tidy, Hangs
<1>. QED BY <1>24 DEF o, t2, d2, H2, at2, Taken, Filled, Named

\* A node that lists nothing goes, and its blocks with it.
LEMMA Removed ==
    ASSUME NEW t, NEW d, NEW cached, NEW H, NEW at, Tidy(t, d, cached, H, at),
           NEW o \in H, o # RootOffset, \A c \in H : ~Listed(d, at, o, c),
           NEW entry \in Entry, entry.start = FREE
    PROVE  Tidy(Forget(t, d[o].start), Filled(d, o, entry), cached, H \ {o}, Without(H, at, o))
<1>. DEFINE t2 == Forget(t, d[o].start)
            d2 == [d EXCEPT ![o] = entry]
            H2 == H \ {o}
            at2 == [x \in H2 |-> at[x]]
<1>1. /\ d \in [Offsets -> Entry] /\ RootKept(d, cached) /\ Rooted(d, H, at)
      /\ Table(t) /\ Marked(t) /\ H \subseteq Offsets /\ RootOffset \in H
  BY DEF Tidy, Hangs, Rooted
<1>2. /\ d2 \in [Offsets -> Entry] /\ d2[o] = entry
      /\ \A x \in Offsets : x # o => d2[x] = d[x]
  BY <1>1
<1>3. at2 \in [H2 -> Seq(Names)] /\ \A x \in H2 : x \in H /\ at2[x] = at[x] /\ d2[x] = d[x]
  BY <1>1, <1>2 DEF Rooted
<1>4. Table(t2)
  BY <1>1, ForgetType
<1>5. /\ \A b \in Blocks : b \notin Chain(t, d[o].start) => t2[b] = t[b]
      /\ \A b \in Chain(t, d[o].start) : t2[b] = FREE
  <2>1. \A b \in Chain(t, d[o].start) : b \in Blocks /\ t[b] # UNUSABLE
    BY NodeBlocks, BlockAssumption DEF Blocks, DataBlocks, RootBlock, UNUSABLE, FINAL
  <2>. QED BY <2>1 DEF Forget
<1>6. \A b \in DataBlocks : b \in Blocks
  BY BlockAssumption DEF Blocks, DataBlocks, RootBlock
<1>7. RootOffset + 1 # o /\ \A x \in H : d[x].type = "dir" /\ x # RootOffset => Slot(d[x], 0) # o
  BY RootType, DirectorySlots
<1>8. \A x \in H : x \in H2 \/ x = o
  OBVIOUS
<1>9. /\ RootOffset + 1 \in Offsets
      /\ \A x \in H : d[x].type = "dir" =>
            /\ Slot(d[x], 0) \in Offsets
            /\ \A k \in First(x) .. d[x].length - 1 : Slot(d[x], k) \in Offsets
  BY RootType, DirectoryType
<1>. HIDE DEF t2, d2, H2, at2
<1>10. Marked(t2)
  <2>1. \A b \in 0 .. FatBlocks : b \in Blocks /\ b \notin DataBlocks
    BY BlockAssumption DEF Blocks, DataBlocks, RootBlock
  <2>. QED BY <1>1, <1>5, <2>1, ChainType DEF Marked
<1>11. Rooted(d2, H2, at2) /\ RootKept(d2, cached)
  <2>1. RootOffset \in H2 /\ H2 \subseteq Offsets
    BY <1>1, <1>3, <1>8
  <2>. QED BY <1>1, <1>2, <1>3, <1>7, <1>9, <2>1 DEF Rooted, RootKept
<1>12. ASSUME NEW x \in H2 PROVE Kempt(d2, H2, x)
  <2>1. x \in H /\ d2[x] = d[x] /\ Kempt(d, H, x)
    BY <1>3 DEF Tidy, Hangs
  <2>. QED BY <1>2, <1>8, <1>9, <2>1 DEF Kempt
<1>13. ASSUME NEW c \in H2, c # RootOffset PROVE \E y \in H2 : Listed(d2, at2, y, c)
  <2>1. PICK y \in H : Listed(d, at, y, c)
    BY <1>3, <1>13 DEF Tidy, Hangs
  <2>2. y \in H2
    BY <1>3, <1>8, <2>1
  <2>3. d[c].type = "dir" => d2[Slot(d[c], 0)] = d[Slot(d[c], 0)]
    BY <1>2, <1>3, <1>7, <1>13, <1>9
  <2>4. Listed(d2, at2, y, c)
    BY <1>3, <2>1, <2>2, <2>3 DEF Listed
  <2>. QED BY <2>2, <2>4
<1>14. \A x, y \in H2 : at2[x] = at2[y] => x = y
  BY <1>3 DEF Tidy, Hangs
<1>15. \A x \in H2 : \A b \in Chain(t, d[x].start) : t2[b] = t[b]
  <2>1. SUFFICES ASSUME NEW x \in H2, NEW b \in Chain(t, d[x].start) PROVE t2[b] = t[b]
    OBVIOUS
  <2>2. x \in H /\ x # o
    BY DEF H2
  <2>3. b \in DataBlocks /\ b \notin Chain(t, d[o].start)
    BY <2>2, ChainType DEF Tidy, Owns
  <2>. QED BY <1>5, <1>6, <2>3
<1>16. \A b \in DataBlocks : t2[b] # FREE => \E x \in H2 : b \in Chain(t, d[x].start)
  <2>1. SUFFICES ASSUME NEW b \in DataBlocks, t2[b] # FREE
                 PROVE  \E x \in H2 : b \in Chain(t, d[x].start)
    OBVIOUS
  <2>2. b \notin Chain(t, d[o].start) /\ t[b] # FREE
    BY <1>5, <1>6, <2>1
  <2>. QED BY <1>8, <2>2 DEF Tidy, Owns
<1>17. OnlyFits(o, t, d, t2, d2, H, H2)
  <2>1. o \notin H2
    BY DEF H2
  <2>. QED BY <1>3, <1>15, <1>16, <2>1 DEF OnlyFits
<1>18. Owns(t2, d2, H2)
  BY <1>17, OwnsUpdate DEF Tidy
<1>19. Tidy(t2, d2, cached, H2, at2)
  BY <1>2, <1>4, <1>10, <1>11, <1>12, <1>13, <1>14, <1>18 DEF Tidy, Hangs
<1>. QED BY <1>19 DEF t2, d2, H2, at2, Filled, Without

-----------------------------------------------------------------------------
(* Paths.                                                                   *)

\* p is a path to s or to something s lies below.
Above(p, s) == Len(p) <= Len(s) /\ \A k \in 1 .. Len(p) : p[k] = s[k]

\* What becomes of the path s when what is at p moves to r.
Shifted(p, r, s) == IF Above(p, s) THEN r \o SubSeq(s, Len(p) + 1, Len(s)) ELSE s

\* A name is on the path of what lies in a directory behind the directory's own.
LEMMA AppendAbove ==
    ASSUME NEW p \in Seq(Names), NEW s \in Seq(Names), NEW n \in Names
    PROVE  /\ Above(p, Append(s, n)) <=> Above(p, s) \/ p = Append(s, n)
           /\ Append(s, n) \in Seq(Names) /\ Len(Append(s, n)) = Len(s) + 1
           /\ Len(s) \in Nat /\ Append(s, n) # <<>>
           /\ ~Above(Append(s, n), s)
<1>1. /\ Append(s, n) \in Seq(Names) /\ Len(Append(s, n)) = Len(s) + 1 /\ Len(s) \in Nat /\ Len(p) \in Nat
      /\ Append(s, n)[Len(s) + 1] = n /\ \A k \in 1 .. Len(s) : Append(s, n)[k] = s[k]
  OBVIOUS
<1>. DEFINE sn == Append(s, n)
<1>2. ~Above(sn, s) /\ sn # <<>>
  BY <1>1 DEF Above
<1>. HIDE DEF sn
<1>3. ASSUME Above(p, s) PROVE Above(p, sn)
  BY <1>1, <1>3 DEF Above, sn
<1>4. ASSUME p = sn PROVE Above(p, sn)
  BY <1>1, <1>4 DEF Above, sn
<1>5. ASSUME Above(p, sn), ~Above(p, s) PROVE p = sn
  <2>1. Len(p) <= Len(s) + 1 /\ \A k \in 1 .. Len(p) : p[k] = sn[k]
    BY <1>1, <1>5 DEF Above, sn
  <2>2. ~(Len(p) <= Len(s))
    <3>1. SUFFICES ASSUME Len(p) <= Len(s) PROVE FALSE
      OBVIOUS
    <3>2. \A k \in 1 .. Len(p) : k \in 1 .. Len(s)
      BY <1>1, <3>1
    <3>3. \A k \in 1 .. Len(p) : p[k] = s[k]
      BY <1>1, <2>1, <3>2 DEF sn
    <3>. QED BY <1>5, <3>1, <3>3 DEF Above
  <2>3. Len(p) = Len(sn)
    BY <1>1, <2>1, <2>2 DEF sn
  <2>. QED BY <1>1, <2>1, <2>3, SeqEqual DEF sn
<1>. QED BY <1>1, <1>2, <1>3, <1>4, <1>5 DEF sn

\* Nothing above r is moved by moving to r, and a path is above itself.
LEMMA ShiftedPaths ==
    ASSUME NEW p \in Seq(Names), NEW r \in Seq(Names), NEW s \in Seq(Names)
    PROVE  /\ Shifted(p, r, s) \in Seq(Names)
           /\ Above(p, p) /\ Shifted(p, r, p) = r
           /\ Above(p, s) => Above(r, Shifted(p, r, s))
<1>. DEFINE w == SubSeq(s, Len(p) + 1, Len(s))
<1>1. Above(p, p)
  BY DEF Above
<1>2. Shifted(p, r, p) = r
  <2>1. SubSeq(p, Len(p) + 1, Len(p)) = <<>>
    OBVIOUS
  <2>. QED BY <1>1, <2>1 DEF Shifted
<1>3. Len(p) \in Nat /\ Len(s) \in Nat
  OBVIOUS
<1>4. Above(p, s) => w \in Seq(Names)
  BY <1>3 DEF Above
<1>. HIDE DEF w
<1>5. Above(p, s) => r \o w \in Seq(Names) /\ Above(r, r \o w)
  <2>1. SUFFICES ASSUME Above(p, s) PROVE r \o w \in Seq(Names) /\ Above(r, r \o w)
    OBVIOUS
  <2>2. /\ r \o w \in Seq(Names) /\ Len(r) \in Nat /\ Len(w) \in Nat /\ Len(r \o w) = Len(r) + Len(w)
        /\ \A k \in 1 .. Len(r) : (r \o w)[k] = r[k]
    BY <1>4, <2>1
  <2>. QED BY <2>2 DEF Above
<1>. QED BY <1>1, <1>2, <1>5 DEF Shifted, w

\* Moving keeps what lies in a directory in it.
LEMMA ShiftedAppend ==
    ASSUME NEW p \in Seq(Names), NEW r \in Seq(Names), NEW s \in Seq(Names), NEW n \in Names,
           p # Append(s, n)
    PROVE  Shifted(p, r, Append(s, n)) = Append(Shifted(p, r, s), n)
<1>. DEFINE sn == Append(s, n)
            u == SubSeq(s, Len(p) + 1, Len(s))
            v == SubSeq(sn, Len(p) + 1, Len(s) + 1)
<1>1. Above(p, sn) <=> Above(p, s)
  BY AppendAbove
<1>2. Len(sn) = Len(s) + 1 /\ Len(s) \in Nat /\ Len(p) \in Nat /\ sn \in Seq(Names)
  BY AppendAbove
<1>3. CASE Above(p, s)
  <2>1. Len(p) <= Len(s)
    BY <1>3 DEF Above
  <2>2. v = Append(u, n)
    <3>1. u \in Seq(Names) /\ Len(u) = Len(s) - Len(p) /\ \A k \in 1 .. Len(s) - Len(p) : u[k] = s[Len(p) + k]
      BY <1>2, <2>1
    <3>2. v \in Seq(Names) /\ Len(v) = Len(s) + 1 - Len(p)
          /\ \A k \in 1 .. Len(s) + 1 - Len(p) : v[k] = sn[Len(p) + k]
      <4>. HIDE DEF sn
      <4>. QED BY <1>2, <2>1
    <3>3. sn[Len(s) + 1] = n /\ \A k \in 1 .. Len(s) : sn[k] = s[k]
      OBVIOUS
    <3>. HIDE DEF u, v, sn
    <3>4. Append(u, n) \in Seq(Names) /\ Len(Append(u, n)) = Len(v)
      BY <1>2, <2>1, <3>1, <3>2
    <3>5. \A k \in 1 .. Len(v) : v[k] = Append(u, n)[k]
      <4>1. SUFFICES ASSUME NEW k \in 1 .. Len(v) PROVE v[k] = Append(u, n)[k]
        OBVIOUS
      <4>2. CASE k = Len(u) + 1
        <5>1. k \in 1 .. Len(s) + 1 - Len(p) /\ Len(p) + k = Len(s) + 1
          BY <1>2, <2>1, <3>1, <4>2
        <5>2. v[k] = n
          BY <3>2, <3>3, <5>1
        <5>. QED BY <3>1, <4>2, <5>2
      <4>3. CASE k # Len(u) + 1
        <5>1. k \in 1 .. Len(u) /\ Len(p) + k \in 1 .. Len(s)
          BY <1>2, <2>1, <3>1, <3>2, <4>1, <4>3
        <5>2. v[k] = s[Len(p) + k] /\ u[k] = s[Len(p) + k]
          BY <3>1, <3>2, <3>3, <4>1, <5>1
        <5>. QED BY <3>1, <5>1, <5>2
      <4>. QED BY <4>2, <4>3
    <3>. QED BY <3>2, <3>4, <3>5, SeqEqual
  <2>3. u \in Seq(Names)
    BY <1>2, <2>1
  <2>. HIDE DEF u
  <2>4. r \o Append(u, n) = Append(r \o u, n)
    <3>1. /\ r \o u \in Seq(Names) /\ Len(r \o u) = Len(r) + Len(u) /\ Append(u, n) \in Seq(Names)
          /\ Len(r) \in Nat /\ Len(u) \in Nat /\ Len(Append(u, n)) = Len(u) + 1
      BY <2>3
    <3>2. /\ Append(r \o u, n) \in Seq(Names) /\ r \o Append(u, n) \in Seq(Names)
          /\ Len(Append(r \o u, n)) = Len(r) + Len(u) + 1 /\ Len(r \o Append(u, n)) = Len(r) + Len(u) + 1
      BY <3>1
    <3>3. \A k \in 1 .. Len(r) + Len(u) + 1 : (r \o Append(u, n))[k] = Append(r \o u, n)[k]
      BY <2>3, <3>1
    <3>. QED BY <3>2, <3>3, SeqEqual
  <2>. QED BY <1>1, <1>2, <1>3, <2>2, <2>4 DEF Shifted, u, v
<1>4. CASE ~Above(p, s)
  BY <1>1, <1>4 DEF Shifted
<1>. QED BY <1>3, <1>4

\* Different paths stay different.
LEMMA ShiftedIsOne ==
    ASSUME NEW p \in Seq(Names), NEW r \in Seq(Names), NEW s \in Seq(Names), NEW s2 \in Seq(Names),
           Above(p, s), Above(p, s2), Shifted(p, r, s) = Shifted(p, r, s2)
    PROVE  s = s2
<1>. DEFINE u == SubSeq(s, Len(p) + 1, Len(s))
            u2 == SubSeq(s2, Len(p) + 1, Len(s2))
<1>1. Len(p) \in Nat /\ Len(s) \in Nat /\ Len(s2) \in Nat /\ Len(p) <= Len(s) /\ Len(p) <= Len(s2)
  BY DEF Above
<1>2. /\ u \in Seq(Names) /\ Len(u) = Len(s) - Len(p)
      /\ \A k \in 1 .. Len(s) - Len(p) : u[k] = s[Len(p) + k]
  BY <1>1
<1>3. /\ u2 \in Seq(Names) /\ Len(u2) = Len(s2) - Len(p)
      /\ \A k \in 1 .. Len(s2) - Len(p) : u2[k] = s2[Len(p) + k]
  BY <1>1
<1>4. r \o u = r \o u2
  BY DEF Shifted
<1>. HIDE DEF u, u2
<1>5. /\ Len(r) \in Nat /\ Len(r \o u) = Len(r) + Len(u) /\ Len(r \o u2) = Len(r) + Len(u2)
      /\ \A k \in 1 .. Len(u) : (r \o u)[Len(r) + k] = u[k]
      /\ \A k \in 1 .. Len(u2) : (r \o u2)[Len(r) + k] = u2[k]
  <2>1. ASSUME NEW w \in Seq(Names)
        PROVE  /\ Len(r) \in Nat /\ Len(r \o w) = Len(r) + Len(w)
               /\ \A k \in 1 .. Len(w) : (r \o w)[Len(r) + k] = w[k]
    <3>1. Len(r) \in Nat /\ Len(w) \in Nat /\ Len(r \o w) = Len(r) + Len(w)
      OBVIOUS
    <3>2. ASSUME NEW k \in 1 .. Len(w) PROVE (r \o w)[Len(r) + k] = w[k]
      <4>1. Len(r) + k \in 1 .. Len(r) + Len(w) /\ ~(Len(r) + k <= Len(r)) /\ (Len(r) + k) - Len(r) = k
        BY <3>1
      <4>. QED BY <4>1, ConcatProperties
    <3>. QED BY <3>1, <3>2
  <2>. QED BY <1>2, <1>3, <2>1
<1>6. Len(u) = Len(u2) /\ Len(s) = Len(s2)
  BY <1>1, <1>2, <1>3, <1>4, <1>5
<1>7. \A k \in 1 .. Len(u) : u[k] = u2[k]
  BY <1>4, <1>5, <1>6
<1>8. ASSUME NEW k \in 1 .. Len(s) PROVE s[k] = s2[k]
  <2>1. CASE k <= Len(p)
    BY <1>1, <2>1 DEF Above
  <2>2. CASE ~(k <= Len(p))
    <3>1. k - Len(p) \in 1 .. Len(u) /\ Len(p) + (k - Len(p)) = k
      BY <1>1, <1>2, <2>2
    <3>2. u[k - Len(p)] = s[k] /\ u2[k - Len(p)] = s2[k]
      BY <1>2, <1>3, <1>6, <3>1
    <3>. QED BY <1>7, <3>1, <3>2
  <2>. QED BY <2>1, <2>2
<1>. QED BY <1>6, <1>8, SeqEqual

\* Every path to a node leads through nodes, directories all but the last.
LEMMA Ancestors ==
    ASSUME NEW t, NEW d, NEW cached, NEW H, NEW at, Tidy(t, d, cached, H, at),
           NEW x \in H, NEW p \in Seq(Names), Above(p, at[x])
    PROVE  \E y \in H : at[y] = p /\ (y # x => d[y].type = "dir")
<1>. DEFINE S == {n \in Nat : \A z \in H : Len(at[z]) = n /\ Above(p, at[z]) =>
                                 \E y \in H : at[y] = p /\ (y # z => d[y].type = "dir")}
<1>1. at[RootOffset] = <<>> /\ RootOffset \in H /\ \A z \in H : at[z] \in Seq(Names)
  BY RootType, NodeType
<1>2. ASSUME NEW z \in H, z # RootOffset, Above(p, at[z])
      PROVE  \E q \in H : /\ Len(at[z]) = Len(at[q]) + 1 /\ d[q].type = "dir"
                          /\ Above(p, at[q]) \/ p = at[z]
  <2>1. PICK q \in H : Listed(d, at, q, z)
    BY <1>2 DEF Tidy, Hangs
  <2>2. d[q].type = "dir" /\ at[z] = Append(at[q], d[z].name) /\ d[z].name \in Names
    BY <2>1 DEF Listed
  <2>3. at[q] \in Seq(Names)
    BY <1>1
  <2>4. Above(p, at[z]) <=> Above(p, at[q]) \/ p = at[z]
    BY <2>2, <2>3, AppendAbove
  <2>5. Len(at[z]) = Len(at[q]) + 1
    BY <2>2, <2>3, AppendAbove
  <2>. QED BY <1>2, <2>2, <2>4, <2>5
<1>3. 0 \in S
  <2>1. SUFFICES ASSUME NEW z \in H, Len(at[z]) = 0, Above(p, at[z])
                 PROVE  \E y \in H : at[y] = p /\ (y # z => d[y].type = "dir")
    OBVIOUS
  <2>2. z = RootOffset
    BY <1>1, <1>2, <2>1
  <2>3. Len(p) = 0
    BY <1>1, <2>1 DEF Above
  <2>4. p = <<>>
    BY <2>3
  <2>. QED BY <1>1, <2>2, <2>4
<1>4. ASSUME NEW n \in Nat, n \in S PROVE n + 1 \in S
  <2>1. SUFFICES ASSUME NEW z \in H, Len(at[z]) = n + 1, Above(p, at[z])
                 PROVE  \E y \in H : at[y] = p /\ (y # z => d[y].type = "dir")
    OBVIOUS
  <2>2. z # RootOffset
    BY <1>1, <2>1
  <2>3. PICK q \in H : /\ Len(at[z]) = Len(at[q]) + 1 /\ d[q].type = "dir"
                       /\ Above(p, at[q]) \/ p = at[z]
    BY <1>2, <2>1, <2>2
  <2>4. CASE p = at[z]
    BY <2>1, <2>4
  <2>5. CASE Above(p, at[q])
    <3>1. Len(at[q]) = n
      BY <1>1, <2>1, <2>3
    <3>2. PICK y \in H : at[y] = p /\ (y # q => d[y].type = "dir")
      BY <1>4, <2>5, <3>1
    <3>. QED BY <2>3, <3>2
  <2>. QED BY <2>3, <2>4, <2>5
<1>5. Nat \subseteq S
  <2>. HIDE DEF S
  <2>. QED BY <1>3, <1>4, SetInduction
<1>6. Len(at[x]) \in Nat
  BY <1>1
<1>. QED BY <1>5, <1>6

\* Nothing lies below a file.
LEMMA NothingBelow ==
    ASSUME NEW t, NEW d, NEW cached, NEW H, NEW at, Tidy(t, d, cached, H, at),
           NEW f \in H, d[f].type = "file", NEW x \in H, Above(at[f], at[x])
    PROVE  x = f
<1>1. PICK y \in H : at[y] = at[f] /\ (y # x => d[y].type = "dir")
  BY Ancestors, NodeType
<1>2. y = f
  BY <1>1 DEF Tidy, Hangs
<1>. QED BY <1>1, <1>2

\* The paths when what is at from, and below it, is found at to under another path.
Renamed(H, at, from, to, path) ==
    [x \in (H \ {from}) \union {to} |-> Shifted(at[from], path, at[IF x = to THEN from ELSE x])]

\* A node moves to an empty slot, and what lies below it with it.
LEMMA Relocated ==
    ASSUME NEW t, NEW d, NEW cached, NEW H, NEW at, Tidy(t, d, cached, H, at),
           NEW from \in H, from # RootOffset,
           NEW q \in H, d[q].type = "dir", NEW i \in First(q) .. d[q].length - 1,
           NEW to, to = Slot(d[q], i), to \notin H, NEW name \in Names,
           \A x \in H : at[x] # Append(at[q], name),
           d[from].type = "file" \/ Listed(d, at, q, from)
    PROVE  Tidy(t, Moved(d, d[from], from, to, name), cached, (H \ {from}) \union {to},
                Renamed(H, at, from, to, Append(at[q], name)))
<1>. DEFINE src == at[from]
            dest == Append(at[q], name)
            d2 == Moved(d, d[from], from, to, name)
            H2 == (H \ {from}) \union {to}
            old(x) == IF x = to THEN from ELSE x
            at2 == [x \in H2 |-> Shifted(src, dest, at[old(x)])]
            there == [d[from] EXCEPT !.name = name]
<1>1. /\ d \in [Offsets -> Entry] /\ RootKept(d, cached) /\ Rooted(d, H, at)
      /\ Table(t) /\ Marked(t) /\ H \subseteq Offsets /\ RootOffset \in H
      /\ \A x \in H : at[x] \in Seq(Names)
  BY NodeType DEF Tidy, Hangs, Rooted
<1>2. i \in 1 .. EntriesPerBlock - 1 /\ i \in First(q) .. EntriesPerBlock - 1 /\ i \in 0 .. EntriesPerBlock - 1
  <2>1. d[q].length <= EntriesPerBlock /\ d[q].length \in Nat
    BY DirectoryType
  <2>. QED BY <2>1, NamespaceAssumption DEF First
<1>3. to \in Offsets /\ to # RootOffset /\ to # RootOffset + 1 /\ to # from
  BY <1>2, DirectoryType, DirectorySlots
<1>4. \A x \in H : d[x].type = "dir" => Slot(d[x], 0) # to
  <2>1. SUFFICES ASSUME NEW x \in H, Slot(d[x], 0) = to PROVE FALSE
    OBVIOUS
  <2>2. 0 \in 0 .. EntriesPerBlock - 1 /\ i # 0
    BY <1>2, NamespaceAssumption
  <2>3. d[x].start \in Int /\ d[q].start \in Int
    BY NodeType, BlockAssumption DEF DataBlocks, RootBlock
  <2>. QED BY <1>2, <2>1, <2>2, <2>3, SlotIsOne DEF Slot
<1>5. RootOffset + 1 # from /\ \A x \in H : d[x].type = "dir" /\ x # RootOffset => Slot(d[x], 0) # from
  BY RootType, DirectorySlots
<1>6. there \in Entry /\ there.name = name /\ there.type = d[from].type
      /\ there.start = d[from].start /\ there.length = d[from].length
  <2>1. d[from] \in Entry
    BY <1>1
  <2>. QED BY <2>1 DEF Entry
<1>7. d2 \in [Offsets -> Entry]
  BY <1>1, MovedType
<1>8. d2[to] = there /\ d2[from] = Nothing /\ \A x \in Offsets : x # to /\ x # from => d2[x] = d[x]
  <2>. DEFINE d1 == [d EXCEPT ![to] = there]
  <2>1. d2 = [d1 EXCEPT ![from] = Nothing]
    BY DEF Moved
  <2>. HIDE DEF d2, there
  <2>2. d1 \in [Offsets -> Entry] /\ d1[to] = there /\ \A x \in Offsets : x # to => d1[x] = d[x]
    BY <1>1, <1>3, <1>6
  <2>. HIDE DEF d1
  <2>. QED BY <1>1, <1>3, <2>1, <2>2
<1>9. /\ RootOffset + 1 \in Offsets
      /\ \A x \in H : d[x].type = "dir" =>
            /\ Slot(d[x], 0) \in Offsets
            /\ \A k \in First(x) .. d[x].length - 1 : Slot(d[x], k) \in Offsets
  BY RootType, DirectoryType
<1>10. \A x \in H2 : /\ old(x) \in H /\ (x = to <=> old(x) = from)
                     /\ x # to => old(x) = x /\ x \in H /\ x # from
  BY <1>3
<1>11. to \in H2 /\ \A x \in H : x # from => x \in H2 /\ x # to
  OBVIOUS
<1>12. old(to) = from
  OBVIOUS
<1>13. src \in Seq(Names) /\ dest \in Seq(Names) /\ dest # <<>>
  BY <1>1, AppendAbove
<1>14. at2 \in [H2 -> Seq(Names)] /\ \A x \in H2 : at2[x] = Shifted(src, dest, at[old(x)])
  <2>. HIDE DEF H2, old, src, dest
  <2>. QED BY <1>1, <1>10, <1>13, ShiftedPaths
<1>15. at2[to] = dest
  <2>. HIDE DEF src, dest, at2, H2, old
  <2>. QED BY <1>11, <1>12, <1>13, <1>14, ShiftedPaths DEF src
<1>. HIDE DEF src, dest, d2, H2, old, at2, there
<1>16. \A x, y \in H : at[x] = at[y] => x = y
  BY DEF Tidy, Hangs
<1>17. ~Above(src, at[q]) /\ q # from
  <2>1. CASE d[from].type = "file"
    <3>1. q # from
      BY <2>1
    <3>. QED BY <2>1, <3>1, NothingBelow DEF src
  <2>2. CASE Listed(d, at, q, from)
    <3>1. src = Append(at[q], d[from].name) /\ d[from].name \in Names
      BY <2>2 DEF Listed, src
    <3>2. ~Above(src, at[q])
      BY <1>1, <3>1, AppendAbove
    <3>. QED BY <1>13, <3>2, ShiftedPaths DEF src
  <2>. QED BY <2>1, <2>2
<1>18. q \in H2 /\ old(q) = q /\ at2[q] = at[q] /\ d2[q] = d[q]
  <2>1. q \in H2 /\ old(q) = q
    BY <1>10, <1>11, <1>17
  <2>. QED BY <1>1, <1>8, <1>11, <1>14, <1>17, <2>1 DEF Shifted
<1>19. at2[RootOffset] = <<>> /\ RootOffset \in H2 /\ d2[RootOffset] = d[RootOffset]
       /\ d2[RootOffset + 1] = d[RootOffset + 1]
  <2>1. RootOffset \in H2 /\ old(RootOffset) = RootOffset /\ at[RootOffset] = <<>>
    BY <1>1, <1>10, <1>11, RootType
  <2>2. ~Above(src, <<>>)
    <3>1. src # <<>>
      BY <1>1, <1>16, <2>1 DEF src
    <3>. QED BY <1>13, <3>1 DEF Above
  <2>. QED BY <1>1, <1>3, <1>5, <1>8, <1>14, <1>9, <2>1, <2>2 DEF Shifted
<1>20. Rooted(d2, H2, at2) /\ RootKept(d2, cached)
  <2>1. H2 \subseteq Offsets
    BY <1>1, <1>3, <1>10
  <2>. QED BY <1>1, <1>14, <1>19, <2>1 DEF Rooted, RootKept
<1>21. \A x \in H2 : /\ d2[x].type = d[old(x)].type /\ d2[x].start = d[old(x)].start
                     /\ d2[x].length = d[old(x)].length /\ First(x) = First(old(x))
  <2>1. SUFFICES ASSUME NEW x \in H2
                 PROVE  /\ d2[x].type = d[old(x)].type /\ d2[x].start = d[old(x)].start
                        /\ d2[x].length = d[old(x)].length /\ First(x) = First(old(x))
    OBVIOUS
  <2>2. CASE x = to
    BY <1>3, <1>6, <1>8, <1>10, <2>2 DEF First
  <2>3. CASE x # to
    BY <1>1, <1>8, <1>10, <2>3
  <2>. QED BY <2>2, <2>3
<1>22. \A x \in H2 : \A k : Slot(d2[x], k) = Slot(d[old(x)], k)
  BY <1>21 DEF Slot
<1>23. ASSUME NEW x \in H2 PROVE Kempt(d2, H2, x)
  <2>1. Kempt(d, H, old(x))
    BY <1>10 DEF Tidy, Hangs
  <2>2. \A o \in Offsets : o \in H \/ d[o].start = FREE => o \in H2 \/ d2[o].start = FREE
    BY <1>8, <1>11 DEF Nothing
  <2>. QED BY <1>10, <1>21, <1>22, <1>9, <2>1, <2>2 DEF Kempt
<1>24. \A c \in H : d[c].type = "dir" /\ c # RootOffset => d2[Slot(d[c], 0)] = d[Slot(d[c], 0)]
  BY <1>4, <1>5, <1>8, <1>9
<1>25. ASSUME NEW c \in H2, c # RootOffset PROVE \E y \in H2 : Listed(d2, at2, y, c)
  <2>1. CASE c = to
    <3>1. d2[to].type = "dir" => /\ d2[Slot(d2[to], 0)].name = DotDot
                                 /\ d2[Slot(d2[to], 0)].start = d2[q].start
      <4>1. SUFFICES ASSUME d[from].type = "dir"
                     PROVE  /\ d2[Slot(d2[to], 0)].name = DotDot
                            /\ d2[Slot(d2[to], 0)].start = d2[q].start
        BY <1>6, <1>8
      <4>2. Listed(d, at, q, from)
        BY <4>1
      <4>3. d2[Slot(d2[to], 0)] = d[Slot(d[from], 0)]
        BY <1>11, <1>12, <1>22, <1>24, <4>1
      <4>. QED BY <1>18, <4>1, <4>2, <4>3 DEF Listed
    <3>2. \E k \in First(q) .. d2[q].length - 1 : to = Slot(d2[q], k)
      BY <1>18
    <3>3. d2[to].name = name /\ at2[to] = Append(at2[q], name) /\ d2[q].type = "dir"
      BY <1>6, <1>8, <1>15, <1>18 DEF dest
    <3>4. Listed(d2, at2, q, to)
      BY <3>1, <3>2, <3>3 DEF Listed
    <3>. QED BY <1>18, <2>1, <3>4
  <2>2. CASE c # to
    <3>1. c \in H /\ c # from /\ old(c) = c /\ d2[c] = d[c]
      BY <1>1, <1>8, <1>10, <2>2
    <3>2. PICK y \in H : Listed(d, at, y, c)
      BY <1>25, <3>1 DEF Tidy, Hangs
    <3>. DEFINE y2 == IF y = from THEN to ELSE y
    <3>3. y2 \in H2 /\ old(y2) = y
      BY <1>10, <1>11, <1>12
    <3>. HIDE DEF y2
    <3>4. at2[c] = Append(at2[y2], d2[c].name)
      <4>1. at[c] = Append(at[y], d[c].name) /\ d[c].name \in Names /\ at[c] # src
        BY <1>16, <3>1, <3>2 DEF Listed, src
      <4>2. at[y] \in Seq(Names) /\ src # Append(at[y], d[c].name)
        BY <1>1, <3>2, <4>1
      <4>3. Shifted(src, dest, Append(at[y], d[c].name)) = Append(Shifted(src, dest, at[y]), d[c].name)
        BY <1>13, <4>1, <4>2, ShiftedAppend
      <4>4. at2[c] = Shifted(src, dest, at[c]) /\ at2[y2] = Shifted(src, dest, at[y])
        BY <1>14, <1>25, <3>1, <3>3
      <4>. QED BY <3>1, <4>1, <4>3, <4>4
    <3>5. \E k \in First(y2) .. d2[y2].length - 1 : c = Slot(d2[y2], k)
      BY <1>21, <1>22, <3>2, <3>3 DEF Listed
    <3>6. d[c].type = "dir" => d2[Slot(d[c], 0)] = d[Slot(d[c], 0)]
      BY <1>24, <1>25, <3>1
    <3>7. Listed(d2, at2, y2, c)
      BY <1>21, <3>1, <3>2, <3>3, <3>4, <3>5, <3>6 DEF Listed
    <3>. QED BY <3>3, <3>7
  <2>. QED BY <2>1, <2>2
<1>26. ASSUME NEW x \in H, NEW y \in H, Shifted(src, dest, at[x]) = Shifted(src, dest, at[y]), Above(src, at[x])
       PROVE  at[x] = at[y]
  <2>1. CASE Above(src, at[y])
    BY <1>1, <1>13, <1>26, <2>1, ShiftedIsOne
  <2>2. CASE ~Above(src, at[y])
    <3>1. Above(dest, at[y])
      <4>1. Shifted(src, dest, at[y]) = at[y]
        BY <2>2 DEF Shifted
      <4>2. Above(dest, Shifted(src, dest, at[x]))
        BY <1>1, <1>13, <1>26, ShiftedPaths
      <4>. QED BY <1>26, <4>1, <4>2
    <3>2. \E z \in H : at[z] = dest
      BY <1>13, <3>1, Ancestors
    <3>. QED BY <3>2 DEF dest
  <2>. QED BY <2>1, <2>2
<1>27. \A x, y \in H2 : at2[x] = at2[y] => x = y
  <2>1. SUFFICES ASSUME NEW x \in H2, NEW y \in H2, at2[x] = at2[y] PROVE x = y
    OBVIOUS
  <2>2. Shifted(src, dest, at[old(x)]) = Shifted(src, dest, at[old(y)]) /\ old(x) \in H /\ old(y) \in H
    BY <1>10, <1>14, <2>1
  <2>3. at[old(x)] = at[old(y)]
    <3>1. CASE Above(src, at[old(x)])
      BY <1>26, <2>2, <3>1
    <3>2. CASE Above(src, at[old(y)])
      BY <1>26, <2>2, <3>2
    <3>3. CASE ~Above(src, at[old(x)]) /\ ~Above(src, at[old(y)])
      BY <2>2, <3>3 DEF Shifted
    <3>. QED BY <3>1, <3>2, <3>3
  <2>4. old(x) = old(y)
    BY <1>16, <2>2, <2>3
  <2>. QED BY <1>10, <2>4
<1>28. Owns(t, d2, H2)
  <2>1. \A x \in H2 : Exact(t, d2[x])
    <3>1. SUFFICES ASSUME NEW x \in H2 PROVE Exact(t, d2[x])
      OBVIOUS
    <3>2. Exact(t, d[old(x)]) /\ d2[x].start = d[old(x)].start /\ Needs(d2[x]) = Needs(d[old(x)])
      BY <1>10, <1>21 DEF Tidy, Owns, Needs
    <3>. QED BY <3>2 DEF Exact
  <2>2. \A x, y \in H2 : x # y => Chain(t, d2[x].start) \cap Chain(t, d2[y].start) = {}
    <3>1. SUFFICES ASSUME NEW x \in H2, NEW y \in H2, x # y
                   PROVE  Chain(t, d2[x].start) \cap Chain(t, d2[y].start) = {}
      OBVIOUS
    <3>2. old(x) \in H /\ old(y) \in H /\ old(x) # old(y)
      BY <1>10, <3>1
    <3>. QED BY <1>21, <3>2 DEF Tidy, Owns
  <2>3. \A b \in DataBlocks : t[b] = FREE \/ \E x \in H2 : b \in Chain(t, d2[x].start)
    <3>1. SUFFICES ASSUME NEW b \in DataBlocks, t[b] # FREE PROVE \E x \in H2 : b \in Chain(t, d2[x].start)
      OBVIOUS
    <3>2. PICK x \in H : b \in Chain(t, d[x].start)
      BY <3>1 DEF Tidy, Owns
    <3>3. \E z \in H2 : old(z) = x
      BY <1>10, <1>11, <1>12
    <3>. QED BY <1>21, <3>2, <3>3
  <2>. QED BY <2>1, <2>2, <2>3 DEF Owns
<1>29. Tidy(t, d2, cached, H2, at2)
  BY <1>1, <1>7, <1>20, <1>23, <1>25, <1>27, <1>28 DEF Tidy, Hangs
<1>. QED BY <1>29 DEF d2, H2, at2, old, src, dest, Renamed

\* A partition that was just made holds its root.
LEMMA JustMade ==
    ASSUME NEW d \in [Offsets -> Entry]
    PROVE  Tidy(InitFAT, WriteEntry(d, RootOffset, NewRoot), NewRoot, {RootOffset},
                [x \in {RootOffset} |-> <<>>])
<1>. DEFINE d2 == WriteEntry(d, RootOffset, NewRoot)
            H == {RootOffset}
            at == [x \in H |-> <<>>]
<1>1. /\ NewRoot \in Entry /\ NewRoot.name = Dot /\ NewRoot.type = "dir" /\ NewRoot.start = RootBlock
      /\ NewRoot.length = 2
  BY EntryType DEF NewRoot
<1>2. RootOffset \in Offsets /\ RootOffset + 1 \in Offsets /\ RootOffset + 1 # RootOffset
  <2>1. RootBlock \in DataBlocks /\ 1 \in 0 .. EntriesPerBlock - 1
    BY BlockAssumption, NamespaceAssumption DEF DataBlocks, RootBlock
  <2>2. RootOffset + 1 \in Offsets
    BY <2>1, SlotInRange DEF RootOffset
  <2>. QED BY <2>2, RootInRange DEF Offsets
<1>3. /\ d2 \in [Offsets -> Entry] /\ d2[RootOffset] = NewRoot
      /\ d2[RootOffset + 1] = [NewRoot EXCEPT !.name = DotDot]
  <2>1. d2 \in [Offsets -> Entry]
    BY <1>1, WriteEntryType
  <2>. HIDE DEF d2
  <2>2. d2 = [d EXCEPT ![RootOffset] = NewRoot, ![RootOffset + 1] = [NewRoot EXCEPT !.name = DotDot]]
    BY DEF d2, WriteEntry
  <2>. QED BY <1>1, <1>2, <2>1, <2>2
<1>4. at \in [H -> Seq(Names)] /\ at[RootOffset] = <<>>
  OBVIOUS
<1>. HIDE DEF d2, at
<1>5. Table(InitFAT) /\ Marked(InitFAT)
  BY InitFATIsTable, BlockAssumption DEF InitFAT, Marked, Blocks
<1>6. RootKept(d2, NewRoot)
  BY <1>1, <1>3 DEF RootKept
<1>7. Kempt(d2, H, RootOffset)
  <2>1. 2 \in 2 .. EntriesPerBlock /\ 2 .. 2 - 1 = {}
    BY NamespaceAssumption
  <2>. QED BY <1>1, <1>3, <2>1 DEF Kempt, First
<1>8. Hangs(d2, H, at)
  <2>1. Rooted(d2, H, at)
    BY <1>2, <1>3, <1>4 DEF Rooted
  <2>. QED BY <1>7, <2>1 DEF Hangs
<1>9. InitFAT[RootBlock] = FINAL /\ RootBlock \in DataBlocks
      /\ \A b \in DataBlocks : b # RootBlock => InitFAT[b] = FREE
  BY BlockAssumption DEF InitFAT, DataBlocks, RootBlock, Blocks
<1>10. Owns(InitFAT, d2, H)
  <2>1. Needs(NewRoot) = 1
    <3>1. \A e \in Nat : e >= 2 => (2 + e - 1) \div e = 1
      BY Z3
    <3>. QED BY <1>1, <3>1, NamespaceAssumption DEF Needs, BlocksFor
  <2>2. Exact(InitFAT, NewRoot) /\ Chain(InitFAT, RootBlock) = {RootBlock}
    BY <1>1, <1>9, <2>1, SingleExact, SingleChain
  <2>. QED BY <1>1, <1>3, <1>9, <2>2 DEF Owns
<1>11. Tidy(InitFAT, d2, NewRoot, H, at)
  BY <1>3, <1>5, <1>6, <1>8, <1>10 DEF Tidy
<1>. QED BY <1>11 DEF d2, at

\* An entry that needs as many blocks as the node had keeps its chain.
LEMMA SameOwns ==
    ASSUME NEW t, NEW d, NEW cached, NEW H, NEW at, Tidy(t, d, cached, H, at),
           NEW o \in H, NEW entry, entry.start = d[o].start, Needs(entry) = Needs(d[o])
    PROVE  Reowns(t, t, entry)
<1>1. Exact(t, entry)
  BY DEF Tidy, Owns, Exact
<1>. QED BY <1>1 DEF Reowns, Tidy

\* An empty entry in an empty slot, or behind the last one.
RoomDisk(d, q, i, entry, grown) ==
    IF grown = 0 THEN [d EXCEPT ![Slot(d[q], i)] = entry]
    ELSE WriteEntry([d EXCEPT ![Slot(d[q], i)] = entry], q, [d[q] EXCEPT !.length = @ + 1])
RoomCache(d, cached, q, grown) ==
    IF grown = 0 THEN cached ELSE CacheEntry(cached, [d[q] EXCEPT !.length = @ + 1])

\* Where newFile finds room in a directory of one block.
Room(d, H, q, i, grown) ==
    /\ q \in H /\ d[q].type = "dir" /\ i \in First(q) .. EntriesPerBlock - 1 /\ grown \in {0, 1}
    /\ grown = 0 => i < d[q].length /\ Slot(d[q], i) \notin H
    /\ grown = 1 => i = d[q].length

LEMMA RoomMade ==
    ASSUME NEW t, NEW d, NEW cached, NEW H, NEW at, Tidy(t, d, cached, H, at),
           NEW q, NEW i, NEW grown, Room(d, H, q, i, grown),
           NEW entry \in Entry, entry.start = FREE
    PROVE  /\ Tidy(t, RoomDisk(d, q, i, entry, grown), RoomCache(d, cached, q, grown), H, at)
           /\ Slot(d[q], i) \notin H /\ Slot(d[q], i) \in Offsets
           /\ RoomDisk(d, q, i, entry, grown)[q].type = "dir"
           /\ RoomDisk(d, q, i, entry, grown)[q].start = d[q].start
           /\ i \in First(q) .. RoomDisk(d, q, i, entry, grown)[q].length - 1
           /\ \A x \in H : x # q => RoomDisk(d, q, i, entry, grown)[x] = d[x]
<1>. DEFINE o == Slot(d[q], i)
            d1 == [d EXCEPT ![o] = entry]
            parent == [d[q] EXCEPT !.length = @ + 1]
<1>. USE DEF Room
<1>1. /\ d \in [Offsets -> Entry] /\ RootKept(d, cached) /\ Rooted(d, H, at)
      /\ Table(t) /\ Marked(t) /\ H \subseteq Offsets /\ RootOffset \in H
  BY DEF Tidy, Hangs, Rooted
<1>2. i \in 0 .. EntriesPerBlock - 1 /\ i # 0
  BY NamespaceAssumption DEF First
<1>3. o \in Offsets /\ o # RootOffset /\ o # RootOffset + 1
  BY <1>2, DirectoryType, DirectorySlots
<1>4. o \notin H
  <2>1. SUFFICES ASSUME o \in H, grown = 1 PROVE FALSE
    OBVIOUS
  <2>2. i \in First(q) .. d[q].length - 1
    BY <1>2, <1>3, <2>1, SlotOfNode
  <2>3. d[q].length \in Nat
    BY DirectoryType
  <2>. QED BY <2>1, <2>2, <2>3
<1>5. \A b \in H : d[b].start \in Int
  BY NodeType, BlockAssumption DEF DataBlocks, RootBlock
<1>6. \A x \in H : d[x].type = "dir" =>
          /\ Slot(d[x], 0) # o /\ Slot(d[x], 0) \in Offsets
          /\ \A k \in First(x) .. d[x].length - 1 : Slot(d[x], k) \in Offsets
  <2>1. SUFFICES ASSUME NEW x \in H, d[x].type = "dir" PROVE Slot(d[x], 0) # o
    BY DirectoryType
  <2>2. 0 \in 0 .. EntriesPerBlock - 1
    BY NamespaceAssumption
  <2>. QED BY <1>2, <1>5, <2>2, SlotIsOne DEF Slot
<1>7. d1 \in [Offsets -> Entry] /\ d1[o] = entry /\ \A x \in Offsets : x # o => d1[x] = d[x]
  <2>. HIDE DEF o
  <2>. QED BY <1>1, <1>3
<1>. HIDE DEF o, d1
<1>8. \A x \in H : d1[x] = d[x]
  BY <1>1, <1>4, <1>7
<1>9. SameSight(d, d1, H)
  <2>1. d1[RootOffset + 1] = d[RootOffset + 1]
    BY <1>3, <1>7, RootType
  <2>2. \A s \in Offsets : d1[s].start \in {d[s].start, FREE}
    BY <1>7
  <2>. QED BY <1>6, <1>7, <1>8, <2>1, <2>2 DEF SameSight
<1>10. Tidy(t, d1, cached, H, at)
  BY <1>7, <1>9, Unseen
<1>11. CASE grown = 0
  <2>1. RoomDisk(d, q, i, entry, grown) = d1 /\ RoomCache(d, cached, q, grown) = cached
    BY <1>11 DEF RoomDisk, RoomCache, d1, o
  <2>2. d[q].length \in Nat /\ i \in First(q) .. d[q].length - 1
    <3>1. d[q].length \in Nat
      BY DirectoryType
    <3>. QED BY <1>11, <3>1
  <2>. QED BY <1>3, <1>4, <1>8, <1>10, <2>1, <2>2 DEF o
<1>12. CASE grown = 1
  <2>1. RoomDisk(d, q, i, entry, grown) = WriteEntry(d1, q, parent)
        /\ RoomCache(d, cached, q, grown) = CacheEntry(cached, parent)
    BY <1>12 DEF RoomDisk, RoomCache, d1, o
  <2>2. d[q] \in Entry /\ d[q].length \in Nat /\ d[q].length >= 1 /\ d[q].length < EntriesPerBlock
        /\ First(q) <= d[q].length /\ Needs(d[q]) = 1 /\ i = d[q].length /\ First(q) \in {1, 2}
    <3>1. d[q] \in Entry /\ d[q].length \in Nat /\ d[q].length >= 1 /\ Needs(d[q]) = 1
          /\ First(q) <= d[q].length /\ First(q) \in {1, 2}
      BY <1>1, DirectoryType
    <3>. QED BY <1>12, <3>1, NamespaceAssumption
  <2>3. /\ parent \in Entry /\ parent.name = d[q].name /\ parent.type = d[q].type
        /\ parent.start = d[q].start /\ parent.length = d[q].length + 1
    BY <2>2 DEF Entry
  <2>. HIDE DEF parent
  <2>4. Needs(parent) = 1
    <3>1. \A e, l \in Nat : l >= 1 /\ l <= e => (l + e - 1) \div e = 1
      BY Z3
    <3>2. EntriesPerBlock \in Nat
      BY NamespaceAssumption
    <3>3. parent.length \in Nat /\ parent.length >= 1 /\ parent.length <= EntriesPerBlock
          /\ parent.length # 0
      BY <2>2, <2>3, <3>2
    <3>4. (parent.length + EntriesPerBlock - 1) \div EntriesPerBlock = 1
      BY <3>1, <3>2, <3>3
    <3>. QED BY <3>3, <3>4 DEF Needs, BlocksFor
  <2>5. d1[q] = d[q]
    BY <1>8
  <2>6. Reowns(t, t, parent)
    BY <1>10, <2>2, <2>3, <2>4, <2>5, SameOwns
  <2>7. \A k \in First(q) .. parent.length - 1 : Slot(parent, k) \in H \/ d1[Slot(parent, k)].start = FREE
    <3>1. SUFFICES ASSUME NEW k \in First(q) .. parent.length - 1
                   PROVE  Slot(parent, k) \in H \/ d1[Slot(parent, k)].start = FREE
      OBVIOUS
    <3>2. Slot(parent, k) = Slot(d[q], k) /\ Slot(d1[q], k) = Slot(d[q], k)
      BY <2>3, <2>5 DEF Slot
    <3>3. CASE k = i
      BY <1>7, <3>2, <3>3 DEF o
    <3>4. CASE k # i
      <4>1. k \in First(q) .. d1[q].length - 1
        BY <2>2, <2>3, <2>5, <3>1, <3>4
      <4>2. Kempt(d1, H, q)
        BY <1>10 DEF Tidy, Hangs
      <4>. QED BY <2>5, <3>2, <4>1, <4>2 DEF Kempt
    <3>. QED BY <3>3, <3>4
  <2>8. d1[q].length <= parent.length /\ parent.length \in First(q) .. EntriesPerBlock
    BY <2>2, <2>3, <2>5, NamespaceAssumption
  <2>9. Tidy(t, WriteEntry(d1, q, parent), CacheEntry(cached, parent), H, at)
    BY <1>10, <2>3, <2>5, <2>6, <2>7, <2>8, Resaved
  <2>10. WriteEntry(d1, q, parent)[q] = parent
         /\ \A x \in Offsets : x # q /\ x # RootOffset + 1 => WriteEntry(d1, q, parent)[x] = d1[x]
    BY <1>10, <2>3, <2>5, WrittenEntry
  <2>11. RootOffset + 1 \notin H
    BY DirectorySlots
  <2>12. i \in First(q) .. parent.length - 1
    BY <2>2, <2>3
  <2>. QED BY <1>1, <1>3, <1>4, <1>8, <2>1, <2>3, <2>9, <2>10, <2>11, <2>12 DEF o
<1>. QED BY <1>11, <1>12 DEF Room

-----------------------------------------------------------------------------
(* What the driver finds is the tree.                                       *)

\* The driver reads a node's entry off the disk, the root's out of its cache.
LEMMA NodeEntry ==
    ASSUME NEW H, NEW at, Tidy(fat, disk, root, H, at), NEW o \in H
    PROVE  EntryAt(o) = disk[o]
BY RootType DEF EntryAt

\* The slots of a directory of one block.
LEMMA SlotAt ==
    ASSUME NEW table, NEW dir, NEW i \in 0 .. EntriesPerBlock - 1
    PROVE  SlotOffset(table, dir, i) = Slot(dir, i)
<1>1. \A e, x \in Nat : x < e => x \div e = 0 /\ x % e = x
  BY Z3
<1>2. EntriesPerBlock \in Nat /\ i \in Nat /\ i < EntriesPerBlock
  BY NamespaceAssumption
<1>3. i \div EntriesPerBlock = 0 /\ i % EntriesPerBlock = i
  BY <1>1, <1>2
<1>4. Hop(table, dir.start, 0) = dir.start
  BY DEF Hop
<1>. QED BY <1>3, <1>4 DEF SlotOffset, Slot

\* Every directory can be read.
LEMMA Readable ==
    ASSUME NEW t, NEW d, NEW cached, NEW H, NEW at, Tidy(t, d, cached, H, at), NEW q \in H,
           NEW table
    PROVE  DirStatus(table, d[q]) = IF d[q].type = "dir" THEN "OK" ELSE "ENOTDIR"
<1>1. CASE d[q].type = "dir"
  <2>1. d[q].length # 0 /\ BlocksFor(d[q].length) = 1
    BY <1>1, DirectoryType
  <2>2. 1 .. 1 - 1 = {}
    OBVIOUS
  <2>. QED BY <1>1, <2>1, <2>2 DEF DirStatus
<1>2. CASE d[q].type # "dir"
  BY <1>2 DEF DirStatus
<1>. QED BY <1>1, <1>2

\* What lies under a name lies in the directory above.
LEMMA ChildOf ==
    ASSUME NEW t, NEW d, NEW cached, NEW H, NEW at, Tidy(t, d, cached, H, at),
           NEW c \in H, NEW s \in Seq(Names), NEW n \in Names, at[c] = Append(s, n)
    PROVE  /\ c # RootOffset /\ d[c].name = n
           /\ \E q \in H : at[q] = s /\ d[q].type = "dir" /\ Listed(d, at, q, c)
<1>1. at[c] # <<>>
  BY AppendAbove
<1>2. c # RootOffset
  BY <1>1, RootType
<1>3. PICK q \in H : Listed(d, at, q, c)
  BY <1>2 DEF Tidy, Hangs
<1>4. d[q].type = "dir" /\ at[c] = Append(at[q], d[c].name) /\ d[c].name \in Names /\ at[q] \in Seq(Names)
  BY <1>3, NodeType DEF Listed
<1>5. at[q] = s /\ d[c].name = n
  <2>. DEFINE u == at[q]
              e == d[c].name
  <2>1. u \in Seq(Names) /\ e \in Names /\ Append(u, e) = Append(s, n)
    BY <1>4
  <2>. HIDE DEF u, e
  <2>2. /\ Len(Append(u, e)) = Len(u) + 1 /\ Len(Append(s, n)) = Len(s) + 1
        /\ Len(u) \in Nat /\ Len(s) \in Nat
        /\ Append(u, e)[Len(u) + 1] = e /\ Append(s, n)[Len(s) + 1] = n
        /\ \A k \in 1 .. Len(u) : Append(u, e)[k] = u[k]
        /\ \A k \in 1 .. Len(s) : Append(s, n)[k] = s[k]
    BY <2>1
  <2>3. Len(u) = Len(s) /\ e = n /\ \A k \in 1 .. Len(u) : u[k] = s[k]
    BY <2>1, <2>2
  <2>4. u = s
    BY <2>1, <2>3, SeqEqual
  <2>. QED BY <2>3, <2>4 DEF u, e
<1>. QED BY <1>2, <1>3, <1>4, <1>5

\* A name in a directory leads to the node under it.
LEMMA LocatedIs ==
    ASSUME NEW H, NEW at, Tidy(fat, disk, root, H, at),
           NEW q \in H, disk[q].type = "dir", NEW n \in Names
    PROVE  Located(disk[q], n) = {c \in H : at[c] = Append(at[q], n)}
<1>. DEFINE S == {c \in H : at[c] = Append(at[q], n)}
            M == {i \in 0 .. disk[q].length - 1 :
                     LET entry == disk[SlotOffset(fat, disk[q], i)]
                     IN  entry.name = n /\ ~IsFree(fat, entry)}
<1>1. disk[q].length \in Nat /\ disk[q].length <= EntriesPerBlock /\ EntriesPerBlock \in Nat
      /\ First(q) \in {1, 2} /\ First(q) <= disk[q].length
  BY DirectoryType, NamespaceAssumption
<1>2. \A i \in 0 .. disk[q].length - 1 : i \in 0 .. EntriesPerBlock - 1
                                         /\ SlotOffset(fat, disk[q], i) = Slot(disk[q], i)
  <2>1. \A i \in 0 .. disk[q].length - 1 : i \in 0 .. EntriesPerBlock - 1
    BY <1>1
  <2>. QED BY <2>1, SlotAt
<1>3. ASSUME NEW i \in 0 .. disk[q].length - 1, i < First(q)
      PROVE  disk[Slot(disk[q], i)].name \in {Dot, DotDot}
  <2>1. CASE q = RootOffset
    <3>1. Slot(disk[q], 0) = RootOffset /\ Slot(disk[q], 1) = RootOffset + 1
      BY <2>1, RootType, RootSlot
    <3>2. disk[RootOffset].name = Dot /\ disk[RootOffset + 1].name = DotDot
      <4>1. disk[RootOffset + 1] = [disk[RootOffset] EXCEPT !.name = DotDot]
        BY DEF Tidy, Hangs, Rooted
      <4>2. disk[RootOffset] \in Entry
        BY RootType, NodeType
      <4>. QED BY <4>1, <4>2, RootType DEF Entry
    <3>3. i = 0 \/ i = 1
      BY <1>1, <1>3
    <3>. QED BY <3>1, <3>2, <3>3
  <2>2. CASE q # RootOffset
    <3>1. i = 0
      BY <1>1, <1>3, <2>2 DEF First
    <3>2. PICK y \in H : Listed(disk, at, y, q)
      BY <2>2 DEF Tidy, Hangs
    <3>. QED BY <3>1, <3>2 DEF Listed
  <2>. QED BY <2>1, <2>2
<1>4. ASSUME NEW i \in M PROVE Slot(disk[q], i) \in S
  <2>. DEFINE c == Slot(disk[q], i)
  <2>1. i \in 0 .. disk[q].length - 1 /\ i \in 0 .. EntriesPerBlock - 1
        /\ disk[c].name = n /\ ~IsFree(fat, disk[c])
    BY <1>2
  <2>2. ~(i < First(q))
    BY <1>3, <2>1, NamespaceAssumption
  <2>3. i \in First(q) .. disk[q].length - 1
    BY <1>1, <2>1, <2>2
  <2>4. c \in H
    <3>1. disk[c].start # FREE
      BY <2>1 DEF IsFree
    <3>. QED BY <2>3, <3>1 DEF Tidy, Hangs, Kempt
  <2>5. c # RootOffset
    <3>1. n # Dot
      BY NamespaceAssumption
    <3>. QED BY <2>1, <3>1, RootType
  <2>6. Listed(disk, at, q, c)
    BY <2>1, <2>4, <2>5, SlotOfNode
  <2>. QED BY <2>1, <2>4, <2>6 DEF Listed
<1>5. ASSUME NEW c \in S PROVE \E i \in M : c = Slot(disk[q], i)
  <2>1. c \in H /\ at[c] = Append(at[q], n) /\ at[q] \in Seq(Names)
    BY NodeType
  <2>2. disk[c].name = n /\ \E y \in H : at[y] = at[q] /\ Listed(disk, at, y, c)
    BY <2>1, ChildOf
  <2>3. Listed(disk, at, q, c)
    BY <2>2 DEF Tidy, Hangs
  <2>4. PICK i \in First(q) .. disk[q].length - 1 : c = Slot(disk[q], i)
    BY <2>3 DEF Listed
  <2>5. i \in 0 .. disk[q].length - 1
    BY <1>1
  <2>6. ~IsFree(fat, disk[c])
    BY <2>1, NodeType, BlockAssumption DEF IsFree, DataBlocks, RootBlock, FREE
  <2>. QED BY <1>2, <2>2, <2>4, <2>5, <2>6
<1>6. \A c, x \in S : c = x
  BY DEF Tidy, Hangs
<1>7. \A i, j \in M : i = j
  <2>1. SUFFICES ASSUME NEW i \in M, NEW j \in M PROVE i = j
    OBVIOUS
  <2>2. Slot(disk[q], i) = Slot(disk[q], j)
    BY <1>4, <1>6
  <2>3. disk[q].start \in Int /\ i \in 0 .. EntriesPerBlock - 1 /\ j \in 0 .. EntriesPerBlock - 1
    BY <1>2, NodeType, BlockAssumption DEF DataBlocks, RootBlock
  <2>. QED BY <2>2, <2>3, SlotIsOne DEF Slot
<1>8. \A i \in M : i \in Int /\ SlotOffset(fat, disk[q], i) = Slot(disk[q], i)
  BY <1>2
<1>9. S \subseteq Offsets
  BY NodeType
<1>10. Located(disk[q], n) = Offsets \cap {SlotOffset(fat, disk[q], i) : i \in Least(M)}
  BY DEF Located
<1>. HIDE DEF M, S
<1>11. Least(M) = M
  BY <1>7, <1>8 DEF Least
<1>12. {SlotOffset(fat, disk[q], i) : i \in M} = S
  BY <1>4, <1>5, <1>8
<1>. QED BY <1>9, <1>10, <1>11, <1>12 DEF S

\* A walk finds the node its path names so far, or knows that there is none.
Found(H, at, path, k) ==
    LET walk == Walk(path)[k]
    IN  \/ walk.ret = "OK" /\ walk.offset \in H /\ at[walk.offset] = SubSeq(path, 1, k)
        \/ walk.ret \in {"ENOENT", "ENOTDIR"} /\ \A x \in H : at[x] # SubSeq(path, 1, k)

LEMMA FoundStep ==
    ASSUME NEW H, NEW at, Tidy(fat, disk, root, H, at), NEW path \in Seq(Names),
           NEW k \in 1 .. Len(path), Found(H, at, path, k - 1)
    PROVE  /\ Found(H, at, path, k)
           /\ Walk(path)[k].ret = "OK" =>
                 /\ Walk(path)[k - 1].ret = "OK" /\ Walk(path)[k - 1].offset \in H
                 /\ at[Walk(path)[k - 1].offset] = SubSeq(path, 1, k - 1)
                 /\ disk[Walk(path)[k - 1].offset].type = "dir"
<1>. DEFINE before == Walk(path)[k - 1]
            after == Walk(path)[k]
            s == SubSeq(path, 1, k - 1)
            n == path[k]
            o == before.offset
<1>1. after = Descend(before, n)
  BY WalkSteps
<1>2. s \in Seq(Names) /\ n \in Names /\ SubSeq(path, 1, k) = Append(s, n)
  <2>1. s \in Seq(Names) /\ n \in Names /\ Len(s) = k - 1 /\ Len(path) \in Nat /\ k \in Nat
        /\ \A j \in 1 .. k - 1 : s[j] = path[j]
    OBVIOUS
  <2>2. SubSeq(path, 1, k) \in Seq(Names) /\ Len(SubSeq(path, 1, k)) = k
        /\ \A j \in 1 .. k : SubSeq(path, 1, k)[j] = path[j]
    OBVIOUS
  <2>. HIDE DEF s
  <2>3. Append(s, n) \in Seq(Names) /\ Len(Append(s, n)) = k
        /\ Append(s, n)[k] = n /\ \A j \in 1 .. k - 1 : Append(s, n)[j] = s[j]
    BY <2>1
  <2>4. \A j \in 1 .. k : SubSeq(path, 1, k)[j] = Append(s, n)[j]
    <3>1. \A j \in 1 .. k : j = k \/ j \in 1 .. k - 1
      BY <2>1
    <3>. QED BY <2>1, <2>2, <2>3, <3>1
  <2>. QED BY <2>1, <2>2, <2>3, <2>4, SeqEqual
<1>3. \/ before.ret = "OK" /\ o \in H /\ at[o] = s
      \/ before.ret \in {"ENOENT", "ENOTDIR"} /\ \A x \in H : at[x] # s
  BY DEF Found
<1>. HIDE DEF before, after, s, n, o
<1>4. ASSUME \A q \in H : at[q] = s => disk[q].type # "dir"
      PROVE  \A x \in H : at[x] # Append(s, n)
  BY <1>2, <1>4, ChildOf
<1>5. CASE before.ret # "OK"
  <2>1. after = before
    BY <1>1, <1>5 DEF Descend
  <2>2. \A x \in H : at[x] # Append(s, n)
    BY <1>3, <1>4, <1>5
  <2>. QED BY <1>2, <1>3, <1>5, <2>1, <2>2 DEF Found, before, after
<1>6. CASE before.ret = "OK" /\ disk[o].type # "dir"
  <2>1. o \in H /\ at[o] = s
    BY <1>3, <1>6
  <2>2. DirStatus(fat, EntryAt(before.offset)) = "ENOTDIR"
    <3>1. EntryAt(o) = disk[o]
      BY <2>1, NodeEntry
    <3>2. DirStatus(fat, disk[o]) = "ENOTDIR"
      BY <1>6, <2>1, Readable
    <3>. QED BY <3>1, <3>2 DEF o
  <2>3. after.ret = "ENOTDIR"
    BY <1>1, <1>6, <2>2 DEF Descend
  <2>4. \A x \in H : at[x] # Append(s, n)
    BY <1>4, <1>6, <2>1 DEF Tidy, Hangs
  <2>. QED BY <1>2, <2>3, <2>4 DEF Found, after
<1>7. CASE before.ret = "OK" /\ disk[o].type = "dir"
  <2>1. o \in H /\ at[o] = s
    BY <1>3, <1>7
  <2>2. EntryAt(before.offset) = disk[o] /\ DirStatus(fat, disk[o]) = "OK"
    <3>1. EntryAt(o) = disk[o]
      BY <2>1, NodeEntry
    <3>2. DirStatus(fat, disk[o]) = "OK"
      BY <1>7, <2>1, Readable
    <3>. QED BY <3>1, <3>2 DEF o
  <2>3. Located(disk[o], n) = {c \in H : at[c] = Append(s, n)}
    <3>1. \A x \in H, m \in Names :
              disk[x].type = "dir" => Located(disk[x], m) = {c \in H : at[c] = Append(at[x], m)}
      BY LocatedIs
    <3>2. Located(disk[o], n) = {c \in H : at[c] = Append(at[o], n)}
      BY <1>2, <1>7, <2>1, <3>1
    <3>. QED BY <2>1, <3>2
  <2>4. after = IF Located(disk[o], n) = {} THEN [ret |-> "ENOENT", offset |-> RootOffset]
                ELSE [ret |-> "OK", offset |-> CHOOSE x \in Located(disk[o], n) : TRUE]
    BY <1>1, <1>7, <2>2 DEF Descend
  <2>5. CASE Located(disk[o], n) = {}
    <3>1. after.ret = "ENOENT"
      BY <2>4, <2>5
    <3>. QED BY <1>2, <2>3, <2>5, <3>1 DEF Found, after
  <2>6. CASE Located(disk[o], n) # {}
    <3>1. after.ret = "OK" /\ after.offset \in Located(disk[o], n)
      BY <2>4, <2>6
    <3>2. after.offset \in H /\ at[after.offset] = SubSeq(path, 1, k)
      BY <1>2, <2>3, <3>1
    <3>3. Found(H, at, path, k)
      BY <3>1, <3>2 DEF Found, after
    <3>. QED BY <1>7, <2>1, <3>3 DEF before, o, s
  <2>. QED BY <2>5, <2>6
<1>. QED BY <1>5, <1>6, <1>7

\* find and the offset it is after: the node with the path, if there is one.
LEMMA Resolved ==
    ASSUME NEW H, NEW at, Tidy(fat, disk, root, H, at), NEW path \in Seq(Names)
    PROVE  /\ Resolve(path) = {o \in H : at[o] = path}
           /\ Find(path) \in {"OK", "ENOENT", "ENOTDIR"}
           /\ Find(path) = "OK" <=> \E o \in H : at[o] = path
<1>. DEFINE S == {k \in Nat : k <= Len(path) => Found(H, at, path, k)}
<1>1. 0 \in S
  <2>1. SubSeq(path, 1, 0) = <<>>
    OBVIOUS
  <2>2. Walk(path)[0].ret = "OK" /\ Walk(path)[0].offset = RootOffset
    BY WalkSteps
  <2>3. RootOffset \in H /\ at[RootOffset] = <<>>
    BY RootType
  <2>. QED BY <2>1, <2>2, <2>3 DEF Found
<1>2. ASSUME NEW k \in Nat, k \in S PROVE k + 1 \in S
  <2>1. SUFFICES ASSUME k + 1 <= Len(path) PROVE Found(H, at, path, k + 1)
    OBVIOUS
  <2>2. k <= Len(path) /\ k + 1 \in 1 .. Len(path) /\ (k + 1) - 1 = k
    BY <2>1
  <2>3. Found(H, at, path, (k + 1) - 1)
    BY <1>2, <2>2
  <2>. QED BY <2>2, <2>3, FoundStep
<1>3. Nat \subseteq S
  <2>. HIDE DEF S
  <2>. QED BY <1>1, <1>2, SetInduction
<1>4. Len(path) \in Nat /\ SubSeq(path, 1, Len(path)) = path
  OBVIOUS
<1>5. Found(H, at, path, Len(path))
  BY <1>3, <1>4
<1>6. /\ Find(path) \in {"OK", "ENOENT", "ENOTDIR"}
      /\ Find(path) = "OK" <=> \E o \in H : at[o] = path
  BY <1>4, <1>5 DEF Found, Find
<1>7. Resolve(path) = {o \in H : at[o] = path}
  <2>1. CASE path = <<>>
    <3>1. Resolve(path) = {RootOffset}
      BY <2>1 DEF Resolve
    <3>2. {o \in H : at[o] = path} = {RootOffset}
      BY <2>1, RootType DEF Tidy, Hangs
    <3>. QED BY <3>1, <3>2
  <2>2. CASE path # <<>> /\ Walk(path)[Len(path)].ret # "OK"
    <3>1. Resolve(path) = {}
      BY <2>2 DEF Resolve
    <3>2. Find(path) # "OK"
      BY <2>2 DEF Find
    <3>. QED BY <1>6, <3>1, <3>2
  <2>3. CASE path # <<>> /\ Walk(path)[Len(path)].ret = "OK"
    <3>. DEFINE o == Walk(path)[Len(path) - 1].offset
                s == SubSeq(path, 1, Len(path) - 1)
    <3>1. Len(path) \in 1 .. Len(path) /\ Len(path) - 1 \in Nat /\ path[Len(path)] \in Names
      BY <2>3
    <3>2. Found(H, at, path, Len(path) - 1)
      BY <1>3, <3>1
    <3>3. o \in H /\ at[o] = s /\ disk[o].type = "dir"
      BY <2>3, <3>1, <3>2, FoundStep
    <3>4. path = Append(s, path[Len(path)])
      <4>1. s \in Seq(Names) /\ Len(s) = Len(path) - 1 /\ \A j \in 1 .. Len(path) - 1 : s[j] = path[j]
        BY <3>1
      <4>. HIDE DEF s
      <4>2. LET t == Append(s, path[Len(path)])
            IN  /\ t \in Seq(Names) /\ Len(t) = Len(path)
                /\ t[Len(path)] = path[Len(path)] /\ \A j \in 1 .. Len(path) - 1 : t[j] = s[j]
        BY <3>1, <4>1
      <4>3. \A j \in 1 .. Len(path) : j = Len(path) \/ j \in 1 .. Len(path) - 1
        BY <3>1
      <4>4. \A j \in 1 .. Len(path) : Append(s, path[Len(path)])[j] = path[j]
        BY <4>1, <4>2, <4>3
      <4>. QED BY <4>2, <4>4, SeqEqual
    <3>5. Resolve(path) = Located(EntryAt(o), path[Len(path)])
      BY <2>3 DEF Resolve
    <3>. HIDE DEF o, s
    <3>6. Resolve(path) = {c \in H : at[c] = Append(s, path[Len(path)])}
      <4>1. EntryAt(o) = disk[o]
        BY <3>3, NodeEntry
      <4>2. Located(disk[o], path[Len(path)]) = {c \in H : at[c] = Append(at[o], path[Len(path)])}
        BY <3>1, <3>3, LocatedIs
      <4>. QED BY <3>3, <3>5, <4>1, <4>2
    <3>. QED BY <3>4, <3>6
  <2>. QED BY <2>1, <2>2, <2>3
<1>. QED BY <1>6, <1>7

-----------------------------------------------------------------------------
(* newFile, in a directory with room.                                       *)

\* newFile looks for room behind "." and "..".
LEMMA FirstIs ==
    ASSUME NEW H, NEW at, Tidy(fat, disk, root, H, at), NEW q \in H, disk[q].type = "dir"
    PROVE  FirstIndices(disk[q]) = {First(q)}
<1>1. Slot(disk[q], 0) = disk[q].start * EntriesPerBlock
  <2>1. disk[q].start \in Int /\ EntriesPerBlock \in Int
    BY NodeType, BlockAssumption, NamespaceAssumption DEF DataBlocks, RootBlock
  <2>2. \A x, e \in Int : x * e + 0 = x * e
    BY Z3
  <2>. QED BY <2>1, <2>2 DEF Slot
<1>2. CASE q = RootOffset
  <2>1. disk[Slot(disk[q], 0)].name = Dot
    BY <1>2, RootType, RootSlot
  <2>. QED BY <1>1, <1>2, <2>1 DEF FirstIndices, First
<1>3. CASE q # RootOffset
  <2>1. PICK y \in H : Listed(disk, at, y, q)
    BY <1>3 DEF Tidy, Hangs
  <2>2. disk[Slot(disk[q], 0)].name = DotDot
    BY <2>1 DEF Listed
  <2>. QED BY <1>1, <1>3, <2>2 DEF FirstIndices, First, Dot, DotDot
<1>. QED BY <1>2, <1>3

\* A slot of a directory is empty exactly when no node is there.
LEMMA EmptySlot ==
    ASSUME NEW t, NEW d, NEW cached, NEW H, NEW at, Tidy(t, d, cached, H, at),
           NEW q \in H, d[q].type = "dir", NEW i \in First(q) .. d[q].length - 1,
           NEW table, \A b \in DataBlocks : t[b] # FREE => table[b] # FREE
    PROVE  IsFree(table, d[Slot(d[q], i)]) <=> Slot(d[q], i) \notin H
<1>1. CASE Slot(d[q], i) \in H
  BY <1>1, NodeType, BlockAssumption DEF IsFree, DataBlocks, RootBlock, FREE
<1>2. CASE Slot(d[q], i) \notin H
  <2>1. d[Slot(d[q], i)].start = FREE
    BY <1>2 DEF Tidy, Hangs, Kempt
  <2>. QED BY <1>2, <2>1 DEF IsFree
<1>. QED BY <1>1, <1>2

\* HasRoom is about a directory, and an empty slot in it or one to come.
LEMMA RoomThere ==
    ASSUME NEW H, NEW at, Tidy(fat, disk, root, H, at), NEW path \in Seq(Names), HasRoom(path)
    PROVE  /\ path # <<>>
           /\ \E q \in H :
                 /\ at[q] = ParentPath(path) /\ disk[q].type = "dir"
                 /\ \/ disk[q].length < EntriesPerBlock
                    \/ \E i \in First(q) .. disk[q].length - 1 : Slot(disk[q], i) \notin H
<1>1. path # <<>> /\ ParentPath(path) \in Seq(Names)
  BY PathType DEF HasRoom
<1>2. PICK q \in Resolve(ParentPath(path)) :
          /\ DirStatus(fat, EntryAt(q)) = "OK"
          /\ \/ EntryAt(q).length < EntriesPerBlock
             \/ \E i \in 1 .. EntryAt(q).length - 1 :
                   IsFree(fat, disk[SlotOffset(fat, EntryAt(q), i)])
  BY DEF HasRoom
<1>3. q \in H /\ at[q] = ParentPath(path)
  BY <1>1, Resolved
<1>4. EntryAt(q) = disk[q]
  BY <1>3, NodeEntry
<1>5. disk[q].type = "dir"
  BY <1>2, <1>3, <1>4, Readable
<1>6. ASSUME NEW i \in 1 .. disk[q].length - 1, IsFree(fat, disk[SlotOffset(fat, disk[q], i)])
      PROVE  i \in First(q) .. disk[q].length - 1 /\ Slot(disk[q], i) \notin H
  <2>1. disk[q].length \in Nat /\ disk[q].length <= EntriesPerBlock /\ First(q) \in {1, 2}
    BY <1>3, <1>5, DirectoryType
  <2>2. i \in 0 .. EntriesPerBlock - 1 /\ i >= 1
    BY <2>1, NamespaceAssumption
  <2>3. IsFree(fat, disk[Slot(disk[q], i)])
    BY <1>6, <2>2, SlotAt
  <2>4. i >= First(q)
    <3>1. SUFFICES ASSUME ~(i >= First(q)) PROVE FALSE
      OBVIOUS
    <3>2. q = RootOffset /\ i = 1
      BY <2>1, <2>2, <3>1 DEF First
    <3>3. Slot(disk[q], i) = RootOffset + 1
      BY <3>2, RootType
    <3>4. disk[RootOffset + 1] = [disk[RootOffset] EXCEPT !.name = DotDot]
      BY DEF Tidy, Hangs, Rooted
    <3>5. disk[RootOffset] \in Entry /\ disk[RootOffset].start \in DataBlocks
          /\ fat[disk[RootOffset].start] # FREE
      BY RootType, NodeType
    <3>6. disk[RootOffset + 1].start = disk[RootOffset].start
      BY <3>4, <3>5 DEF Entry
    <3>. QED BY <2>3, <3>3, <3>5, <3>6, BlockAssumption DEF IsFree, DataBlocks, RootBlock, FREE
  <2>5. i \in First(q) .. disk[q].length - 1
    BY <2>1, <2>4
  <2>. QED BY <1>3, <1>5, <2>3, <2>5, EmptySlot
<1>. QED BY <1>1, <1>2, <1>3, <1>4, <1>5, <1>6

\* The table and the entry newFile works with, once it has found a free block.
Allocated(free, noalloc) == IF noalloc THEN fat ELSE [fat EXCEPT ![free] = FINAL]
NewEntry(path, length, type, noalloc, free) ==
    [name |-> IF noalloc THEN NoName ELSE LastName(path), type |-> type,
     start |-> IF noalloc THEN FREE ELSE free, length |-> length]

\* It puts the entry where there is room, or fails and leaves everything as it was.
LEMMA InsertPlaces ==
    ASSUME NEW H, NEW at, Tidy(fat, disk, root, H, at), NEW q \in H, disk[q].type = "dir",
           \/ disk[q].length < EntriesPerBlock
           \/ \E i \in First(q) .. disk[q].length - 1 : Slot(disk[q], i) \notin H,
           NEW noalloc \in BOOLEAN, NEW free, ~noalloc => free \in DataBlocks /\ fat[free] = FREE,
           NEW new, NEW made \in Insert(Allocated(free, noalloc), free, new, q, noalloc)
    PROVE  \/ made = Failure("ENOSPC", fat)
           \/ \E i \in Nat, grown \in {0, 1} :
                 /\ Room(disk, H, q, i, grown)
                 /\ made = Success(Allocated(free, noalloc), new, disk[q], q, Slot(disk[q], i), grown)
<1>. DEFINE table == Allocated(free, noalloc)
            dir == disk[q]
            slot(i) == SlotOffset(table, dir, i)
            cleared == [table EXCEPT ![free] = FREE]
            freed(first) == Least({i \in first .. dir.length - 1 : IsFree(table, disk[slot(i)])})
            append == Success(table, new, dir, q, slot(dir.length), 1)
            place(first) ==
                IF freed(first) # {}
                THEN {Success(table, new, dir, q, slot(i), 0) : i \in freed(first)}
                ELSE IF dir.length < EntriesPerBlock
                THEN IF ~noalloc /\ ~HasFree(table, BlocksFor(new.length))
                     THEN {Failure("ENOSPC", cleared)}
                     ELSE {append}
                ELSE IF dir.length % EntriesPerBlock # 0 THEN {append}
                ELSE Expand(table, free, new, dir, q, noalloc)
            E == {i \in First(q) .. dir.length - 1 : IsFree(table, disk[slot(i)])}
<1>1. EntryAt(q) = dir /\ DirStatus(table, dir) = "OK" /\ FirstIndices(dir) = {First(q)}
  <2>1. EntryAt(q) = dir
    BY NodeEntry
  <2>2. DirStatus(table, dir) = "OK"
    BY Readable
  <2>3. FirstIndices(dir) = {First(q)}
    BY FirstIs
  <2>. QED BY <2>1, <2>2, <2>3
<1>2. dir.length \in Nat /\ First(q) \in {1, 2} /\ First(q) <= dir.length
      /\ dir.length <= EntriesPerBlock /\ EntriesPerBlock \in Nat
  BY DirectoryType, NamespaceAssumption
<1>3. \A i \in 0 .. EntriesPerBlock - 1 : slot(i) = Slot(dir, i)
  BY SlotAt
<1>4. \A b \in DataBlocks : fat[b] # FREE => table[b] # FREE
  <2>1. \A b \in DataBlocks : b \in Blocks
    BY BlockAssumption DEF DataBlocks, RootBlock, Blocks
  <2>. QED BY <2>1 DEF Allocated, Tidy, Table, FREE, FINAL
<1>5. ~noalloc => cleared = fat
  BY DEF Allocated, Tidy, Table
<1>6. made \in place(First(q))
  <2>1. made \in UNION {place(first) : first \in FirstIndices(dir)}
    <3>1. DirStatus(table, EntryAt(q)) = "OK"
      BY <1>1
    <3>2. Insert(table, free, new, q, noalloc) = UNION {place(first) : first \in FirstIndices(dir)}
      <4>. HIDE DEF table
      <4>. QED BY <1>1, <3>1 DEF Insert
    <3>. QED BY <3>2
  <2>. HIDE DEF place
  <2>. QED BY <1>1, <2>1
<1>7. \A i \in First(q) .. dir.length - 1 : /\ i \in 0 .. EntriesPerBlock - 1 /\ i \in Nat
                                            /\ i \in First(q) .. EntriesPerBlock - 1 /\ i < dir.length
  BY <1>2
<1>8. E = {i \in First(q) .. dir.length - 1 : Slot(dir, i) \notin H}
  <2>. HIDE DEF table, slot
  <2>1. \A i \in First(q) .. dir.length - 1 : IsFree(table, disk[Slot(dir, i)]) <=> Slot(dir, i) \notin H
    BY <1>4, EmptySlot
  <2>. QED BY <1>3, <1>7, <2>1
<1>. HIDE DEF table, slot, dir, cleared
<1>9. E = {} => dir.length < EntriesPerBlock
  <2>. HIDE DEF E
  <2>. QED BY <1>8 DEF dir
<1>10. freed(First(q)) = Least(E)
  OBVIOUS
<1>11. E # {} => Least(E) # {}
  <2>1. E \subseteq Nat
    BY <1>7
  <2>. HIDE DEF E
  <2>2. SUFFICES ASSUME E # {} PROVE Least(E) # {}
    OBVIOUS
  <2>3. PICK n \in E : \A m \in E : n <= m
    BY <2>1, <2>2, LeastNatural
  <2>. QED BY <2>3 DEF Least
<1>. HIDE DEF freed
<1>12. CASE E # {}
  <2>1. PICK i \in Least(E) : made = Success(table, new, dir, q, slot(i), 0)
    <3>. HIDE DEF E
    <3>. QED BY <1>6, <1>10, <1>11, <1>12
  <2>2. i \in E
    BY <2>1 DEF Least
  <2>3. i \in First(q) .. dir.length - 1 /\ Slot(dir, i) \notin H
    <3>. HIDE DEF E
    <3>. QED BY <1>8, <2>2
  <2>4. Room(disk, H, q, i, 0)
    BY <1>7, <2>3 DEF Room, dir
  <2>5. i \in Nat /\ slot(i) = Slot(dir, i)
    BY <1>3, <1>7, <2>3
  <2>. QED BY <2>1, <2>4, <2>5 DEF table, dir
<1>13. CASE E = {}
  <2>. HIDE DEF E
  <2>1. dir.length < EntriesPerBlock /\ freed(First(q)) = {}
    <3>1. Least({}) = {}
      BY DEF Least
    <3>. QED BY <1>9, <1>10, <1>13, <3>1
  <2>2. made = append \/ (~noalloc /\ made = Failure("ENOSPC", cleared))
    <3>. HIDE DEF append
    <3>. QED BY <1>6, <2>1
  <2>3. Room(disk, H, q, dir.length, 1)
    <3>1. dir.length \in First(q) .. EntriesPerBlock - 1
      BY <1>2, <2>1
    <3>. QED BY <3>1 DEF Room, dir
  <2>4. slot(dir.length) = Slot(dir, dir.length)
    <3>1. dir.length \in 0 .. EntriesPerBlock - 1
      BY <1>2, <2>1
    <3>. QED BY <1>3, <3>1
  <2>. QED BY <1>2, <1>5, <2>2, <2>3, <2>4 DEF table, dir
<1>. QED BY <1>12, <1>13

\* The new entry goes to a place where there is room.
Placed(H, at, path, length, type, noalloc, made, q, i, grown, free) ==
    /\ at[q] = ParentPath(path) /\ Room(disk, H, q, i, grown)
    /\ ~noalloc => free \in DataBlocks /\ fat[free] = FREE
    /\ made = Success(Allocated(free, noalloc), NewEntry(path, length, type, noalloc, free),
                      disk[q], q, Slot(disk[q], i), grown)

\* newFile fails before it has written anything, or once it has taken back what it wrote.
Refused == {Failure("ENOSPC", fat), Failure("ENAMETOOLONG", fat)}

Enters(H, at, path, length, type, noalloc, made) ==
    \/ made \in Refused
    \/ \E q \in H, i \in Nat, grown \in {0, 1}, free \in DataBlocks \union {UNUSABLE} :
          Placed(H, at, path, length, type, noalloc, made, q, i, grown, free)

\* The parent is found, and one block taken unless none is asked for.
LEMMA NewFilePlaces ==
    ASSUME NEW H, NEW at, Tidy(fat, disk, root, H, at), NEW path \in Seq(Names), HasRoom(path),
           NEW length, NEW type, NEW noalloc \in BOOLEAN,
           NEW made \in NewFile(path, length, type, noalloc)
    PROVE  Enters(H, at, path, length, type, noalloc, made)
<1>. DEFINE allocate(free) ==
                IF FindParent(path) = "ENOENT" THEN {Failure("ENOTDIR", Allocated(free, noalloc))}
                ELSE UNION {Insert(Allocated(free, noalloc), free,
                                   NewEntry(path, length, type, noalloc, free), o, noalloc)
                               : o \in Resolve(ParentPath(path))}
<1>1. ParentPath(path) \in Seq(Names)
  BY PathType
<1>2. PICK q \in H : /\ at[q] = ParentPath(path) /\ disk[q].type = "dir"
                     /\ \/ disk[q].length < EntriesPerBlock
                        \/ \E i \in First(q) .. disk[q].length - 1 : Slot(disk[q], i) \notin H
  BY RoomThere
<1>3. Resolve(ParentPath(path)) = {q}
  <2>1. Resolve(ParentPath(path)) = {o \in H : at[o] = ParentPath(path)}
    BY <1>1, Resolved
  <2>. QED BY <1>2, <2>1 DEF Tidy, Hangs
<1>4. FindParent(path) = "OK"
  <2>1. Find(ParentPath(path)) = "OK"
    BY <1>1, <1>2, Resolved
  <2>2. EntryAt(q).type = "dir"
    BY <1>2, NodeEntry
  <2>. QED BY <1>3, <2>1, <2>2 DEF FindParent
<1>5. \/ \E free \in FindFreeBlock(fat) : made \in allocate(free)
      \/ noalloc /\ made \in allocate(UNUSABLE)
      \/ made \in Refused
  <2>1. \/ FindParent(path) \notin {"OK", "ENOENT"} /\ made = Failure(FindParent(path), fat)
        \/ \E free \in FindFreeBlock(fat) : made \in allocate(free)
        \/ noalloc /\ made \in allocate(UNUSABLE)
        \/ made = Failure("ENAMETOOLONG", fat)
        \/ made = Failure("ENOSPC", fat)
    <3>. HIDE DEF allocate
    <3>. QED BY Zenon DEF NewFile, allocate, Allocated, NewEntry
  <2>. HIDE DEF allocate
  <2>. QED BY <1>4, <2>1 DEF Refused
<1>6. \A free \in FindFreeBlock(fat) : free \in DataBlocks /\ fat[free] = FREE
  BY FreeBlocksType DEF Tidy, FindFreeBlock, FreeBlocks
<1>7. made \in Refused \/
          \E free \in DataBlocks \union {UNUSABLE} :
              /\ ~noalloc => free \in DataBlocks /\ fat[free] = FREE
              /\ made \in allocate(free)
  <2>. HIDE DEF allocate
  <2>. QED BY <1>5, <1>6
<1>8. SUFFICES ASSUME NEW free \in DataBlocks \union {UNUSABLE},
                      ~noalloc => free \in DataBlocks /\ fat[free] = FREE,
                      made \in allocate(free)
               PROVE  \/ made \in Refused
                      \/ \E i \in Nat, grown \in {0, 1} :
                            Placed(H, at, path, length, type, noalloc, made, q, i, grown, free)
  <2>. HIDE DEF allocate
  <2>. QED BY <1>2, <1>7 DEF Enters
<1>9. made \in Insert(Allocated(free, noalloc), free,
                      NewEntry(path, length, type, noalloc, free), q, noalloc)
  BY <1>3, <1>4, <1>8
<1>. HIDE DEF allocate
<1>10. \/ made = Failure("ENOSPC", fat)
       \/ \E i \in Nat, grown \in {0, 1} :
             /\ Room(disk, H, q, i, grown)
             /\ made = Success(Allocated(free, noalloc),
                               NewEntry(path, length, type, noalloc, free),
                               disk[q], q, Slot(disk[q], i), grown)
  BY <1>2, <1>8, <1>9, InsertPlaces
<1>. QED BY <1>2, <1>8, <1>10 DEF Placed, Refused

\* A path is its last name in its parent.
LEMMA PathIsAppend ==
    ASSUME NEW path \in Seq(Names), path # <<>>
    PROVE  /\ path = Append(ParentPath(path), LastName(path))
           /\ ParentPath(path) \in Seq(Names) /\ LastName(path) \in Names
<1>. DEFINE s == ParentPath(path)
            n == LastName(path)
<1>1. /\ Len(path) \in Nat /\ Len(path) >= 1 /\ n = path[Len(path)] /\ n \in Names
      /\ s \in Seq(Names) /\ Len(s) = Len(path) - 1 /\ \A j \in 1 .. Len(path) - 1 : s[j] = path[j]
  <2>1. Len(path) \in Nat /\ Len(path) >= 1 /\ n = path[Len(path)]
    BY DEF LastName
  <2>2. n \in Names /\ 1 <= Len(path) - 1 + 1 /\ Len(path) - 1 <= Len(path)
    BY <2>1
  <2>3. /\ SubSeq(path, 1, Len(path) - 1) \in Seq(Names)
        /\ Len(SubSeq(path, 1, Len(path) - 1)) = Len(path) - 1
        /\ \A j \in 1 .. Len(path) - 1 : SubSeq(path, 1, Len(path) - 1)[j] = path[j]
    <3>1. \A m \in 0 .. Len(path) :
              /\ SubSeq(path, 1, m) \in Seq(Names) /\ Len(SubSeq(path, 1, m)) = m
              /\ \A j \in 1 .. m : SubSeq(path, 1, m)[j] = path[j]
      OBVIOUS
    <3>2. Len(path) - 1 \in 0 .. Len(path)
      BY <2>1
    <3>. QED BY <3>1, <3>2
  <2>. QED BY <2>1, <2>2, <2>3 DEF ParentPath
<1>. HIDE DEF s, n
<1>2. /\ Append(s, n) \in Seq(Names) /\ Len(Append(s, n)) = Len(path)
      /\ Append(s, n)[Len(path)] = n /\ \A j \in 1 .. Len(path) - 1 : Append(s, n)[j] = s[j]
  BY <1>1
<1>3. \A j \in 1 .. Len(path) : Append(s, n)[j] = path[j]
  <2>1. \A j \in 1 .. Len(path) : j = Len(path) \/ j \in 1 .. Len(path) - 1
    BY <1>1
  <2>. QED BY <1>1, <1>2, <2>1
<1>4. path = Append(s, n)
  BY <1>2, <1>3, SeqEqual
<1>. QED BY <1>1, <1>4 DEF s, n

Longer(dir, grown) == [dir EXCEPT !.length = @ + grown]

\* What Success is, where the new entry does not go to the root's block.
LEMMA SuccessIs ==
    ASSUME NEW H, NEW at, Tidy(fat, disk, root, H, at), NEW q, NEW i, NEW grown,
           Room(disk, H, q, i, grown), NEW new, new.start # RootBlock, NEW table,
           NEW made, made = Success(table, new, disk[q], q, Slot(disk[q], i), grown)
    PROVE  /\ made.ret = "OK" /\ made.fat = table /\ made.new = new
           /\ made.disk = RoomDisk(disk, q, i, new, grown)
           /\ made.root = RoomCache(disk, root, q, grown)
           /\ made.offset = Slot(disk[q], i)
           /\ made.parent = Longer(disk[q], grown)
<1>1. Slot(disk[q], i) # RootOffset
  BY DirectorySlots DEF Room
<1>2. CacheEntry(root, new) = root
  BY DEF CacheEntry
<1>3. WriteEntry(disk, Slot(disk[q], i), new) = [disk EXCEPT ![Slot(disk[q], i)] = new]
  BY <1>1 DEF WriteEntry
<1>4. CASE grown = 0
  BY <1>2, <1>3, <1>4 DEF Success, RoomDisk, RoomCache, Longer
<1>5. CASE grown = 1
  BY <1>2, <1>3, <1>5 DEF Success, RoomDisk, RoomCache, Longer
<1>. QED BY <1>4, <1>5 DEF Room

\* The slot is written first, the parent after it, in either order with the same result.
LEMMA RoomFilled ==
    ASSUME NEW t, NEW d, NEW cached, NEW H, NEW at, Tidy(t, d, cached, H, at),
           NEW q, NEW i, NEW grown, Room(d, H, q, i, grown), NEW new \in Entry
    PROVE  /\ RoomDisk(d, q, i, new, grown)
                  = Filled(RoomDisk(d, q, i, Nothing, grown), Slot(d[q], i), new)
           /\ RoomDisk(d, q, i, Nothing, grown)[q] = Longer(d[q], grown)
<1>. DEFINE o == Slot(d[q], i)
            e == [d EXCEPT ![o] = new]
            n == [d EXCEPT ![o] = Nothing]
            parent == [d[q] EXCEPT !.length = @ + 1]
            d1 == RoomDisk(d, q, i, Nothing, grown)
<1>. USE DEF Room
<1>1. /\ d \in [Offsets -> Entry] /\ q \in Offsets /\ d[q] \in Entry /\ d[q].length \in Nat
      /\ RootOffset \in Offsets /\ RootOffset + 1 \in Offsets /\ RootOffset + 1 # RootOffset
  <2>1. RootOffset \in Offsets /\ RootOffset \in Nat
    BY RootInRange DEF Offsets
  <2>2. d[q].length \in Nat
    BY DirectoryType
  <2>. QED BY <2>1, <2>2, NodeType, RootType DEF Tidy
<1>2. o \in Offsets /\ o \notin H
  <2>1. Nothing \in Entry /\ Nothing.start = FREE
    BY EntryType DEF Nothing
  <2>. QED BY <2>1, RoomMade
<1>3. o # q /\ o # RootOffset /\ o # RootOffset + 1
  BY <1>2, DirectorySlots
<1>4. parent \in Entry /\ Nothing \in Entry
  <2>1. d[q].length + 1 \in Nat
    BY <1>1
  <2>. QED BY <1>1, <2>1, EntryType
<1>. HIDE DEF o, parent
<1>5. e = [n EXCEPT ![o] = new] /\ n[q] = d[q]
  BY <1>1, <1>2, <1>3
<1>6. n \in [Offsets -> Entry]
  BY <1>1, <1>4
<1>. HIDE DEF e, n
<1>7. WriteEntry(e, q, parent) = [WriteEntry(n, q, parent) EXCEPT ![o] = new]
      /\ WriteEntry(n, q, parent)[q] = parent
  <2>1. CASE q = RootOffset
    <3>. DEFINE other == [parent EXCEPT !.name = DotDot]
    <3>. HIDE DEF other
    <3>1. WriteEntry(e, q, parent) = [[e EXCEPT ![q] = parent] EXCEPT ![RootOffset + 1] = other]
          /\ WriteEntry(n, q, parent) = [[n EXCEPT ![q] = parent] EXCEPT ![RootOffset + 1] = other]
      BY <2>1 DEF WriteEntry, other
    <3>2. [e EXCEPT ![q] = parent] = [[n EXCEPT ![q] = parent] EXCEPT ![o] = new]
      BY <1>1, <1>2, <1>3, <1>5, <1>6
    <3>. DEFINE n1 == [n EXCEPT ![q] = parent]
    <3>3. n1 \in [Offsets -> Entry] /\ n1[q] = parent
      BY <1>1, <1>4, <1>6
    <3>. HIDE DEF n1
    <3>4. [[n1 EXCEPT ![o] = new] EXCEPT ![RootOffset + 1] = other]
              = [[n1 EXCEPT ![RootOffset + 1] = other] EXCEPT ![o] = new]
      BY <1>1, <1>2, <1>3, <3>3
    <3>5. [n1 EXCEPT ![RootOffset + 1] = other][q] = parent
      BY <1>1, <2>1, <3>3
    <3>. QED BY <3>1, <3>2, <3>4, <3>5 DEF n1
  <2>2. CASE q # RootOffset
    <3>1. WriteEntry(e, q, parent) = [e EXCEPT ![q] = parent]
          /\ WriteEntry(n, q, parent) = [n EXCEPT ![q] = parent]
      BY <2>2 DEF WriteEntry
    <3>. QED BY <1>1, <1>2, <1>3, <1>5, <1>6, <3>1
  <2>. QED BY <2>1, <2>2
<1>8. CASE grown = 0
  <2>1. RoomDisk(d, q, i, new, grown) = e /\ d1 = n
    BY <1>8 DEF RoomDisk, e, n, o
  <2>2. [d[q] EXCEPT !.length = @ + grown] = d[q]
    BY <1>1, <1>8 DEF Entry
  <2>. QED BY <1>5, <2>1, <2>2 DEF o, Filled, Longer
<1>9. CASE grown = 1
  <2>1. RoomDisk(d, q, i, new, grown) = WriteEntry(e, q, parent) /\ d1 = WriteEntry(n, q, parent)
    BY <1>9 DEF RoomDisk, e, n, o, parent
  <2>. QED BY <1>7, <1>9, <2>1 DEF o, parent, Filled, Longer
<1>. QED BY <1>8, <1>9 DEF Filled, Longer

-----------------------------------------------------------------------------
(* The tree that callers see.                                               *)

\* What callers see of a node, and of all.
Shape(entry, path) ==
    [path |-> path, type |-> entry.type, length |-> IF entry.type = "dir" THEN 0 ELSE entry.length]
TreeOf(d, H, at) == {Shape(d[o], at[o]) : o \in H}

\* A call fails and changes nothing, or leaves a partition in order with the tree that
\* this call leaves behind.
Advance(H, at) ==
    \/ UNCHANGED <<fat, disk, root>> /\ ret' # "OK"
    \/ /\ ret' = "OK"
       /\ \E H2, at2 :
             /\ Tidy(fat', disk', root', H2, at2)
             /\ Tree!Succeeds(call', TreeOf(disk, H, at), TreeOf(disk', H2, at2))

LEMMA TreeParts ==
    ASSUME NEW d, NEW H, NEW at
    PROVE  /\ Tree!Existing(TreeOf(d, H, at)) = {at[o] : o \in H}
           /\ Tree!Directories(TreeOf(d, H, at)) = {at[o] : o \in {x \in H : d[x].type = "dir"}}
           /\ Tree!Files(TreeOf(d, H, at)) = {at[o] : o \in {x \in H : d[x].type = "file"}}
<1>1. \A o \in H : Shape(d[o], at[o]).path = at[o] /\ Shape(d[o], at[o]).type = d[o].type
  BY DEF Shape
<1>2. Tree!Existing(TreeOf(d, H, at)) = {at[o] : o \in H}
  BY <1>1 DEF Tree!Existing, TreeOf
<1>3. ASSUME NEW kind
      PROVE  {n.path : n \in {m \in TreeOf(d, H, at) : m.type = kind}}
                 = {at[o] : o \in {x \in H : d[x].type = kind}}
  <2>1. ASSUME NEW o \in {x \in H : d[x].type = kind}
        PROVE  at[o] \in {n.path : n \in {m \in TreeOf(d, H, at) : m.type = kind}}
    <3>1. Shape(d[o], at[o]) \in {m \in TreeOf(d, H, at) : m.type = kind}
      BY <1>1 DEF TreeOf
    <3>. QED BY <1>1, <3>1
  <2>2. ASSUME NEW m \in TreeOf(d, H, at), m.type = kind
        PROVE  m.path \in {at[o] : o \in {x \in H : d[x].type = kind}}
    BY <1>1, <2>2 DEF TreeOf
  <2>. QED BY <2>1, <2>2
<1>. QED BY <1>2, <1>3 DEF Tree!Directories, Tree!Files

\* The path of a new entry was vacant.
LEMMA VacantPath ==
    ASSUME NEW d, NEW H, NEW at, NEW path \in Paths, \A x \in H : at[x] # path,
           NEW q \in H, d[q].type = "dir", at[q] = ParentPath(path)
    PROVE  path \in Tree!Vacant(TreeOf(d, H, at))
<1>1. Tree!Front(path) = ParentPath(path)
  BY DEF Tree!Front, ParentPath
<1>2. path \notin Tree!Existing(TreeOf(d, H, at))
  BY TreeParts
<1>3. ParentPath(path) \in Tree!Directories(TreeOf(d, H, at))
  BY TreeParts
<1>. QED BY <1>1, <1>2, <1>3 DEF Tree!Vacant

\* A node joins the tree.
LEMMA TreeGrows ==
    ASSUME NEW d, NEW H, NEW at, NEW d2, NEW o, o \notin H, NEW path, NEW at2,
           at2[o] = path, \A x \in H : Shape(d2[x], at2[x]) = Shape(d[x], at[x])
    PROVE  TreeOf(d2, H \union {o}, at2) = TreeOf(d, H, at) \union {Shape(d2[o], path)}
<1>1. {Shape(d2[x], at2[x]) : x \in H} = {Shape(d[x], at[x]) : x \in H}
  <2>. HIDE DEF Shape
  <2>. QED OBVIOUS
<1>2. {Shape(d2[x], at2[x]) : x \in H \union {o}}
          = {Shape(d2[x], at2[x]) : x \in H} \union {Shape(d2[o], at2[o])}
  OBVIOUS
<1>. QED BY <1>1, <1>2 DEF TreeOf

-----------------------------------------------------------------------------
(* The calls that make an entry.                                            *)

\* A partition in order again, with one more node in its tree.
Joined(d, H, at, path, new, t2, d2, cached2) ==
    \E H2, at2 :
        /\ Tidy(t2, d2, cached2, H2, at2)
        /\ TreeOf(d2, H2, at2) = TreeOf(d, H, at) \union {Shape(new, path)}
        /\ path \in Tree!Vacant(TreeOf(d, H, at))

\* A new entry is entered where room was made for it.
LEMMA EnteredAdvance ==
    ASSUME NEW t, NEW d, NEW cached, NEW H, NEW at, Tidy(t, d, cached, H, at),
           NEW path \in Paths, path # <<>>, \A x \in H : at[x] # path,
           NEW q, NEW i, NEW grown, Room(d, H, q, i, grown), at[q] = ParentPath(path),
           NEW new \in Entry, new.start \in DataBlocks, t[new.start] = FREE,
           new.name = LastName(path), Needs(new) = 1,
           NEW d1, NEW cached1, Tidy(t, d1, cached1, H, at),
           d1[q].type = "dir", d1[q].start = d[q].start, i \in First(q) .. d1[q].length - 1,
           \A x \in H : x # q => d1[x] = d[x],
           new.type = "dir" => /\ new.length = 1
                               /\ d1[Slot(new, 0)].name = DotDot
                               /\ d1[Slot(new, 0)].start = d[q].start
    PROVE  Joined(d, H, at, path, new, Taken(t, new.start),
                  Filled(d1, Slot(d[q], i), new), cached1)
<1>. DEFINE o == Slot(d[q], i)
            H2 == H \union {o}
            at2 == Named(H, at, o, Append(at[q], new.name))
            d2 == Filled(d1, o, new)
            t2 == Taken(t, new.start)
<1>1. path = Append(at[q], new.name) /\ new.name \in Names
  BY PathIsAppend, NamespaceAssumption
<1>2. q \in H /\ d[q].type = "dir"
  BY DEF Room
<1>3. o \notin H /\ o \in Offsets
  <2>1. Nothing \in Entry /\ Nothing.start = FREE
    BY EntryType DEF Nothing
  <2>. QED BY <2>1, RoomMade
<1>4. Slot(d1[q], i) = o
  BY DEF Slot
<1>5. Tidy(t2, d2, cached1, H2, at2)
  <2>1. Slot(d1[q], i) \notin H /\ \A x \in H : at[x] # Append(at[q], new.name)
    BY <1>1, <1>3, <1>4
  <2>2. new.type = "dir" => /\ new.length = 1
                            /\ d1[Slot(new, 0)].name = DotDot
                            /\ d1[Slot(new, 0)].start = d1[q].start
    OBVIOUS
  <2>3. q \in H /\ i \in First(q) .. d1[q].length - 1 /\ Slot(d1[q], i) \notin H
        /\ new.name \in Names
    BY <1>1, <1>2, <2>1
  <2>4. Tidy(Taken(t, new.start), Filled(d1, Slot(d1[q], i), new), cached1,
             H \union {Slot(d1[q], i)}, Named(H, at, Slot(d1[q], i), Append(at[q], new.name)))
    BY <2>1, <2>2, <2>3, Entered
  <2>. QED BY <1>4, <2>4
<1>6. d2[o] = new /\ \A x \in H : d2[x] = d1[x]
  <2>. HIDE DEF o
  <2>. QED BY <1>3 DEF Tidy, Filled
<1>7. at2[o] = path /\ \A x \in H : at2[x] = at[x]
  <2>. HIDE DEF o
  <2>. QED BY <1>1, <1>3 DEF Named
<1>. HIDE DEF o, H2, at2, d2, t2
<1>8. \A x \in H : Shape(d2[x], at2[x]) = Shape(d[x], at[x])
  <2>1. SUFFICES ASSUME NEW x \in H PROVE Shape(d2[x], at2[x]) = Shape(d[x], at[x])
    OBVIOUS
  <2>2. CASE x = q
    BY <1>2, <1>6, <1>7, <2>2 DEF Shape
  <2>3. CASE x # q
    BY <1>6, <1>7, <2>3
  <2>. QED BY <2>2, <2>3
<1>9. TreeOf(d2, H2, at2) = TreeOf(d, H, at) \union {Shape(new, path)}
  <2>1. TreeOf(d2, H \union {o}, at2) = TreeOf(d, H, at) \union {Shape(d2[o], path)}
    BY <1>3, <1>7, <1>8, TreeGrows
  <2>. QED BY <1>6, <2>1 DEF H2
<1>10. path \in Tree!Vacant(TreeOf(d, H, at))
  BY <1>2, VacantPath
<1>. QED BY <1>5, <1>9, <1>10 DEF d2, t2, o, Joined

\* What a call leaves behind when it makes the outcome its own.
LEMMA FailedAdvance ==
    ASSUME NEW H, NEW at, NEW code, code # "OK", Leave(Failure(code, fat)) PROVE Advance(H, at)
BY DEF Leave, Failure, Advance

LEMMA RefusedAdvance ==
    ASSUME NEW H, NEW at, NEW made \in Refused, Become(made) PROVE Advance(H, at)
<1>1. PICK code \in {"ENOSPC", "ENAMETOOLONG"} : made = Failure(code, fat)
  BY DEF Refused
<1>2. code # "OK" /\ Leave(Failure(code, fat))
  BY <1>1 DEF Become
<1>. QED BY <1>2, FailedAdvance

LEMMA NotFoundAdvance ==
    ASSUME NEW H, NEW at, Tidy(fat, disk, root, H, at), NEW path \in Seq(Names), NotFound(path)
    PROVE  Advance(H, at)
<1>1. Find(path) # "OK"
  BY Resolved DEF NotFound
<1>. QED BY <1>1 DEF NotFound, Fail, Advance

LEMMA StaysAdvance ==
    ASSUME NEW H, NEW at, Tidy(fat, disk, root, H, at), UNCHANGED <<fat, disk, root>>,
           ret' = "OK", Tree!Succeeds(call', TreeOf(disk, H, at), TreeOf(disk, H, at))
    PROVE  Advance(H, at)
<1>1. Tidy(fat', disk', root', H, at)
  OBVIOUS
<1>2. Tree!Succeeds(call', TreeOf(disk, H, at), TreeOf(disk', H, at))
  BY DEF TreeOf
<1>. QED BY <1>1, <1>2 DEF Advance

LEMMA FreeIsElsewhere ==
    ASSUME NEW t, NEW d, NEW cached, NEW H, NEW at, Tidy(t, d, cached, H, at),
           NEW free \in DataBlocks, t[free] = FREE
    PROVE  free # RootBlock /\ \A q \in H : d[q].start # free
<1>1. \A q \in H : d[q].start # free
  BY NodeType
<1>. QED BY <1>1, RootType

LEMMA CreateAdvance ==
    ASSUME NEW H, NEW at, Tidy(fat, disk, root, H, at), NEW path \in Paths,
           HasRoom(path) \/ Find(path) = "OK", Create(path)
    PROVE  Advance(H, at)
<1>1. path \in Seq(Names)
  BY NamespaceAssumption
<1>2. CASE Find(path) = "OK"
  BY <1>2 DEF Create, Fail, Advance
<1>0. call' = <<"create", path>>
  BY DEF Create, Called
<1>3. CASE Find(path) # "OK"
  <2>1. PICK made \in NewFile(path, 0, "file", FALSE) : Become(made)
    BY <1>3 DEF Create
  <2>2. CASE made \in Refused
    BY <2>1, <2>2, RefusedAdvance
  <2>3. CASE made \notin Refused
    <3>1. PICK q \in H, i \in Nat, grown \in {0, 1}, free \in DataBlocks \union {UNUSABLE} :
              Placed(H, at, path, 0, "file", FALSE, made, q, i, grown, free)
      <4>1. HasRoom(path) /\ FALSE \in BOOLEAN
        BY <1>3
      <4>2. Enters(H, at, path, 0, "file", FALSE, made)
        BY <1>1, <2>1, <4>1, NewFilePlaces
      <4>. QED BY <2>3, <4>2 DEF Enters
    <3>. DEFINE new == NewEntry(path, 0, "file", FALSE, free)
                d1 == RoomDisk(disk, q, i, Nothing, grown)
                cached1 == RoomCache(disk, root, q, grown)
    <3>2. /\ at[q] = ParentPath(path) /\ Room(disk, H, q, i, grown)
          /\ free \in DataBlocks /\ fat[free] = FREE
          /\ made = Success(Taken(fat, free), new, disk[q], q, Slot(disk[q], i), grown)
      BY <3>1 DEF Placed, Allocated, Taken
    <3>3. path # <<>> /\ \A x \in H : at[x] # path
      BY <1>1, <1>3, RoomThere, Resolved
    <3>4. /\ new \in Entry /\ new.start = free /\ new.name = LastName(path) /\ new.type = "file"
          /\ new.length = 0 /\ Needs(new) = 1
      BY <1>1, <3>2, <3>3, PathIsAppend DEF NewEntry, Entry, Needs
    <3>5. free # RootBlock
      BY <3>2, FreeIsElsewhere
    <3>. HIDE DEF new
    <3>6. /\ made.ret = "OK" /\ made.fat = Taken(fat, free)
          /\ made.disk = RoomDisk(disk, q, i, new, grown) /\ made.root = cached1
      <4>1. new.start # RootBlock
        BY <3>4, <3>5
      <4>. QED BY <3>2, <4>1, SuccessIs
    <3>7. made.disk = Filled(d1, Slot(disk[q], i), new)
      BY <3>2, <3>4, <3>6, RoomFilled
    <3>8. /\ Tidy(fat, d1, cached1, H, at)
          /\ d1[q].type = "dir" /\ d1[q].start = disk[q].start
          /\ i \in First(q) .. d1[q].length - 1
          /\ \A x \in H : x # q => d1[x] = disk[x]
      <4>1. Nothing \in Entry /\ Nothing.start = FREE
        BY EntryType DEF Nothing
      <4>. QED BY <3>2, <4>1, RoomMade
    <3>. HIDE DEF d1, cached1
    <3>9. Joined(disk, H, at, path, new, made.fat, made.disk, made.root)
      BY <3>2, <3>3, <3>4, <3>6, <3>7, <3>8, EnteredAdvance
    <3>10. Shape(new, path) = Tree!File(path, 0)
      BY <3>4 DEF Shape, Tree!File
    <3>11. PICK H2, at2 :
               /\ Tidy(made.fat, made.disk, made.root, H2, at2)
               /\ TreeOf(made.disk, H2, at2) = TreeOf(disk, H, at) \union {Tree!File(path, 0)}
               /\ path \in Tree!Vacant(TreeOf(disk, H, at))
      BY <3>9, <3>10 DEF Joined
    <3>12. Tree!Succeeds(call', TreeOf(disk, H, at), TreeOf(made.disk, H2, at2))
      BY <1>0, <3>11 DEF Tree!Succeeds, Tree!Create
    <3>. QED BY <2>1, <3>6, <3>11, <3>12 DEF Become, Leave, Advance
  <2>. QED BY <2>2, <2>3
<1>. QED BY <1>2, <1>3

\* An offset in a block that no directory has.
Aside(d, H, x) ==
    \E b \in DataBlocks, i \in 0 .. EntriesPerBlock - 1 :
        x = b * EntriesPerBlock + i /\ \A q \in H : d[q].type = "dir" => d[q].start # b

\* What is written there is not seen.
LEMMA WrittenAside ==
    ASSUME NEW t, NEW d, NEW cached, NEW H, NEW at, Tidy(t, d, cached, H, at),
           NEW d2 \in [Offsets -> Entry], \A x \in Offsets : d2[x] = d[x] \/ Aside(d, H, x)
    PROVE  Tidy(t, d2, cached, H, at) /\ \A x \in H : d2[x] = d[x]
<1>1. ASSUME NEW x \in Offsets, Aside(d, H, x)
      PROVE  /\ x \notin H /\ x # RootOffset + 1
             /\ \A q \in H, j \in 0 .. EntriesPerBlock - 1 : d[q].type = "dir" => x # Slot(d[q], j)
  <2>1. PICK b \in DataBlocks, i \in 0 .. EntriesPerBlock - 1 :
            x = b * EntriesPerBlock + i /\ \A q \in H : d[q].type = "dir" => d[q].start # b
    BY <1>1 DEF Aside
  <2>. QED BY <2>1, BlockOfNode
<1>2. \A o \in H : d2[o] = d[o]
  BY <1>1, NodeType
<1>3. d2[RootOffset + 1] = d[RootOffset + 1]
  BY <1>1, RootType
<1>4. ASSUME NEW q \in H, d[q].type = "dir", NEW j \in 0 .. EntriesPerBlock - 1
      PROVE  d2[Slot(d[q], j)] = d[Slot(d[q], j)]
  <2>1. Slot(d[q], j) \in Offsets
    BY <1>4, DirectoryType
  <2>. QED BY <1>1, <1>4, <2>1
<1>5. SameSight(d, d2, H)
  <2>1. \A q \in H : d[q].type = "dir" =>
            \A j \in First(q) .. d[q].length - 1 : j \in 0 .. EntriesPerBlock - 1
    <3>1. SUFFICES ASSUME NEW q \in H, d[q].type = "dir", NEW j \in First(q) .. d[q].length - 1
                   PROVE  j \in 0 .. EntriesPerBlock - 1
      OBVIOUS
    <3>2. d[q].length \in Nat /\ d[q].length <= EntriesPerBlock /\ First(q) \in {1, 2}
      BY <3>1, DirectoryType
    <3>. QED BY <3>2, NamespaceAssumption
  <2>2. 0 \in 0 .. EntriesPerBlock - 1
    BY NamespaceAssumption
  <2>. QED BY <1>2, <1>3, <1>4, <2>1, <2>2 DEF SameSight
<1>. QED BY <1>2, <1>5, Unseen

\* The cached root follows ".." of its directories, the root's own length included.
LEMMA UpCached ==
    ASSUME NEW t, NEW d, NEW cached, NEW H, NEW at, Tidy(t, d, cached, H, at), NEW q \in H
    PROVE  CacheEntry(cached, [d[q] EXCEPT !.name = DotDot]) = cached
<1>. DEFINE up == [d[q] EXCEPT !.name = DotDot]
<1>1. d[q] \in Entry /\ cached = d[RootOffset] /\ cached \in Entry
  BY NodeType, RootType
<1>2. up.start = d[q].start /\ up.length = d[q].length
  BY <1>1 DEF Entry
<1>3. CASE q = RootOffset
  <2>1. up.length = cached.length
    BY <1>1, <1>2, <1>3
  <2>2. [cached EXCEPT !.length = cached.length] = cached
    BY <1>1 DEF Entry
  <2>. QED BY <2>1, <2>2 DEF CacheEntry
<1>4. CASE q # RootOffset
  <2>1. up.start # RootBlock
    BY <1>2, <1>4, RootType, StartIsOne
  <2>. QED BY <2>1 DEF CacheEntry
<1>. QED BY <1>3, <1>4

LEMMA MkdirAdvance ==
    ASSUME NEW H, NEW at, Tidy(fat, disk, root, H, at), NEW path \in Paths,
           HasRoom(path), Find(path) = "ENOENT", Mkdir(path)
    PROVE  Advance(H, at)
<1>1. path \in Seq(Names) /\ path # <<>> /\ \A x \in H : at[x] # path
  <2>1. path \in Seq(Names)
    BY NamespaceAssumption
  <2>. QED BY <2>1, RoomThere, Resolved
<1>2. PICK made \in NewFile(path, 1, "dir", FALSE) :
          IF made.ret # "OK" THEN Become(made)
          ELSE LET up == [made.parent EXCEPT !.name = DotDot]
                   first == made.new.start * EntriesPerBlock
               IN  Become([made EXCEPT !.disk = WriteEntry(@, first, up),
                                       !.root = CacheEntry(@, up)])
  BY Zenon DEF Mkdir
<1>0. call' = <<"mkdir", path>>
  BY DEF Mkdir, Called
<1>3. CASE made \in Refused
  <2>1. made.ret # "OK"
    BY <1>3 DEF Refused, Failure
  <2>. QED BY <1>2, <1>3, <2>1, RefusedAdvance
<1>4. CASE made \notin Refused
  <2>1. PICK q \in H, i \in Nat, grown \in {0, 1}, free \in DataBlocks \union {UNUSABLE} :
            Placed(H, at, path, 1, "dir", FALSE, made, q, i, grown, free)
    <3>1. FALSE \in BOOLEAN
      OBVIOUS
    <3>2. made \in NewFile(path, 1, "dir", FALSE)
      OBVIOUS
    <3>3. Enters(H, at, path, 1, "dir", FALSE, made)
      BY <1>1, <3>1, <3>2, NewFilePlaces
    <3>. QED BY <1>4, <3>3 DEF Enters
  <2>. DEFINE new == NewEntry(path, 1, "dir", FALSE, free)
              o == Slot(disk[q], i)
              d1 == RoomDisk(disk, q, i, Nothing, grown)
              cached1 == RoomCache(disk, root, q, grown)
              up == [made.parent EXCEPT !.name = DotDot]
              first == made.new.start * EntriesPerBlock
              d2 == Filled(d1, first, up)
  <2>2. /\ at[q] = ParentPath(path) /\ Room(disk, H, q, i, grown)
        /\ free \in DataBlocks /\ fat[free] = FREE
        /\ made = Success(Taken(fat, free), new, disk[q], q, o, grown)
    BY <2>1 DEF Placed, Allocated, Taken
  <2>3. /\ new \in Entry /\ new.start = free /\ new.name = LastName(path) /\ new.type = "dir"
        /\ new.length = 1 /\ Needs(new) = 1
    <3>1. BlocksFor(1) = 1
      <4>1. \A e \in Nat : e >= 2 => (1 + e - 1) \div e = 1
        BY Z3
      <4>. QED BY <4>1, NamespaceAssumption DEF BlocksFor
    <3>. QED BY <1>1, <2>2, <3>1, PathIsAppend DEF NewEntry, Entry, Needs
  <2>4. free # RootBlock /\ \A x \in H : disk[x].start # free
    BY <2>2, FreeIsElsewhere
  <2>. HIDE DEF new
  <2>5. /\ made.ret = "OK" /\ made.fat = Taken(fat, free) /\ made.new = new
        /\ made.disk = RoomDisk(disk, q, i, new, grown) /\ made.root = cached1
        /\ made.parent = Longer(disk[q], grown)
    <3>1. new.start # RootBlock
      BY <2>3, <2>4
    <3>. QED BY <2>2, <3>1, SuccessIs
  <2>6. made.disk = Filled(d1, o, new) /\ d1[q] = Longer(disk[q], grown)
    BY <2>2, <2>3, <2>5, RoomFilled
  <2>7. /\ Tidy(fat, d1, cached1, H, at) /\ o \in Offsets
        /\ d1[q].type = "dir" /\ d1[q].start = disk[q].start
        /\ i \in First(q) .. d1[q].length - 1
        /\ \A x \in H : x # q => d1[x] = disk[x]
    <3>1. Nothing \in Entry /\ Nothing.start = FREE
      BY EntryType DEF Nothing
    <3>. QED BY <2>2, <3>1, RoomMade
  <2>. HIDE DEF d1, cached1
  <2>8. d1[q] \in Entry /\ up = [d1[q] EXCEPT !.name = DotDot] /\ up \in Entry
        /\ up.name = DotDot /\ up.start = disk[q].start
    <3>1. d1[q] \in Entry /\ up = [d1[q] EXCEPT !.name = DotDot]
      BY <2>5, <2>6, <2>7, NodeType
    <3>. QED BY <2>7, <3>1, EntryType DEF Entry
  <2>9. first = Slot(new, 0) /\ first = free * EntriesPerBlock + 0 /\ first \in Offsets
        /\ 0 \in 0 .. EntriesPerBlock - 1
    <3>1. free \in Int /\ EntriesPerBlock \in Int /\ 0 \in 0 .. EntriesPerBlock - 1
      BY <2>2, BlockAssumption, NamespaceAssumption DEF DataBlocks, RootBlock
    <3>2. \A x, e \in Int : x * e + 0 = x * e
      BY Z3
    <3>3. free * EntriesPerBlock + 0 \in Offsets
      BY <2>2, <3>1, SlotInRange
    <3>. QED BY <2>3, <2>5, <3>1, <3>2, <3>3 DEF Slot
  <2>10. first # RootOffset /\ first # o
    <3>1. free \in Int /\ disk[q].start \in Int
      BY <2>2, NodeType, BlockAssumption DEF DataBlocks, RootBlock
    <3>2. first # RootOffset
      BY <2>3, <2>4, <2>5, <3>1, OffsetOfBlock
    <3>3. i \in 0 .. EntriesPerBlock - 1
      BY <2>2, NamespaceAssumption DEF Room, First
    <3>. QED BY <2>4, <2>9, <3>1, <3>2, <3>3, SlotIsOne DEF Slot
  <2>. HIDE DEF up, first, o
  <2>11. d2 \in [Offsets -> Entry] /\ d2[first] = up /\ \A x \in Offsets : x # first => d2[x] = d1[x]
    BY <2>7, <2>8, <2>9 DEF Filled, Tidy
  <2>12. Filled(Filled(d1, o, new), first, up) = Filled(d2, o, new)
    BY <2>3, <2>7, <2>8, <2>9, <2>10 DEF Filled, Tidy
  <2>. HIDE DEF d2
  <2>13. Tidy(fat, d2, cached1, H, at)
    <3>1. \A x \in H : d1[x].type = "dir" => d1[x].start # free
      BY <2>4, <2>7
    <3>2. Aside(d1, H, first)
      BY <2>2, <2>9, <3>1 DEF Aside
    <3>. QED BY <2>7, <2>11, <3>2, WrittenAside
  <2>14. \A x \in H : d2[x] = d1[x]
    <3>1. first \notin H
      BY <2>2, <2>4, <2>9, BlockOfNode
    <3>. QED BY <2>11, <3>1, NodeType
  <2>15. Joined(disk, H, at, path, new, Taken(fat, free), Filled(d2, o, new), cached1)
    <3>1. /\ d2[q].type = "dir" /\ d2[q].start = disk[q].start
          /\ i \in First(q) .. d2[q].length - 1
          /\ \A x \in H : x # q => d2[x] = disk[x]
      BY <2>7, <2>14
    <3>2. d2[Slot(new, 0)].name = DotDot /\ d2[Slot(new, 0)].start = disk[q].start
      BY <2>8, <2>9, <2>11
    <3>. QED BY <1>1, <2>2, <2>3, <2>13, <3>1, <3>2, EnteredAdvance DEF o
  <2>16. /\ ret' = "OK" /\ fat' = Taken(fat, free) /\ root' = cached1
         /\ disk' = Filled(d2, o, new)
    <3>1. Become([made EXCEPT !.disk = WriteEntry(@, first, up), !.root = CacheEntry(@, up)])
      BY <1>2, <2>5 DEF up, first
    <3>2. CacheEntry(cached1, up) = cached1
      BY <2>7, <2>8, UpCached
    <3>3. WriteEntry(made.disk, first, up) = Filled(d2, o, new)
      BY <2>6, <2>10, <2>12 DEF WriteEntry, Filled
    <3>4. /\ ret' = made.ret /\ fat' = made.fat
          /\ disk' = WriteEntry(made.disk, first, up) /\ root' = CacheEntry(made.root, up)
      <4>1. made = [ret |-> made.ret, fat |-> made.fat, disk |-> made.disk, root |-> made.root,
                    new |-> made.new, offset |-> made.offset, parent |-> made.parent]
        BY <2>2 DEF Success
      <4>. QED BY <3>1, <4>1 DEF Become, Leave
    <3>. QED BY <2>5, <3>2, <3>3, <3>4
  <2>17. PICK H2, at2 :
             /\ Tidy(fat', disk', root', H2, at2)
             /\ TreeOf(disk', H2, at2) = TreeOf(disk, H, at) \union {Shape(new, path)}
             /\ path \in Tree!Vacant(TreeOf(disk, H, at))
    BY <2>15, <2>16 DEF Joined
  <2>18. Shape(new, path) = Tree!Directory(path)
    BY <2>3 DEF Shape, Tree!Directory
  <2>19. Tree!Succeeds(call', TreeOf(disk, H, at), TreeOf(disk', H2, at2))
    BY <1>0, <2>17, <2>18 DEF Tree!Succeeds, Tree!Mkdir
  <2>. QED BY <2>16, <2>17, <2>19 DEF Advance
<1>. QED BY <1>3, <1>4

-----------------------------------------------------------------------------
(* The calls that remove a node, or change nothing.                         *)

LEMMA PrefixAbove ==
    ASSUME NEW p \in Seq(Names), NEW s \in Seq(Names) PROVE Tree!IsPrefix(p, s) <=> Above(p, s)
<1>1. Len(p) \in Nat /\ Len(s) \in Nat
  OBVIOUS
<1>2. ASSUME Len(p) <= Len(s)
      PROVE  SubSeq(p, 1, Len(p)) = SubSeq(s, 1, Len(p)) <=> \A k \in 1 .. Len(p) : p[k] = s[k]
  <2>. DEFINE w == SubSeq(s, 1, Len(p))
  <2>1. SubSeq(p, 1, Len(p)) = p
    OBVIOUS
  <2>2. w \in Seq(Names) /\ Len(w) = Len(p) /\ \A k \in 1 .. Len(p) : w[k] = s[k]
    <3>1. \A m \in 0 .. Len(s) :
              /\ SubSeq(s, 1, m) \in Seq(Names) /\ Len(SubSeq(s, 1, m)) = m
              /\ \A j \in 1 .. m : SubSeq(s, 1, m)[j] = s[j]
      OBVIOUS
    <3>2. Len(p) \in 0 .. Len(s)
      BY <1>1, <1>2
    <3>. QED BY <3>1, <3>2
  <2>. HIDE DEF w
  <2>3. p = w <=> \A k \in 1 .. Len(p) : p[k] = w[k]
    BY <2>2, SeqEqual
  <2>. QED BY <2>1, <2>2, <2>3 DEF w
<1>. QED BY <1>2 DEF Tree!IsPrefix, Above

\* Something lies below a node only if the node lists something.
LEMMA ListsBelow ==
    ASSUME NEW t, NEW d, NEW cached, NEW H, NEW at, Tidy(t, d, cached, H, at),
           NEW o \in H, NEW x \in H, x # o, Above(at[o], at[x])
    PROVE  \E c \in H : Listed(d, at, o, c)
<1>. DEFINE p == at[o]
            s == at[x]
            m == Len(p) + 1
            n == s[m]
            r == SubSeq(s, 1, m)
<1>1. p \in Seq(Names) /\ s \in Seq(Names) /\ Len(p) \in Nat /\ Len(s) \in Nat /\ p # s
  BY NodeType DEF Tidy, Hangs
<1>. HIDE DEF p, s
<1>2. Len(p) < Len(s)
  <2>1. Len(p) <= Len(s) /\ \A k \in 1 .. Len(p) : p[k] = s[k]
    BY DEF Above, p, s
  <2>. QED BY <1>1, <2>1, SeqEqual
<1>3. m \in 0 .. Len(s) /\ m \in 1 .. Len(s)
  BY <1>1, <1>2
<1>4. n \in Names
  BY <1>1, <1>3
<1>5. r \in Seq(Names) /\ Len(r) = m /\ \A j \in 1 .. m : r[j] = s[j]
  <2>1. \A k \in 0 .. Len(s) :
            /\ SubSeq(s, 1, k) \in Seq(Names) /\ Len(SubSeq(s, 1, k)) = k
            /\ \A j \in 1 .. k : SubSeq(s, 1, k)[j] = s[j]
    BY <1>1
  <2>. QED BY <1>3, <2>1
<1>6. r = Append(p, n)
  <2>1. Append(p, n) \in Seq(Names) /\ Len(Append(p, n)) = m /\ Append(p, n)[m] = n
        /\ \A j \in 1 .. Len(p) : Append(p, n)[j] = p[j]
    BY <1>1, <1>4
  <2>2. \A j \in 1 .. m : j = m \/ j \in 1 .. Len(p)
    BY <1>1
  <2>3. \A j \in 1 .. Len(p) : p[j] = s[j] /\ j \in 1 .. m
    BY <1>1 DEF Above, p, s
  <2>. HIDE DEF r
  <2>4. \A j \in 1 .. m : Append(p, n)[j] = r[j]
    <3>1. SUFFICES ASSUME NEW j \in 1 .. m PROVE Append(p, n)[j] = r[j]
      OBVIOUS
    <3>2. CASE j = m
      BY <1>5, <2>1, <3>1, <3>2
    <3>3. CASE j \in 1 .. Len(p)
      BY <1>5, <2>1, <2>3, <3>1, <3>3
    <3>. QED BY <2>2, <3>2, <3>3
  <2>. QED BY <1>5, <2>1, <2>4, SeqEqual
<1>7. Above(r, s)
  BY <1>1, <1>3, <1>5 DEF Above
<1>. HIDE DEF r, m, n
<1>8. PICK y \in H : at[y] = r
  BY <1>5, <1>7, Ancestors DEF s
<1>9. PICK q \in H : at[q] = p /\ Listed(d, at, q, y)
  BY <1>1, <1>4, <1>6, <1>8, ChildOf
<1>10. q = o
  BY <1>9 DEF Tidy, Hangs, p
<1>. QED BY <1>9, <1>10

\* A node leaves the tree.
LEMMA TreeShrinks ==
    ASSUME NEW t, NEW d, NEW cached, NEW H, NEW at, Tidy(t, d, cached, H, at),
           NEW o \in H, NEW d2, \A x \in H : x # o => d2[x] = d[x]
    PROVE  TreeOf(d2, H \ {o}, Without(H, at, o)) = Tree!Delete(TreeOf(d, H, at), at[o])
<1>1. \A x \in H \ {o} : Shape(d2[x], Without(H, at, o)[x]) = Shape(d[x], at[x])
  BY DEF Without
<1>2. \A x \in H : Shape(d[x], at[x]).path = at[x] /\ (at[x] = at[o] => x = o)
  BY DEF Shape, Tidy, Hangs
<1>. QED BY <1>1, <1>2 DEF TreeOf, Tree!Delete

\* A node that lists nothing is removed: its blocks are freed, its entry is rewritten.
Removes(o, entry) ==
    Become([ret |-> "OK", fat |-> Forget(fat, EntryAt(o).start), root |-> root,
            disk |-> WriteEntry(disk, o, entry)])

LEMMA RemovedAdvance ==
    ASSUME NEW H, NEW at, Tidy(fat, disk, root, H, at), NEW o \in H, o # RootOffset,
           \A c \in H : ~Listed(disk, at, o, c), NEW entry \in Entry, entry.start = FREE,
           Removes(o, entry),
           call' = IF disk[o].type = "file" THEN <<"unlink", at[o]>> ELSE <<"rmdir", at[o]>>
    PROVE  Advance(H, at)
<1>1. EntryAt(o) = disk[o]
  BY NodeEntry
<1>2. ret' = "OK" /\ fat' = Forget(fat, disk[o].start) /\ root' = root /\ disk' = Filled(disk, o, entry)
  BY <1>1 DEF Removes, Become, Leave, WriteEntry, Filled
<1>3. Tidy(fat', disk', root', H \ {o}, Without(H, at, o))
  BY <1>2, Removed
<1>4. TreeOf(disk', H \ {o}, Without(H, at, o)) = Tree!Delete(TreeOf(disk, H, at), at[o])
  <2>1. \A x \in H : x # o => disk'[x] = disk[x]
    BY <1>2 DEF Filled, Tidy, Hangs, Rooted
  <2>. DEFINE d2 == disk'
  <2>2. \A x \in H : x # o => d2[x] = disk[x]
    BY <2>1
  <2>. HIDE DEF d2
  <2>3. TreeOf(d2, H \ {o}, Without(H, at, o)) = Tree!Delete(TreeOf(disk, H, at), at[o])
    BY <2>2, TreeShrinks
  <2>. QED BY <2>3 DEF d2
<1>5. CASE disk[o].type = "file"
  <2>1. at[o] \in Tree!Files(TreeOf(disk, H, at))
    BY <1>5, TreeParts
  <2>2. Tree!Succeeds(call', TreeOf(disk, H, at), TreeOf(disk', H \ {o}, Without(H, at, o)))
    BY <1>4, <1>5, <2>1 DEF Tree!Succeeds, Tree!Unlink
  <2>. QED BY <1>2, <1>3, <2>2 DEF Advance
<1>6. CASE disk[o].type = "dir"
  <2>1. at[o] \in Tree!Directories(TreeOf(disk, H, at)) \ {<<>>}
    <3>1. at[o] # <<>>
      BY RootType DEF Tidy, Hangs
    <3>. QED BY <1>6, <3>1, TreeParts
  <2>2. Tree!Under(TreeOf(disk, H, at), at[o]) = {}
    <3>1. SUFFICES ASSUME NEW x \in H, Tree!IsStrictPrefix(at[o], at[x]) PROVE FALSE
      BY TreeParts DEF Tree!Under
    <3>2. at[o] \in Seq(Names) /\ at[x] \in Seq(Names)
      BY NodeType
    <3>3. Above(at[o], at[x]) /\ x # o
      BY <3>1, <3>2, PrefixAbove DEF Tree!IsStrictPrefix
    <3>. QED BY <3>3, ListsBelow
  <2>3. Tree!Succeeds(call', TreeOf(disk, H, at), TreeOf(disk', H \ {o}, Without(H, at, o)))
    BY <1>4, <1>6, <2>1, <2>2 DEF Tree!Succeeds, Tree!Rmdir
  <2>. QED BY <1>2, <1>3, <2>3 DEF Advance
<1>7. disk[o] \in Entry
  BY NodeType
<1>. QED BY <1>5, <1>6, <1>7 DEF Entry

LEMMA UnlinkAdvance ==
    ASSUME NEW H, NEW at, Tidy(fat, disk, root, H, at), NEW path \in Paths, Unlink(path)
    PROVE  Advance(H, at)
<1>0. call' = <<"unlink", path>>
  BY DEF Unlink, Called
<1>1. CASE NotFound(path)
  BY <1>1, NotFoundAdvance, NamespaceAssumption
<1>2. CASE \E o \in Resolve(path) :
             IF EntryAt(o).type = "dir" THEN Fail("EISDIR")
             ELSE Removes(o, [EntryAt(o) EXCEPT !.start = FREE])
  <2>1. PICK o \in Resolve(path) :
             IF EntryAt(o).type = "dir" THEN Fail("EISDIR")
             ELSE Removes(o, [EntryAt(o) EXCEPT !.start = FREE])
    BY <1>2
  <2>2. o \in H /\ at[o] = path
    BY Resolved, NamespaceAssumption
  <2>3. EntryAt(o) = disk[o] /\ disk[o] \in Entry
    BY <2>2, NodeEntry, NodeType
  <2>4. CASE disk[o].type = "dir"
    BY <2>1, <2>3, <2>4 DEF Fail, Advance
  <2>5. CASE disk[o].type # "dir"
    <3>1. o # RootOffset /\ \A c \in H : ~Listed(disk, at, o, c)
      BY <2>5, RootType DEF Listed
    <3>2. [disk[o] EXCEPT !.start = FREE] \in Entry /\ [disk[o] EXCEPT !.start = FREE].start = FREE
      BY <2>3, EntryType DEF Entry
    <3>3. Removes(o, [disk[o] EXCEPT !.start = FREE])
      BY <2>1, <2>3, <2>5
    <3>4. call' = IF disk[o].type = "file" THEN <<"unlink", at[o]>> ELSE <<"rmdir", at[o]>>
      BY <1>0, <2>2, <2>3, <2>5 DEF Entry
    <3>. QED BY <2>2, <3>1, <3>2, <3>3, <3>4, RemovedAdvance
  <2>. QED BY <2>4, <2>5
<1>3. \/ NotFound(path)
      \/ \E o \in Resolve(path) :
             IF EntryAt(o).type = "dir" THEN Fail("EISDIR")
             ELSE Removes(o, [EntryAt(o) EXCEPT !.start = FREE])
  BY Zenon DEF Unlink, Removes
<1>. QED BY <1>1, <1>2, <1>3

\* What rmdir takes for empty lists nothing.
LEMMA EmptyListsNothing ==
    ASSUME NEW H, NEW at, Tidy(fat, disk, root, H, at), NEW o \in H, o # RootOffset,
           disk[o].type = "dir", DirectoryEmpty(disk[o])
    PROVE  \A c \in H : ~Listed(disk, at, o, c)
<1>1. SUFFICES ASSUME NEW c \in H, Listed(disk, at, o, c) PROVE FALSE
  OBVIOUS
<1>2. PICK i \in First(o) .. disk[o].length - 1 : c = Slot(disk[o], i)
  BY <1>1 DEF Listed
<1>3. disk[o].length \in Nat /\ disk[o].length <= EntriesPerBlock /\ First(o) = 1
      /\ EntriesPerBlock \in Nat
  BY DirectoryType, NamespaceAssumption DEF First
<1>4. i \in 0 .. disk[o].length - 1 /\ i \in 0 .. EntriesPerBlock - 1 /\ ~(disk[o].length <= 1)
  BY <1>2, <1>3
<1>5. SlotOffset(fat, disk[o], i) = c
  BY <1>2, <1>4, SlotAt
<1>6. DirStatus(fat, disk[o]) = "OK"
  BY Readable
<1>7. ~HasStuff(fat, disk[c])
  BY <1>4, <1>5, <1>6 DEF DirectoryEmpty
<1>8. disk[c].name # DotDot
  BY <1>1, NamespaceAssumption DEF Listed
<1>9. disk[c].type = "dir" => disk[c].length > 0
  <2>1. SUFFICES ASSUME disk[c].type = "dir" PROVE disk[c].length > 0
    OBVIOUS
  <2>2. disk[c].length \in Nat /\ disk[c].length >= 1
    BY <2>1, DirectoryType
  <2>. QED BY <2>2
<1>10. ~IsFree(fat, disk[c])
  BY NodeType, BlockAssumption DEF IsFree, DataBlocks, RootBlock, FREE
<1>11. disk[c].type \in {"file", "dir"}
  BY NodeType DEF Entry
<1>. QED BY <1>7, <1>8, <1>9, <1>10, <1>11 DEF HasStuff

LEMMA RmdirAdvance ==
    ASSUME NEW H, NEW at, Tidy(fat, disk, root, H, at), NEW path \in Paths, Rmdir(path)
    PROVE  Advance(H, at)
<1>0. call' = <<"rmdir", path>>
  BY DEF Rmdir, Called
<1>1. CASE Fail("EINVAL") \/ NotFound(path)
  <2>1. CASE Fail("EINVAL")
    BY <2>1 DEF Fail, Advance
  <2>2. CASE NotFound(path)
    BY <2>2, NotFoundAdvance, NamespaceAssumption
  <2>. QED BY <1>1, <2>1, <2>2
<1>2. CASE \E o \in Resolve(path) :
             /\ path # <<>>
             /\ IF EntryAt(o).type = "file" THEN Fail("ENOTDIR")
                ELSE IF ~DirectoryEmpty(EntryAt(o)) THEN Fail("ENOTEMPTY")
                ELSE Removes(o, [EntryAt(o) EXCEPT !.start = FREE, !.length = 0])
  <2>1. PICK o \in Resolve(path) :
             /\ path # <<>>
             /\ IF EntryAt(o).type = "file" THEN Fail("ENOTDIR")
                ELSE IF ~DirectoryEmpty(EntryAt(o)) THEN Fail("ENOTEMPTY")
                ELSE Removes(o, [EntryAt(o) EXCEPT !.start = FREE, !.length = 0])
    BY <1>2
  <2>2. o \in H /\ at[o] = path
    BY Resolved, NamespaceAssumption
  <2>3. EntryAt(o) = disk[o] /\ disk[o] \in Entry
    BY <2>2, NodeEntry, NodeType
  <2>4. CASE disk[o].type = "file" \/ ~DirectoryEmpty(disk[o])
    BY <2>1, <2>3, <2>4 DEF Fail, Advance
  <2>5. CASE disk[o].type # "file" /\ DirectoryEmpty(disk[o])
    <3>1. o # RootOffset /\ disk[o].type = "dir"
      BY <2>1, <2>2, <2>3, <2>5, RootType DEF Entry
    <3>2. \A c \in H : ~Listed(disk, at, o, c)
      BY <2>2, <2>5, <3>1, EmptyListsNothing
    <3>. DEFINE entry == [disk[o] EXCEPT !.start = FREE, !.length = 0]
    <3>3. entry \in Entry /\ entry.start = FREE
      BY <2>3 DEF Entry
    <3>4. Removes(o, entry)
      BY <2>1, <2>3, <2>5
    <3>5. call' = IF disk[o].type = "file" THEN <<"unlink", at[o]>> ELSE <<"rmdir", at[o]>>
      BY <1>0, <2>2, <3>1
    <3>. HIDE DEF entry
    <3>. QED BY <2>2, <3>1, <3>2, <3>3, <3>4, <3>5, RemovedAdvance
  <2>. QED BY <2>4, <2>5
<1>3. \/ Fail("EINVAL") \/ NotFound(path)
      \/ \E o \in Resolve(path) :
             /\ path # <<>>
             /\ IF EntryAt(o).type = "file" THEN Fail("ENOTDIR")
                ELSE IF ~DirectoryEmpty(EntryAt(o)) THEN Fail("ENOTEMPTY")
                ELSE Removes(o, [EntryAt(o) EXCEPT !.start = FREE, !.length = 0])
  BY Zenon DEF Rmdir, Removes
<1>. QED BY <1>1, <1>2, <1>3

-----------------------------------------------------------------------------
(* truncate.                                                                *)

\* Where a length ends in its last block, and that what is cut off a length that needs no more
\* blocks lies in that block too.
LEMMA EndOfLength ==
    ASSUME NEW size \in Nat, size % EntriesPerBlock # 0
    PROVE  LET k == (size - 1) \div EntriesPerBlock
               r == size % EntriesPerBlock
           IN  /\ k \in Nat /\ r \in Nat /\ r > 0 /\ r < EntriesPerBlock
               /\ BlocksFor(size) = k + 1
               /\ \A length \in Nat : BlocksFor(length) = BlocksFor(size) =>
                                          r + length - size <= EntriesPerBlock
<1>. DEFINE e == EntriesPerBlock
            c == size \div e
            r == size % e
            k == (size - 1) \div e
<1>1. e \in Nat /\ e >= 2
  BY NamespaceAssumption
<1>. HIDE DEF e
<1>2. c \in Nat /\ r \in Nat /\ r > 0 /\ r < e /\ size = c * e + r
  <2>1. \A s, f \in Nat : f >= 2 => /\ s \div f \in Nat /\ s % f \in Nat /\ s % f < f
                                    /\ s = (s \div f) * f + (s % f)
    BY Z3
  <2>. QED BY <1>1, <2>1 DEF e
<1>3. k = c
  <2>1. \A f, g, x \in Nat : f >= 2 /\ x > 0 /\ x < f => (g * f + x - 1) \div f = g
    <3>1. \A f, g, y \in Nat : f >= 2 /\ y < f => (g * f + y) \div f = g
      BY Z3
    <3>2. \A f, g, x \in Nat : x > 0 => g * f \in Nat /\ g * f + x - 1 = g * f + (x - 1) /\ x - 1 \in Nat
      BY Z3
    <3>. QED BY <3>1, <3>2
  <2>. HIDE DEF c, r
  <2>. QED BY <1>1, <1>2, <2>1
<1>4. BlocksFor(size) = k + 1
  <2>1. \A a, f \in Nat : f >= 2 => (a + f) \div f = a \div f + 1
    BY Z3
  <2>2. size - 1 \in Nat /\ size + e - 1 = (size - 1) + e
    <3>. HIDE DEF r, c
    <3>1. size # 0
      <4>1. \A f, g \in Nat : g * f \in Nat
        BY Z3
      <4>. QED BY <1>1, <1>2, <4>1
    <3>. QED BY <1>1, <3>1
  <2>3. (size + e - 1) \div e = k + 1
    BY <1>1, <2>1, <2>2
  <2>. QED BY <2>3 DEF BlocksFor, e
<1>5. ASSUME NEW length \in Nat, BlocksFor(length) = BlocksFor(size)
      PROVE  r + length - size <= e
  <2>1. (length + e - 1) \div e = c + 1
    BY <1>3, <1>4, <1>5 DEF BlocksFor, e
  <2>2. \A f, g, l \in Nat : f >= 2 /\ (l + f - 1) \div f = g + 1 => l <= g * f + f
    <3>1. \A f, a \in Nat : f >= 2 => a < (a \div f) * f + f
      BY Z3
    <3>2. \A f, g \in Nat : (g + 1) * f = g * f + f /\ g * f \in Nat
      BY Z3
    <3>3. SUFFICES ASSUME NEW f \in Nat, NEW g \in Nat, NEW l \in Nat, f >= 2,
                          (l + f - 1) \div f = g + 1
                   PROVE  l <= g * f + f
      OBVIOUS
    <3>4. l + f - 1 \in Nat
      BY <3>3
    <3>5. l + f - 1 < (g + 1) * f + f
      BY <3>1, <3>3, <3>4
    <3>. QED BY <3>2, <3>3, <3>5
  <2>3. length <= c * e + e
    BY <1>1, <1>2, <2>1, <2>2
  <2>4. \A f, g \in Nat : g * f \in Nat
    BY Z3
  <2>5. c * e \in Nat
    BY <1>1, <1>2, <2>4
  <2>. HIDE DEF c, r
  <2>. QED BY <1>1, <1>2, <2>3, <2>5
<1>. QED BY <1>2, <1>3, <1>4, <1>5 DEF e

\* The zeroes of a truncation that callers may ask for stay in the file's last block.
LEMMA ZeroesAside ==
    ASSUME NEW H, NEW at, Tidy(fat, disk, root, H, at), NEW o \in H, disk[o].type = "file",
           NEW size \in Nat, NEW p, NEW n, Follows(fat, disk[o].start, p, n), BlocksFor(size) <= n,
           \/ size % EntriesPerBlock = 0
           \/ disk[o].length <= size
           \/ BlocksFor(disk[o].length) = BlocksFor(size),
           NEW zero \in ZeroOutFree(disk[o], size)
    PROVE  /\ zero.ret = "OK" /\ zero.disk \in [Offsets -> Entry]
           /\ \A x \in Offsets : zero.disk[x] = disk[x] \/ Aside(disk, H, x)
<1>1. disk \in [Offsets -> Entry] /\ fat \in [Blocks -> Links] /\ disk[o].length \in Nat
  BY NodeType DEF Tidy, Table, Entry
<1>2. CASE size % EntriesPerBlock = 0 \/ disk[o].length <= size
  <2>1. zero = [ret |-> "OK", disk |-> disk]
    BY <1>2 DEF ZeroOutFree
  <2>. QED BY <1>1, <2>1
<1>3. CASE ~(size % EntriesPerBlock = 0 \/ disk[o].length <= size)
  <2>. DEFINE k == (size - 1) \div EntriesPerBlock
              r == size % EntriesPerBlock
              b == Hop(fat, disk[o].start, k)
              from == b * EntriesPerBlock + r
              until == from + disk[o].length - size
              zeroed(end) == [x \in Offsets |-> IF from <= x /\ x < end THEN Nothing ELSE disk[x]]
  <2>1. /\ k \in Nat /\ r \in Nat /\ r > 0 /\ r < EntriesPerBlock /\ BlocksFor(size) = k + 1
        /\ r + disk[o].length - size <= EntriesPerBlock
    BY <1>1, <1>3, EndOfLength
  <2>2. zero \in IF until <= BlockCount * EntriesPerBlock
                 THEN {[ret |-> "OK", disk |-> zeroed(until)]}
                 ELSE {[ret |-> "PANIC", disk |-> zeroed(end)] :
                          end \in from .. BlockCount * EntriesPerBlock}
    BY <1>3 DEF ZeroOutFree
  <2>. HIDE DEF k, r
  <2>3. b \in DataBlocks /\ b \in Chain(fat, disk[o].start)
    <3>1. n \in Nat /\ k < n /\ k + 1 \in 1 .. n
      BY <2>1 DEF Follows
    <3>2. b = p[k + 1]
      BY <1>1, <2>1, <3>1, FollowedHop
    <3>. HIDE DEF b
    <3>3. p[k + 1] \in DataBlocks
      BY <3>1 DEF Follows
    <3>4. Chain(fat, disk[o].start) = {p[j] : j \in 1 .. n}
      BY FollowedChain
    <3>. QED BY <3>1, <3>2, <3>3, <3>4
  <2>4. \A q \in H : disk[q].type = "dir" => disk[q].start # b
    <3>. HIDE DEF b
    <3>1. SUFFICES ASSUME NEW q \in H, disk[q].type = "dir", disk[q].start = b PROVE FALSE
      OBVIOUS
    <3>2. q # o
      BY <3>1
    <3>3. b \in Chain(fat, disk[q].start)
      BY <3>1, NodeType
    <3>. QED BY <2>3, <3>2, <3>3 DEF Tidy, Owns
  <2>. HIDE DEF b
  <2>5. /\ b \in Nat /\ EntriesPerBlock \in Nat /\ b * EntriesPerBlock \in Nat /\ BlockCount \in Nat
        /\ BlockCount * EntriesPerBlock \in Nat
        /\ b * EntriesPerBlock + EntriesPerBlock <= BlockCount * EntriesPerBlock
    <3>1. b \in Nat /\ EntriesPerBlock \in Nat /\ BlockCount \in Nat /\ b + 1 <= BlockCount
      BY <2>3, BlockAssumption, NamespaceAssumption DEF DataBlocks, RootBlock
    <3>2. \A x, y \in Nat : x * y \in Nat
      BY Z3
    <3>3. \A x, y, f \in Nat : x + 1 <= y => x * f + f <= y * f
      <4>1. \A x, y, f \in Nat : x <= y => x * f <= y * f
        BY Z3
      <4>2. \A x, f \in Nat : (x + 1) * f = x * f + f
        BY Z3
      <4>. QED BY <4>1, <4>2
    <3>. QED BY <3>1, <3>2, <3>3
  <2>6. until <= b * EntriesPerBlock + EntriesPerBlock /\ until \in Int /\ from \in Nat
        /\ from >= b * EntriesPerBlock
    BY <1>1, <2>1, <2>5
  <2>7. until <= BlockCount * EntriesPerBlock
    BY <2>5, <2>6
  <2>. HIDE DEF until, from
  <2>8. zero = [ret |-> "OK", disk |-> zeroed(until)]
    <3>. HIDE DEF zeroed
    <3>. QED BY <2>2, <2>7
  <2>9. zeroed(until) \in [Offsets -> Entry]
    BY <1>1, EntryType
  <2>10. ASSUME NEW x \in Offsets, from <= x, x < until PROVE Aside(disk, H, x)
    <3>. DEFINE i == x - b * EntriesPerBlock
    <3>1. x \in Int
      BY DEF Offsets
    <3>2. i \in 0 .. EntriesPerBlock - 1 /\ x = b * EntriesPerBlock + i
      BY <2>5, <2>6, <2>10, <3>1
    <3>. HIDE DEF i
    <3>. QED BY <2>3, <2>4, <3>2 DEF Aside
  <2>11. \A x \in Offsets : zeroed(until)[x] = disk[x] \/ Aside(disk, H, x)
    BY <2>10
  <2>. QED BY <2>8, <2>9, <2>11
<1>. QED BY <1>2, <1>3

\* A table that fits an entry of another length has its own blocks and free ones.
LEMMA RefitsReowns ==
    ASSUME NEW entry \in Entry, NEW size \in Nat, NEW table, Refits(table, entry, size)
    PROVE  Reowns(fat, table, [entry EXCEPT !.length = size])
<1>. DEFINE resized == [entry EXCEPT !.length = size]
<1>1. resized.start = entry.start
  BY DEF Entry
<1>2. Exact(table, resized)
  BY DEF Refits
<1>. HIDE DEF resized
<1>3. Reowns(fat, table, resized)
  BY <1>1, <1>2 DEF Refits, Reowns
<1>. QED BY <1>3 DEF resized

\* A partition in order in which one file has another length.
Adjusted(H, at, o, size, outcome) ==
    /\ outcome.ret = "OK"
    /\ Tidy(outcome.fat, outcome.disk, outcome.root, H, at)
    /\ outcome.disk[o] = [disk[o] EXCEPT !.length = size]
    /\ \A x \in H : x # o => outcome.disk[x] = disk[x]

LEMMA SavedAdjusts ==
    ASSUME NEW H, NEW at, Tidy(fat, disk, root, H, at), NEW o \in H, disk[o].type = "file",
           NEW size \in Nat, NEW table, Refits(table, disk[o], size),
           NEW d, Tidy(fat, d, root, H, at), \A x \in H : d[x] = disk[x]
    PROVE  Adjusted(H, at, o, size, Save(table, d, disk[o], o, size))
<1>. DEFINE resized == [disk[o] EXCEPT !.length = size]
            d2 == WriteEntry(d, o, resized)
            outcome == Save(table, d, disk[o], o, size)
<1>1. disk[o] \in Entry
  BY NodeType
<1>2. /\ resized \in Entry /\ resized.name = d[o].name /\ resized.type = d[o].type
      /\ resized.start = d[o].start /\ resized.type = "file"
  BY <1>1, EntryType DEF Entry
<1>3. Reowns(fat, table, resized)
  BY <1>1, RefitsReowns
<1>. HIDE DEF resized, d2
<1>4. /\ outcome.ret = "OK" /\ outcome.fat = table /\ outcome.disk = d2
      /\ outcome.root = CacheEntry(root, resized)
  BY DEF Save, d2, resized
<1>5. Tidy(table, d2, CacheEntry(root, resized), H, at)
  BY <1>2, <1>3, Resaved DEF d2
<1>6. d2[o] = resized /\ \A x \in H : x # o => d2[x] = disk[x]
  <2>1. d2[o] = resized /\ \A x \in Offsets : x # o /\ x # RootOffset + 1 => d2[x] = d[x]
    BY <1>2, WrittenEntry DEF d2
  <2>2. RootOffset \in H /\ disk[RootOffset].type = "dir"
    BY RootType
  <2>3. RootOffset + 1 \notin H
    BY <2>2, DirectorySlots
  <2>4. H \subseteq Offsets
    BY NodeType
  <2>. QED BY <2>1, <2>3, <2>4
<1>. HIDE DEF outcome
<1>7. Adjusted(H, at, o, size, outcome)
  BY <1>4, <1>5, <1>6 DEF Adjusted, resized
<1>. QED BY <1>7 DEF outcome

\* What resize does to a file that is cut off at a block, grows, or ends in the block that
\* it ended in before.
LEMMA ResizeAdjusts ==
    ASSUME NEW H, NEW at, Tidy(fat, disk, root, H, at), NEW o \in H, disk[o].type = "file",
           NEW size \in Nat,
           \/ size % EntriesPerBlock = 0
           \/ disk[o].length <= size
           \/ BlocksFor(disk[o].length) = BlocksFor(size),
           NEW resized \in Resize(disk[o], o, size)
    PROVE  resized = Failure("ENOSPC", fat) \/ Adjusted(H, at, o, size, resized)
<1>1. disk[o] \in Entry /\ Chained(fat, disk[o]) /\ Table(fat) /\ Marked(fat)
  BY NodeType DEF Tidy
<1>2. PICK p, n : Follows(fat, disk[o].start, p, n)
  BY <1>1 DEF Chained
<1>3. Fitted(disk[o], o, size, n, resized)
  BY <1>1, <1>2, ResizeFits
<1>4. CASE disk[o].length = size /\ resized = Failure("OK", fat)
  <2>1. [disk[o] EXCEPT !.length = size] = disk[o]
    BY <1>1, <1>4 DEF Entry
  <2>. QED BY <1>4, <2>1 DEF Failure, Adjusted
<1>5. ASSUME NEW table, Refits(table, disk[o], size), resized = Save(table, disk, disk[o], o, size)
      PROVE  Adjusted(H, at, o, size, resized)
  <2>1. \A x \in H : disk[x] = disk[x]
    OBVIOUS
  <2>. QED BY <1>5, <2>1, SavedAdjusts
<1>6. ASSUME size # 0, BlocksFor(size) <= n, NEW table, Refits(table, disk[o], size),
             NEW zero \in ZeroOutFree(disk[o], size),
             resized = IF zero.ret = "OK" THEN Save(table, zero.disk, disk[o], o, size)
                       ELSE [ret |-> zero.ret, fat |-> fat, disk |-> zero.disk, root |-> root]
      PROVE  Adjusted(H, at, o, size, resized)
  <2>1. /\ zero.ret = "OK" /\ zero.disk \in [Offsets -> Entry]
        /\ \A x \in Offsets : zero.disk[x] = disk[x] \/ Aside(disk, H, x)
    BY <1>1, <1>2, <1>6, ZeroesAside
  <2>. DEFINE d == zero.disk
  <2>2. resized = Save(table, d, disk[o], o, size)
    BY <1>6, <2>1
  <2>. HIDE DEF d
  <2>3. d \in [Offsets -> Entry] /\ \A x \in Offsets : d[x] = disk[x] \/ Aside(disk, H, x)
    BY <2>1 DEF d
  <2>4. Tidy(fat, d, root, H, at) /\ \A x \in H : d[x] = disk[x]
    BY <2>3, WrittenAside
  <2>. QED BY <1>6, <2>2, <2>4, SavedAdjusts
<1>. QED BY <1>3, <1>4, <1>5, <1>6 DEF Fitted

\* A file's new length shows in the tree, and nothing else does.
LEMMA AdjustedTree ==
    ASSUME NEW H, NEW at, Tidy(fat, disk, root, H, at), NEW o \in H, disk[o].type = "file",
           NEW size \in Nat, NEW outcome, Adjusted(H, at, o, size, outcome),
           NEW d2, \A x \in H : d2[x] = outcome.disk[x]
    PROVE  TreeOf(d2, H, at) = Tree!Resized(TreeOf(disk, H, at), at[o], size)
<1>1. d2[o] = [disk[o] EXCEPT !.length = size] /\ \A x \in H : x # o => d2[x] = disk[x]
  BY DEF Adjusted
<1>2. Shape(d2[o], at[o]) = Tree!File(at[o], size)
  <2>1. disk[o] \in Entry
    BY NodeType
  <2>2. d2[o].type = "file" /\ d2[o].length = size
    BY <1>1, <2>1 DEF Entry
  <2>. QED BY <2>2 DEF Shape, Tree!File
<1>3. TreeOf(d2, H \ {o}, Without(H, at, o)) = Tree!Delete(TreeOf(disk, H, at), at[o])
  BY <1>1, TreeShrinks
<1>4. TreeOf(d2, H, at) = TreeOf(d2, H \ {o}, Without(H, at, o)) \union {Shape(d2[o], at[o])}
  BY DEF TreeOf, Without
<1>. QED BY <1>2, <1>3, <1>4 DEF Tree!Resized

LEMMA TruncateAdvance ==
    ASSUME NEW H, NEW at, Tidy(fat, disk, root, H, at), NEW path \in Paths, NEW size \in Sizes,
           Truncatable(path, size), Truncate(path, size)
    PROVE  Advance(H, at)
<1>0. call' = <<"truncate", path, size>> /\ path \in Seq(Names) /\ size \in Nat
  BY NamespaceAssumption DEF Truncate, Called
<1>1. CASE NotFound(path)
  BY <1>0, <1>1, NotFoundAdvance
<1>2. ASSUME NEW o \in Resolve(path), NEW resized \in Resize(EntryAt(o), o, size), Become(resized)
      PROVE  Advance(H, at)
  <2>1. o \in H /\ at[o] = path
    BY <1>0, Resolved
  <2>2. EntryAt(o) = disk[o]
    BY <2>1, NodeEntry
  <2>3. /\ disk[o].type = "file"
        /\ \/ size % EntriesPerBlock = 0
           \/ disk[o].length <= size
           \/ BlocksFor(disk[o].length) = BlocksFor(size)
    BY <1>2, <2>2 DEF Truncatable
  <2>4. Leave(resized)
    BY <1>2 DEF Become
  <2>5. CASE resized = Failure("ENOSPC", fat)
    BY <2>4, <2>5, FailedAdvance
  <2>6. CASE Adjusted(H, at, o, size, resized)
    <3>1. ret' = "OK" /\ Tidy(fat', disk', root', H, at) /\ disk' = resized.disk
      BY <2>4, <2>6 DEF Adjusted, Leave
    <3>2. TreeOf(resized.disk, H, at) = Tree!Resized(TreeOf(disk, H, at), path, size)
      BY <1>0, <2>1, <2>3, <2>6, AdjustedTree
    <3>3. path \in Tree!Files(TreeOf(disk, H, at))
      BY <2>1, <2>3, TreeParts
    <3>4. Tree!Succeeds(call', TreeOf(disk, H, at), TreeOf(disk', H, at))
      BY <1>0, <3>1, <3>2, <3>3 DEF Tree!Succeeds, Tree!Truncate
    <3>. QED BY <3>1, <3>4 DEF Advance
  <2>7. resized \in Resize(disk[o], o, size)
    BY <1>2, <2>2
  <2>. QED BY <1>0, <2>1, <2>3, <2>5, <2>6, <2>7, ResizeAdjusts
<1>3. NotFound(path) \/ \E o \in Resolve(path) : \E resized \in Resize(EntryAt(o), o, size) : Become(resized)
  BY Zenon DEF Truncate
<1>. QED BY <1>1, <1>2, <1>3

-----------------------------------------------------------------------------
(* write, and the calls that write an entry back.                           *)

\* Writing back an entry that was just read changes nothing.
LEMMA RewrittenSame ==
    ASSUME NEW t, NEW d, NEW cached, NEW H, NEW at, Tidy(t, d, cached, H, at), NEW o \in H
    PROVE  WriteEntry(d, o, d[o]) = d /\ CacheEntry(cached, d[o]) = cached
<1>1. /\ o \in Offsets /\ cached \in Entry
      /\ d \in [Offsets -> Entry] /\ cached = d[RootOffset] /\ RootOffset + 1 \in Offsets
      /\ d[RootOffset + 1] = [d[RootOffset] EXCEPT !.name = DotDot]
  <2>1. o \in Offsets
    BY NodeType
  <2>2. cached = d[RootOffset] /\ RootOffset + 1 \in Offsets /\ d[RootOffset] \in Entry
    BY RootType, NodeType
  <2>3. d \in [Offsets -> Entry] /\ d[RootOffset + 1] = [d[RootOffset] EXCEPT !.name = DotDot]
    BY DEF Tidy, Hangs, Rooted
  <2>. QED BY <2>1, <2>2, <2>3
<1>2. WriteEntry(d, o, d[o]) = d
  <2>1. [d EXCEPT ![o] = d[o]] = d
    BY <1>1
  <2>2. [d EXCEPT ![RootOffset + 1] = d[RootOffset + 1]] = d
    BY <1>1
  <2>3. CASE o = RootOffset
    <3>. DEFINE other == [d[o] EXCEPT !.name = DotDot]
    <3>1. WriteEntry(d, o, d[o]) = [[d EXCEPT ![o] = d[o]] EXCEPT ![RootOffset + 1] = other]
      BY <2>3 DEF WriteEntry
    <3>2. other = d[RootOffset + 1]
      BY <1>1, <2>3
    <3>. HIDE DEF other
    <3>. QED BY <2>1, <2>2, <3>1, <3>2
  <2>. QED BY <2>1, <2>3 DEF WriteEntry
<1>3. CacheEntry(cached, d[o]) = cached
  <2>1. CASE o = RootOffset
    <3>1. [cached EXCEPT !.length = cached.length] = cached
      BY <1>1 DEF Entry
    <3>. QED BY <1>1, <2>1, <3>1 DEF CacheEntry
  <2>2. CASE o # RootOffset
    <3>1. d[o].start # RootBlock
      BY <2>2, RootType, StartIsOne
    <3>. QED BY <3>1 DEF CacheEntry
  <2>. QED BY <2>1, <2>2
<1>. QED BY <1>2, <1>3

\* What is written to a file is not seen.
LEMMA OverwrittenAside ==
    ASSUME NEW t, NEW d, NEW cached, NEW H, NEW at, Tidy(t, d, cached, H, at),
           NEW o \in H, d[o].type = "file", NEW size \in Nat,
           NEW d2 \in Overwritten(t, d, d[o], size, Contents)
    PROVE  Tidy(t, d2, cached, H, at) /\ \A x \in H : d2[x] = d[x]
<1>1. t \in [Blocks -> Links] /\ d \in [Offsets -> Entry]
  BY DEF Tidy, Table
<1>2. d2 \in [Offsets -> Entry]
  BY <1>1, ContentsAssumption, OverwrittenType
<1>3. PICK p, n : Follows(t, d[o].start, p, n)
  BY NodeType DEF Chained
<1>4. ASSUME NEW x \in Offsets PROVE d2[x] = d[x] \/ Aside(d, H, x)
  <2>. DEFINE file == d[o]
  <2>0. d2 \in Overwritten(t, d, file, size, Contents)
    OBVIOUS
  <2>5. Follows(t, file.start, p, n)
    BY <1>3
  <2>. HIDE DEF file
  <2>6. Lands(t, d, file, Contents, d2)
    BY <1>1, <2>0, <2>5, OverwrittenIn
  <2>1. SUFFICES ASSUME Inside(t, d[o].start, x) PROVE Aside(d, H, x)
    BY <2>6 DEF file, Lands
  <2>2. PICK b \in Chain(t, d[o].start), j \in 0 .. EntriesPerBlock - 1 : x = b * EntriesPerBlock + j
    BY <2>1 DEF Inside
  <2>3. b \in DataBlocks
    BY NodeType, HolderChain
  <2>4. ASSUME NEW q \in H, d[q].type = "dir" PROVE d[q].start # b
    <3>1. d[q].start \in Chain(t, d[q].start) /\ q # o
      BY <2>4, NodeType
    <3>2. Chain(t, d[q].start) \cap Chain(t, d[o].start) = {}
      BY <3>1 DEF Tidy, Owns
    <3>. QED BY <3>1, <3>2
  <2>. QED BY <2>2, <2>3, <2>4 DEF Aside
<1>. QED BY <1>2, <1>4, WrittenAside

\* What write does to a file: at most its length changes.
LEMMA WritesAdvance ==
    ASSUME NEW H, NEW at, Tidy(fat, disk, root, H, at), NEW o \in H, disk[o].type = "file",
           NEW size \in Sizes, Writes(o, size, Contents), call' = <<"write", at[o], size>>
    PROVE  Advance(H, at)
<1>. DEFINE length == Enlarged(disk[o], size)
            file == [disk[o] EXCEPT !.length = length]
<1>1. EntryAt(o) = disk[o] /\ disk[o] \in Entry /\ size \in Nat
  BY NodeEntry, NodeType, NamespaceAssumption
<1>2. length \in Nat /\ disk[o].length <= length
  <2>1. length >= disk[o].length /\ disk[o].length \in Nat /\ length \in Nat
    BY <1>1, EnlargedType DEF Entry
  <2>. HIDE DEF length
  <2>. QED BY <2>1
<1>3. PICK resized \in Resize(disk[o], o, length) :
          \E filled \in Fill(resized, file, o, size, Contents) : Leave(filled)
  BY <1>1 DEF Writes
<1>4. PICK filled \in Fill(resized, file, o, size, Contents) : Leave(filled)
  BY <1>3
<1>. HIDE DEF length
<1>5. resized = Failure("ENOSPC", fat) \/ Adjusted(H, at, o, length, resized)
  BY <1>2, ResizeAdjusts
<1>6. CASE resized = Failure("ENOSPC", fat)
  <2>1. resized.ret # "OK"
    BY <1>6 DEF Failure
  <2>2. filled = resized
    BY <1>4, <2>1 DEF Fill
  <2>. QED BY <1>4, <1>6, <2>2, FailedAdvance
<1>7. CASE Adjusted(H, at, o, length, resized)
  <2>1. /\ resized.ret = "OK" /\ resized.disk[o] = file
        /\ Tidy(resized.fat, resized.disk, resized.root, H, at)
    BY <1>7 DEF Adjusted
  <2>2. file.type = "file"
    BY <1>1 DEF Entry
  <2>. DEFINE t2 == resized.fat
              d2 == resized.disk
              cached2 == resized.root
  <2>. HIDE DEF file
  <2>3. PICK d \in Overwritten(t2, d2, file, size, Contents) :
            filled = [resized EXCEPT !.disk = WriteEntry(d, o, file),
                                     !.root = CacheEntry(@, file)]
    BY <1>4, <2>1 DEF Fill
  <2>. HIDE DEF t2, d2, cached2
  <2>4. Tidy(t2, d, cached2, H, at) /\ \A x \in H : d[x] = d2[x]
    <3>1. Tidy(t2, d2, cached2, H, at) /\ d2[o] = file /\ d2[o].type = "file"
      BY <2>1, <2>2 DEF t2, d2, cached2
    <3>. QED BY <1>1, <2>3, <3>1, OverwrittenAside
  <2>5. WriteEntry(d, o, file) = d /\ CacheEntry(cached2, file) = cached2
    <3>1. d[o] = file
      BY <2>1, <2>4 DEF d2
    <3>. QED BY <2>4, <3>1, RewrittenSame
  <2>6. filled = [ret |-> "OK", fat |-> t2, disk |-> d, root |-> cached2]
    <3>1. IsOutcome(resized)
      BY ResizeOutcome
    <3>2. filled = [resized EXCEPT !.disk = d, !.root = cached2]
      BY <2>3, <2>5 DEF cached2
    <3>. QED BY <2>1, <3>1, <3>2 DEF IsOutcome, t2
  <2>7. ret' = "OK" /\ fat' = t2 /\ disk' = d /\ root' = cached2
    BY <1>4, <2>6 DEF Leave
  <2>8. TreeOf(d, H, at) = Tree!Resized(TreeOf(disk, H, at), at[o], length)
    BY <1>2, <1>7, <2>4, AdjustedTree DEF d2
  <2>9. Tree!Resized(TreeOf(disk, H, at), at[o], length)
            = Tree!Lengthened(TreeOf(disk, H, at), at[o], size)
    <3>1. {m \in TreeOf(disk, H, at) : m.path = at[o]} = {Shape(disk[o], at[o])}
      <4>1. \A x \in H : Shape(disk[x], at[x]).path = at[x] /\ (at[x] = at[o] => x = o)
        BY DEF Shape, Tidy, Hangs
      <4>. QED BY <4>1 DEF TreeOf
    <3>2. Shape(disk[o], at[o]).length = disk[o].length
      BY DEF Shape
    <3>. DEFINE grown(n) == Tree!File(at[o], IF size > n.length THEN size ELSE n.length)
    <3>3. grown(Shape(disk[o], at[o])) = Tree!File(at[o], length)
      BY <3>2 DEF length, Enlarged
    <3>4. {grown(n) : n \in {m \in TreeOf(disk, H, at) : m.path = at[o]}} = {Tree!File(at[o], length)}
      <4>. HIDE DEF grown
      <4>. QED BY <3>1, <3>3
    <3>. QED BY <3>4 DEF Tree!Resized, Tree!Lengthened
  <2>10. at[o] \in Tree!Files(TreeOf(disk, H, at))
    BY TreeParts
  <2>11. Tree!Succeeds(call', TreeOf(disk, H, at), TreeOf(disk', H, at))
    BY <2>7, <2>8, <2>9, <2>10 DEF Tree!Succeeds, Tree!Write
  <2>12. Tidy(fat', disk', root', H, at)
    BY <2>4, <2>7
  <2>. QED BY <2>7, <2>11, <2>12 DEF Advance
<1>. QED BY <1>5, <1>6, <1>7

LEMMA WriteAdvance ==
    ASSUME NEW H, NEW at, Tidy(fat, disk, root, H, at), NEW path \in Paths, NEW size \in Sizes,
           Writable(path), Write(path, size, Contents)
    PROVE  Advance(H, at)
<1>0. path \in Seq(Names) /\ call' = <<"write", path, size>>
  BY WriteIs, NamespaceAssumption
<1>1. CASE NotFound(path)
  BY <1>0, <1>1, NotFoundAdvance
<1>2. ASSUME NEW o \in Resolve(path), Writes(o, size, Contents) PROVE Advance(H, at)
  <2>1. o \in H /\ at[o] = path
    BY <1>0, Resolved
  <2>2. disk[o].type = "file"
    BY <2>1, NodeEntry DEF Writable
  <2>. QED BY <1>0, <1>2, <2>1, <2>2, WritesAdvance
<1>. QED BY <1>1, <1>2, WriteIs

\* utimens and read find what is there, and change nothing that callers see.
LEMMA LookedUpAdvance ==
    ASSUME NEW H, NEW at, Tidy(fat, disk, root, H, at), NEW o \in H,
           call' \in {<<"read", at[o]>>, <<"utimens", at[o]>>},
           ret' = "OK", UNCHANGED <<fat, disk, root>>
    PROVE  Advance(H, at)
<1>1. at[o] \in Tree!Existing(TreeOf(disk, H, at))
  BY TreeParts
<1>2. Tree!Succeeds(call', TreeOf(disk, H, at), TreeOf(disk, H, at))
  BY <1>1 DEF Tree!Succeeds, Tree!LookUp
<1>. QED BY <1>2, StaysAdvance

LEMMA TouchAdvance ==
    ASSUME NEW H, NEW at, Tidy(fat, disk, root, H, at), NEW o \in H, NEW time, Touch(o, time),
           call' \in {<<"read", at[o]>>, <<"utimens", at[o]>>}
    PROVE  Advance(H, at)
<1>1. EntryAt(o) = disk[o]
  BY NodeEntry
<1>2. WriteEntry(disk, o, disk[o]) = disk /\ CacheEntry(root, disk[o]) = root
  BY RewrittenSame
<1>3. ret' = "OK" /\ UNCHANGED <<fat, disk, root>>
  BY <1>1, <1>2 DEF Touch, Leave
<1>. QED BY <1>3, LookedUpAdvance

LEMMA UtimensAdvance ==
    ASSUME NEW H, NEW at, Tidy(fat, disk, root, H, at), NEW path \in Paths, NEW time,
           Utimens(path, time)
    PROVE  Advance(H, at)
<1>0. path \in Seq(Names) /\ call' = <<"utimens", path>>
  BY NamespaceAssumption DEF Utimens, Called
<1>1. CASE NotFound(path)
  BY <1>0, <1>1, NotFoundAdvance
<1>2. ASSUME NEW o \in Resolve(path), Touch(o, time) PROVE Advance(H, at)
  <2>1. o \in H /\ at[o] = path
    BY <1>0, Resolved
  <2>. QED BY <1>0, <1>2, <2>1, TouchAdvance
<1>. QED BY <1>1, <1>2 DEF Utimens

LEMMA ReadAdvance ==
    ASSUME NEW H, NEW at, Tidy(fat, disk, root, H, at), NEW path \in Paths, Read(path)
    PROVE  Advance(H, at)
<1>0. path \in Seq(Names) /\ call' = <<"read", path>>
  BY NamespaceAssumption DEF Read, Called
<1>1. CASE NotFound(path)
  BY <1>0, <1>1, NotFoundAdvance
<1>2. ASSUME NEW o \in Resolve(path),
             \/ Touch(o, times.cached)
             \/ Fail("OK")
             \/ Fail("ENOENT")
      PROVE  Advance(H, at)
  <2>1. o \in H /\ at[o] = path
    BY <1>0, Resolved
  <2>2. CASE Touch(o, times.cached)
    BY <1>0, <2>1, <2>2, TouchAdvance
  <2>3. CASE Fail("OK")
    BY <1>0, <2>1, <2>3, LookedUpAdvance DEF Fail
  <2>4. CASE Fail("ENOENT")
    BY <2>4 DEF Fail, Advance
  <2>. QED BY <1>2, <2>2, <2>3, <2>4
<1>. QED BY <1>1, <1>2 DEF Read

LEMMA RestartAdvance ==
    ASSUME NEW H, NEW at, Tidy(fat, disk, root, H, at), Restart
    PROVE  Advance(H, at)
<1>1. call' = <<"restart">> /\ ret' = "OK" /\ fat' = fat /\ disk' = disk
  BY DEF Restart
<1>2. root' = root
  BY RootType DEF Restart
<1>3. Tree!Succeeds(call', TreeOf(disk, H, at), TreeOf(disk, H, at))
  BY <1>1 DEF Tree!Succeeds, Tree!Restart
<1>. QED BY <1>1, <1>2, <1>3, StaysAdvance

\* An empty partition is the empty tree.
LEMMA EmptyTree ==
    ASSUME NEW d \in [Offsets -> Entry]
    PROVE  TreeOf(WriteEntry(d, RootOffset, NewRoot), {RootOffset}, [x \in {RootOffset} |-> <<>>])
               = Tree!Empty
<1>. DEFINE d2 == WriteEntry(d, RootOffset, NewRoot)
            at == [x \in {RootOffset} |-> <<>>]
<1>1. RootOffset \in Offsets /\ RootOffset + 1 # RootOffset
  BY RootInRange DEF Offsets
<1>2. d2[RootOffset] = NewRoot /\ at[RootOffset] = <<>>
  BY <1>1 DEF WriteEntry
<1>3. Shape(NewRoot, <<>>) = Tree!Directory(<<>>)
  BY DEF Shape, NewRoot, Tree!Directory
<1>. HIDE DEF d2, at
<1>4. TreeOf(d2, {RootOffset}, at) = {Shape(d2[RootOffset], at[RootOffset])}
  BY DEF TreeOf
<1>5. TreeOf(d2, {RootOffset}, at) = Tree!Empty
  BY <1>2, <1>3, <1>4 DEF Tree!Empty
<1>. QED BY <1>5 DEF d2, at

LEMMA MakeAdvance ==
    ASSUME NEW H, NEW at, Tidy(fat, disk, root, H, at), Make
    PROVE  Advance(H, at)
<1>. DEFINE H2 == {RootOffset}
            at2 == [x \in H2 |-> <<>>]
<1>1. disk \in [Offsets -> Entry]
  BY DEF Tidy
<1>2. /\ ret' = "OK" /\ fat' = InitFAT /\ disk' = WriteEntry(disk, RootOffset, NewRoot)
      /\ root' = NewRoot
  BY DEF Make
<1>3. Tidy(fat', disk', root', H2, at2)
  BY <1>1, <1>2, JustMade
<1>4. TreeOf(disk', H2, at2) = Tree!Empty
  BY <1>1, <1>2, EmptyTree
<1>. HIDE DEF H2, at2
<1>5. Tree!Succeeds(call', TreeOf(disk, H, at), TreeOf(disk', H2, at2))
  <2>1. call' = <<"make">>
    BY DEF Make, Called
  <2>. QED BY <1>4, <2>1 DEF Tree!Succeeds, Tree!Make
<1>. QED BY <1>2, <1>3, <1>5 DEF Advance

-----------------------------------------------------------------------------
(* rename.                                                                  *)

\* What moving does to a node callers see.
Relabel(src, dest, n) ==
    IF Tree!IsPrefix(src, n.path)
    THEN [n EXCEPT !.path = dest \o SubSeq(@, Len(src) + 1, Len(@))]
    ELSE n

LEMMA RelabelShape ==
    ASSUME NEW src \in Seq(Names), NEW dest \in Seq(Names), NEW s \in Seq(Names), NEW entry
    PROVE  Relabel(src, dest, Shape(entry, s)) = Shape(entry, Shifted(src, dest, s))
<1>1. Shape(entry, s).path = s
  BY DEF Shape
<1>2. Tree!IsPrefix(src, s) <=> Above(src, s)
  BY PrefixAbove
<1>. DEFINE w == dest \o SubSeq(s, Len(src) + 1, Len(s))
<1>3. [Shape(entry, s) EXCEPT !.path = w] = Shape(entry, w)
  <2>1. \A p, r, type, length : [[path |-> p, type |-> type, length |-> length] EXCEPT !.path = r]
                                    = [path |-> r, type |-> type, length |-> length]
    OBVIOUS
  <2>. HIDE DEF w
  <2>. QED BY <2>1 DEF Shape
<1>4. CASE Above(src, s)
  <2>1. Relabel(src, dest, Shape(entry, s))
            = [Shape(entry, s) EXCEPT !.path = w]
    BY <1>1, <1>2, <1>4 DEF Relabel
  <2>. QED BY <1>3, <1>4, <2>1 DEF Shifted
<1>5. CASE ~Above(src, s)
  BY <1>1, <1>2, <1>5 DEF Relabel, Shifted
<1>. QED BY <1>4, <1>5

\* The tree after a move, the paths of the moved among them.
LEMMA TreeMoves ==
    ASSUME NEW t, NEW d, NEW cached, NEW H, NEW at, Tidy(t, d, cached, H, at),
           NEW from \in H, NEW to, to \notin H, NEW dest \in Seq(Names), NEW d2,
           d2[to].type = d[from].type, d2[to].length = d[from].length,
           \A x \in H : x # from => d2[x] = d[x]
    PROVE  TreeOf(d2, (H \ {from}) \union {to}, Renamed(H, at, from, to, dest))
               = {Relabel(at[from], dest, n) : n \in TreeOf(d, H, at)}
<1>. DEFINE H2 == (H \ {from}) \union {to}
            at2 == Renamed(H, at, from, to, dest)
            old(x) == IF x = to THEN from ELSE x
            moved(x) == Relabel(at[from], dest, Shape(d[x], at[x]))
<1>1. \A x \in H : at[x] \in Seq(Names)
  BY NodeType
<1>2. ASSUME NEW x \in H2 PROVE old(x) \in H /\ Shape(d2[x], at2[x]) = moved(old(x))
  <2>1. old(x) \in H
    OBVIOUS
  <2>2. at2[x] = Shifted(at[from], dest, at[old(x)])
    BY DEF Renamed
  <2>3. d2[x].type = d[old(x)].type /\ d2[x].length = d[old(x)].length
    OBVIOUS
  <2>. HIDE DEF at2, old
  <2>4. Shape(d2[x], at2[x]) = Shape(d[old(x)], at2[x])
    BY <2>3 DEF Shape
  <2>5. moved(old(x)) = Shape(d[old(x)], Shifted(at[from], dest, at[old(x)]))
    BY <1>1, <2>1, RelabelShape
  <2>. QED BY <2>1, <2>2, <2>4, <2>5
<1>3. ASSUME NEW x \in H PROVE \E y \in H2 : old(y) = x
  <2>1. CASE x = from
    BY <2>1
  <2>2. CASE x # from
    BY <2>2
  <2>. QED BY <2>1, <2>2
<1>4. {Relabel(at[from], dest, n) : n \in TreeOf(d, H, at)} = {moved(x) : x \in H}
  <2>. DEFINE relabel(n) == Relabel(at[from], dest, n)
              shape(x) == Shape(d[x], at[x])
  <2>. HIDE DEF relabel, shape
  <2>1. {relabel(n) : n \in {shape(x) : x \in H}} = {relabel(shape(x)) : x \in H}
    OBVIOUS
  <2>. QED BY <2>1 DEF TreeOf, relabel, shape
<1>5. TreeOf(d2, H2, at2) = {Shape(d2[x], at2[x]) : x \in H2}
  BY DEF TreeOf
<1>. HIDE DEF H2, at2, old, moved
<1>6. TreeOf(d2, H2, at2) = {moved(x) : x \in H}
  BY <1>2, <1>3, <1>5
<1>. QED BY <1>4, <1>6 DEF H2, at2

\* A partition in order again, where what was at src is found at dest.
Moves(tree, src, dest, t2, d2, cached2) ==
    /\ \E H2, at2 : /\ Tidy(t2, d2, cached2, H2, at2)
                    /\ TreeOf(d2, H2, at2) = {Relabel(src, dest, n) : n \in tree}
    /\ ~Tree!IsPrefix(src, dest)

LEMMA RelocatedMoves ==
    ASSUME NEW t, NEW d, NEW cached, NEW H, NEW at, Tidy(t, d, cached, H, at),
           NEW from \in H, from # RootOffset, NEW dest \in Seq(Names), dest # <<>>,
           NEW q \in H, d[q].type = "dir", at[q] = ParentPath(dest),
           NEW i \in First(q) .. d[q].length - 1, NEW to, to = Slot(d[q], i), to \notin H,
           \A x \in H : at[x] # dest,
           d[from].type = "file" \/ ParentPath(at[from]) = ParentPath(dest)
    PROVE  Moves(TreeOf(d, H, at), at[from], dest, t,
                 Moved(d, d[from], from, to, LastName(dest)), cached)
<1>. DEFINE src == at[from]
            name == LastName(dest)
            d2 == Moved(d, d[from], from, to, name)
            H2 == (H \ {from}) \union {to}
            at2 == Renamed(H, at, from, to, dest)
<1>1. dest = Append(at[q], name) /\ name \in Names /\ at[q] \in Seq(Names) /\ src \in Seq(Names)
  BY PathIsAppend, NodeType
<1>2. src # <<>>
  BY RootType DEF Tidy, Hangs
<1>3. ASSUME ParentPath(src) = ParentPath(dest)
      PROVE  Listed(d, at, q, from) /\ src = Append(at[q], d[from].name) /\ d[from].name \in Names
  <2>1. src = Append(at[q], LastName(src)) /\ LastName(src) \in Names
    BY <1>1, <1>2, <1>3, PathIsAppend
  <2>2. PICK y \in H : at[y] = at[q] /\ Listed(d, at, y, from)
    BY <1>1, <2>1, ChildOf
  <2>3. y = q
    BY <2>2 DEF Tidy, Hangs
  <2>. QED BY <2>2, <2>3 DEF Listed
<1>4. ~Above(src, at[q])
  <2>1. CASE d[from].type = "file"
    <3>1. q # from
      BY <2>1
    <3>. QED BY <2>1, <3>1, NothingBelow
  <2>2. CASE ParentPath(src) = ParentPath(dest)
    <3>1. src = Append(at[q], d[from].name) /\ d[from].name \in Names
      BY <1>3, <2>2
    <3>2. \A s \in Seq(Names), n \in Names : ~Above(Append(s, n), s)
      BY AppendAbove
    <3>. QED BY <1>1, <3>1, <3>2
  <2>. QED BY <2>1, <2>2
<1>5. ~Tree!IsPrefix(src, dest)
  <2>1. ~Above(src, dest)
    <3>1. \A p, s \in Seq(Names), n \in Names :
              Above(p, Append(s, n)) <=> Above(p, s) \/ p = Append(s, n)
      BY AppendAbove
    <3>2. src # dest
      OBVIOUS
    <3>. HIDE DEF src, name
    <3>3. Above(src, Append(at[q], name)) <=> Above(src, at[q]) \/ src = Append(at[q], name)
      BY <1>1, <3>1
    <3>. QED BY <1>1, <1>4, <3>2, <3>3
  <2>. QED BY <1>1, <2>1, PrefixAbove
<1>6. d[from].type = "file" \/ Listed(d, at, q, from)
  BY <1>3
<1>7. Tidy(t, d2, cached, H2, at2)
  <2>1. \A x \in H : at[x] # Append(at[q], name)
    BY <1>1
  <2>2. Tidy(t, d2, cached, H2, Renamed(H, at, from, to, Append(at[q], name)))
    BY <1>1, <1>6, <2>1, Relocated
  <2>. QED BY <1>1, <2>2
<1>8. /\ d2[to].type = d[from].type /\ d2[to].length = d[from].length
      /\ \A x \in H : x # from => d2[x] = d[x]
  <2>1. d \in [Offsets -> Entry] /\ from \in Offsets /\ d[from] \in Entry /\ H \subseteq Offsets
    BY NodeType DEF Tidy
  <2>2. to \in Offsets /\ to # from
    BY DirectoryType
  <2>. DEFINE there == [d[from] EXCEPT !.name = name]
              d1 == [d EXCEPT ![to] = there]
  <2>3. there.type = d[from].type /\ there.length = d[from].length
    BY <2>1 DEF Entry
  <2>4. d2 = [d1 EXCEPT ![from] = Nothing]
    BY DEF Moved
  <2>. HIDE DEF there, d2
  <2>5. d1 = [x \in Offsets |-> IF x = to THEN there ELSE d[x]]
    BY <2>1, <2>2
  <2>. HIDE DEF d1
  <2>6. d2[to] = there /\ \A x \in Offsets : x # from /\ x # to => d2[x] = d[x]
    BY <2>2, <2>4, <2>5
  <2>. QED BY <2>1, <2>3, <2>6
<1>. HIDE DEF d2, H2, at2
<1>9. TreeOf(d2, H2, at2) = {Relabel(src, dest, n) : n \in TreeOf(d, H, at)}
  BY <1>8, TreeMoves DEF H2, at2
<1>. QED BY <1>5, <1>7, <1>9 DEF Moves, d2

\* So much for the calls: the tree after a rename is one it may leave.
LEMMA MovesAdvance ==
    ASSUME NEW H, NEW at, NEW from \in H, NEW dest,
           at[from] # <<>>,
           dest \in Tree!Vacant(TreeOf(disk, H, at)) \union Tree!Files(TreeOf(disk, H, at)),
           NEW tree, tree = Tree!Delete(TreeOf(disk, H, at), dest),
           Moves(tree, at[from], dest, fat', disk', root'), ret' = "OK",
           call' = <<"rename", at[from], dest>>
    PROVE  Advance(H, at)
<1>1. PICK H2, at2 : /\ Tidy(fat', disk', root', H2, at2)
                     /\ TreeOf(disk', H2, at2) = {Relabel(at[from], dest, n) : n \in tree}
  BY DEF Moves
<1>2. ~Tree!IsPrefix(at[from], dest)
  BY DEF Moves
<1>3. {Relabel(at[from], dest, n) : n \in tree} = Tree!Move(TreeOf(disk, H, at), at[from], dest)
  BY DEF Tree!Move, Relabel
<1>4. at[from] \in Tree!Existing(TreeOf(disk, H, at))
  BY TreeParts
<1>. DEFINE before == TreeOf(disk, H, at)
            after == TreeOf(disk', H2, at2)
<1>5. Tree!Succeeds(call', before, after)
  <2>1. after = Tree!Move(before, at[from], dest)
    BY <1>1, <1>3
  <2>. HIDE DEF before, after
  <2>2. /\ at[from] \in Tree!Existing(before) \ {<<>>}
        /\ dest \in Tree!Vacant(before) \union Tree!Files(before)
        /\ ~Tree!IsPrefix(at[from], dest)
    BY <1>2, <1>4 DEF before
  <2>3. Tree!Rename(call', before, after)
    BY <2>1, <2>2 DEF Tree!Rename
  <2>. QED BY <2>3 DEF Tree!Succeeds
<1>. QED BY <1>1, <1>5 DEF Advance

\* The destination is a file: its blocks are freed, and its slot is taken over.
LEMMA RenameOverAdvance ==
    ASSUME NEW H, NEW at, Tidy(fat, disk, root, H, at), NEW from \in H, NEW dest \in Paths,
           at[from] # <<>>, at[from] # dest,
           disk[from].type = "file" \/ ParentPath(at[from]) = ParentPath(dest),
           NEW to \in H, at[to] = dest, RenameOver(dest, from, to),
           call' = <<"rename", at[from], dest>>
    PROVE  Advance(H, at)
<1>. DEFINE removed == [disk[to] EXCEPT !.start = FREE]
            t2 == Forget(fat, disk[to].start)
            d1 == Filled(disk, to, removed)
            H1 == H \ {to}
            at1 == Without(H, at, to)
<1>1. EntryAt(from) = disk[from] /\ EntryAt(to) = disk[to]
  BY NodeEntry
<1>2. disk[to] \in Entry /\ disk[from] \in Entry /\ to \in Offsets /\ from # to
  BY NodeType
<1>3. CASE disk[to].type = "dir"
  BY <1>1, <1>3 DEF RenameOver, Fail, Advance
<1>4. CASE disk[to].type # "dir"
  <2>1. to # RootOffset /\ disk[to].type = "file"
    BY <1>2, <1>4, RootType DEF Entry
  <2>2. /\ ret' = "OK" /\ fat' = t2 /\ root' = root
        /\ disk' = Moved(d1, disk[from], from, to, LastName(dest))
    BY <1>1, <1>4, <2>1 DEF RenameOver, Become, Leave, WriteEntry, Filled
  <2>3. dest \in Seq(Names) /\ dest # <<>>
    BY <2>1, RootType, NamespaceAssumption DEF Tidy, Hangs
  <2>4. PICK q \in H : at[q] = ParentPath(dest) /\ disk[q].type = "dir" /\ Listed(disk, at, q, to)
    BY <2>3, PathIsAppend, ChildOf
  <2>5. PICK i \in First(q) .. disk[q].length - 1 : to = Slot(disk[q], i)
    BY <2>4 DEF Listed
  <2>6. removed \in Entry /\ removed.start = FREE
    BY <1>2, EntryType DEF Entry
  <2>. HIDE DEF removed
  <2>7. Tidy(t2, d1, root, H1, at1)
    <3>1. \A c \in H : ~Listed(disk, at, to, c)
      BY <1>4 DEF Listed
    <3>. QED BY <2>1, <2>6, <3>1, Removed
  <2>8. \A x \in H : x # to => d1[x] = disk[x] /\ at1[x] = at[x] /\ x \in H1
    BY NodeType DEF Filled, Tidy, Without
  <2>9. q \in H1 /\ from \in H1 /\ to \notin H1
    BY <1>2, <1>4, <2>4
  <2>10. TreeOf(d1, H1, at1) = Tree!Delete(TreeOf(disk, H, at), dest)
    <3>. HIDE DEF d1
    <3>. QED BY <2>8, TreeShrinks
  <2>11. dest \in Tree!Files(TreeOf(disk, H, at))
    BY <2>1, TreeParts
  <2>. HIDE DEF t2, d1, H1, at1
  <2>12. from # RootOffset
    BY RootType
  <2>13. /\ d1[q] = disk[q] /\ at1[q] = ParentPath(dest) /\ d1[from] = disk[from] /\ at1[from] = at[from]
    BY <1>2, <1>4, <2>4, <2>8
  <2>14. \A x \in H1 : at1[x] # dest
    BY DEF H1, at1, Without, Tidy, Hangs
  <2>15. Moves(TreeOf(d1, H1, at1), at1[from], dest, t2,
               Moved(d1, d1[from], from, to, LastName(dest)), root)
    <3>1. to = Slot(d1[q], i) /\ d1[q].type = "dir" /\ i \in First(q) .. d1[q].length - 1
      BY <2>4, <2>5, <2>13
    <3>2. d1[from].type = "file" \/ ParentPath(at1[from]) = ParentPath(dest)
      BY <2>13
    <3>. QED BY <2>3, <2>7, <2>9, <2>12, <2>13, <2>14, <3>1, <3>2, RelocatedMoves
  <2>16. Moves(TreeOf(d1, H1, at1), at[from], dest, fat', disk', root')
    BY <2>2, <2>13, <2>15
  <2>. QED BY <2>2, <2>10, <2>11, <2>16, MovesAdvance
<1>. QED BY <1>3, <1>4

\* Without a parent there is nothing to look for a slot in.
LEMMA NoParent ==
    ASSUME NEW path, FindParent(path) = "ENOENT", NEW length, NEW type,
           NEW made \in NewFile(path, length, type, TRUE)
    PROVE  made = Failure("ENOTDIR", fat)
<1>. DEFINE allocate(free) ==
                IF FindParent(path) = "ENOENT" THEN {Failure("ENOTDIR", Allocated(free, TRUE))}
                ELSE UNION {Insert(Allocated(free, TRUE), free,
                                   NewEntry(path, length, type, TRUE, free), o, TRUE)
                               : o \in Resolve(ParentPath(path))}
<1>1. NewFile(path, length, type, TRUE) =
          IF FindParent(path) \notin {"OK", "ENOENT"} THEN {Failure(FindParent(path), fat)}
          ELSE IF FindParent(path) = "OK" /\ LastName(path) \in TooLong
          THEN {Failure("ENAMETOOLONG", fat)}
          ELSE IF FreeBlocks(fat) # {} THEN UNION {allocate(b) : b \in FindFreeBlock(fat)}
          ELSE IF TRUE THEN allocate(UNUSABLE)
          ELSE {Failure("ENOSPC", fat)}
  BY Zenon DEF NewFile, Allocated, NewEntry
<1>2. \A free : allocate(free) = {Failure("ENOTDIR", fat)}
  BY DEF Allocated
<1>. HIDE DEF allocate
<1>3. made \in NewFile(path, length, type, TRUE)
  OBVIOUS
<1>4. (\E free \in FindFreeBlock(fat) : made \in allocate(free)) \/ made \in allocate(UNUSABLE)
  <2>1. FindParent(path) \in {"OK", "ENOENT"} /\ FindParent(path) # "OK"
    OBVIOUS
  <2>2. \/ made \in UNION {allocate(b) : b \in FindFreeBlock(fat)}
        \/ made \in allocate(UNUSABLE)
    BY <1>1, <1>3, <2>1, Zenon
  <2>. QED BY <2>2
<1>. QED BY <1>2, <1>4

\* The destination does not exist: newFile makes an empty slot, which is filled.
LEMMA RenameToAdvance ==
    ASSUME NEW H, NEW at, Tidy(fat, disk, root, H, at), NEW from \in H, NEW dest \in Paths,
           at[from] # <<>>, Find(dest) = "ENOENT",
           FindParent(dest) = "ENOENT" \/ HasRoom(dest),
           disk[from].type = "file" \/ ParentPath(at[from]) = ParentPath(dest),
           RenameTo(dest, from), call' = <<"rename", at[from], dest>>
    PROVE  Advance(H, at)
<1>1. EntryAt(from) = disk[from]
  BY NodeEntry
<1>2. dest \in Seq(Names) /\ \A x \in H : at[x] # dest
  <2>1. dest \in Seq(Names)
    BY NamespaceAssumption
  <2>. QED BY <2>1, Resolved
<1>3. PICK made \in NewFile(dest, 0, EntryAt(from).type, TRUE) :
        IF made.ret # "OK" THEN Become(made)
        ELSE Become([made EXCEPT !.disk = Moved(@, EntryAt(from), from, made.offset,
                                                LastName(dest))])
  BY Zenon DEF RenameTo
<1>4. made \in NewFile(dest, 0, disk[from].type, TRUE)
  BY <1>1
<1>5. CASE made \in Refused \union {Failure("ENOTDIR", fat)}
  <2>1. PICK code \in {"ENOTDIR", "ENOSPC", "ENAMETOOLONG"} : made = Failure(code, fat)
    BY <1>5 DEF Refused
  <2>2. made.ret = code /\ code # "OK"
    BY <2>1 DEF Failure
  <2>3. Leave(Failure(code, fat))
    BY <1>3, <2>1, <2>2 DEF Become
  <2>. QED BY <2>2, <2>3, FailedAdvance
<1>6. CASE made \notin Refused \union {Failure("ENOTDIR", fat)}
  <2>1. HasRoom(dest)
    BY <1>4, <1>6, NoParent
  <2>2. dest # <<>>
    BY <2>1 DEF HasRoom
  <2>3. PICK q \in H, i \in Nat, grown \in {0, 1}, free \in DataBlocks \union {UNUSABLE} :
            Placed(H, at, dest, 0, disk[from].type, TRUE, made, q, i, grown, free)
    <3>1. TRUE \in BOOLEAN /\ made \notin Refused
      BY <1>6
    <3>2. Enters(H, at, dest, 0, disk[from].type, TRUE, made)
      BY <1>2, <1>4, <2>1, <3>1, NewFilePlaces
    <3>. QED BY <3>1, <3>2 DEF Enters
  <2>. DEFINE new == NewEntry(dest, 0, disk[from].type, TRUE, free)
              o == Slot(disk[q], i)
              d1 == RoomDisk(disk, q, i, new, grown)
              cached1 == RoomCache(disk, root, q, grown)
  <2>4. /\ at[q] = ParentPath(dest) /\ Room(disk, H, q, i, grown)
        /\ made = Success(fat, new, disk[q], q, o, grown)
    BY <2>3 DEF Placed, Allocated
  <2>5. new \in Entry /\ new.start = FREE /\ new.start # RootBlock
    <3>1. disk[from].type \in {"file", "dir"}
      BY NodeType DEF Entry
    <3>. QED BY <3>1, BlockAssumption DEF NewEntry, Entry, RootBlock, FREE
  <2>. HIDE DEF new
  <2>6. /\ made.ret = "OK" /\ made.fat = fat /\ made.disk = d1 /\ made.root = cached1
        /\ made.offset = o
    BY <2>4, <2>5, SuccessIs
  <2>7. /\ Tidy(fat, d1, cached1, H, at) /\ o \notin H
        /\ d1[q].type = "dir" /\ d1[q].start = disk[q].start
        /\ i \in First(q) .. d1[q].length - 1
        /\ \A x \in H : x # q => d1[x] = disk[x]
    BY <2>4, <2>5, RoomMade
  <2>8. q \in H /\ disk[q].type = "dir" /\ from # q /\ from # RootOffset
    <3>1. q \in H /\ disk[q].type = "dir" /\ from # RootOffset
      BY <2>4, RootType DEF Room
    <3>2. from # q
      <4>1. SUFFICES ASSUME from = q PROVE FALSE
        OBVIOUS
      <4>2. ParentPath(at[from]) = at[from]
        BY <2>4, <3>1, <4>1
      <4>3. at[from] = Append(ParentPath(at[from]), LastName(at[from]))
            /\ at[from] \in Seq(Names) /\ LastName(at[from]) \in Names
        BY NodeType, PathIsAppend
      <4>4. \A s \in Seq(Names), n \in Names : Len(Append(s, n)) = Len(s) + 1 /\ Len(s) \in Nat
        OBVIOUS
      <4>. QED BY <4>2, <4>3, <4>4
    <3>. QED BY <3>1, <3>2
  <2>9. d1[from] = disk[from] /\ o = Slot(d1[q], i)
    BY <2>7, <2>8 DEF Slot
  <2>. HIDE DEF d1, cached1, o
  <2>10. /\ ret' = "OK" /\ fat' = fat /\ root' = cached1
         /\ disk' = Moved(d1, d1[from], from, o, LastName(dest))
    <3>1. Become([made EXCEPT !.disk = Moved(@, disk[from], from, made.offset, LastName(dest))])
      BY <1>1, <1>3, <2>6
    <3>2. /\ ret' = made.ret /\ fat' = made.fat /\ root' = made.root
          /\ disk' = Moved(made.disk, disk[from], from, made.offset, LastName(dest))
      <4>1. made = [ret |-> made.ret, fat |-> made.fat, disk |-> made.disk, root |-> made.root,
                    new |-> made.new, offset |-> made.offset, parent |-> made.parent]
        BY <2>4 DEF Success
      <4>. QED BY <3>1, <4>1 DEF Become, Leave
    <3>. QED BY <2>6, <2>9, <3>2
  <2>11. Moves(TreeOf(d1, H, at), at[from], dest, fat,
               Moved(d1, d1[from], from, o, LastName(dest)), cached1)
    <3>1. d1[from].type = "file" \/ ParentPath(at[from]) = ParentPath(dest)
      BY <2>9
    <3>. QED BY <1>2, <2>2, <2>4, <2>7, <2>8, <2>9, <3>1, RelocatedMoves
  <2>12. TreeOf(d1, H, at) = TreeOf(disk, H, at)
    <3>1. \A x \in H : Shape(d1[x], at[x]) = Shape(disk[x], at[x])
      BY <2>7, <2>8 DEF Shape
    <3>. QED BY <3>1 DEF TreeOf
  <2>13. TreeOf(disk, H, at) = Tree!Delete(TreeOf(disk, H, at), dest)
    <3>1. \A n \in TreeOf(disk, H, at) : n.path # dest
      BY <1>2 DEF TreeOf, Shape
    <3>. QED BY <3>1 DEF Tree!Delete
  <2>14. dest \in Tree!Vacant(TreeOf(disk, H, at))
    BY <1>2, <2>4, <2>8, VacantPath
  <2>15. Moves(TreeOf(disk, H, at), at[from], dest, fat', disk', root')
    BY <2>10, <2>11, <2>12
  <2>. QED BY <2>10, <2>13, <2>14, <2>15, MovesAdvance
<1>. QED BY <1>5, <1>6

LEMMA RenameAdvance ==
    ASSUME NEW H, NEW at, Tidy(fat, disk, root, H, at), NEW src \in Paths, NEW dest \in Paths,
           Movable(src, dest), Rename(src, dest)
    PROVE  Advance(H, at)
<1>0. call' = <<"rename", src, dest>>
  BY DEF Rename, Called
<1>1. CASE NotFound(src)
  BY <1>1, NotFoundAdvance, NamespaceAssumption
<1>2. CASE \E from \in Resolve(src) :
             \/ Find(dest) \notin {"OK", "ENOENT"} /\ Fail(Find(dest))
             \/ Find(dest) = "ENOENT" /\ RenameTo(dest, from)
             \/ \E to \in Resolve(dest) : RenameOver(dest, from, to)
  <2>1. PICK from \in Resolve(src) :
             \/ Find(dest) \notin {"OK", "ENOENT"} /\ Fail(Find(dest))
             \/ Find(dest) = "ENOENT" /\ RenameTo(dest, from)
             \/ \E to \in Resolve(dest) : RenameOver(dest, from, to)
    BY <1>2
  <2>2. src \in Seq(Names) /\ dest \in Seq(Names)
    BY NamespaceAssumption
  <2>3. Resolve(src) = {o \in H : at[o] = src} /\ Resolve(dest) = {o \in H : at[o] = dest}
    BY <2>2, Resolved
  <2>4. from \in H /\ at[from] = src /\ EntryAt(from) = disk[from]
    BY <2>1, <2>3, NodeEntry
  <2>5. /\ src # dest /\ src # <<>>
        /\ disk[from].type = "file" \/ ParentPath(at[from]) = ParentPath(dest)
        /\ Find(dest) = "ENOENT" => FindParent(dest) = "ENOENT" \/ HasRoom(dest)
    <3>1. /\ src # dest /\ src # <<>>
          /\ \E x \in Resolve(src) : EntryAt(x).type = "file" \/ ParentPath(src) = ParentPath(dest)
          /\ Find(dest) = "ENOENT" => FindParent(dest) = "ENOENT" \/ HasRoom(dest)
      BY DEF Movable
    <3>2. \A x \in Resolve(src) : x = from
      BY <2>3, <2>4 DEF Tidy, Hangs
    <3>. QED BY <2>4, <3>1, <3>2
  <2>9. call' = <<"rename", at[from], dest>>
    BY <1>0, <2>4
  <2>6. CASE Find(dest) \notin {"OK", "ENOENT"} /\ Fail(Find(dest))
    BY <2>6 DEF Fail, Advance
  <2>7. CASE Find(dest) = "ENOENT" /\ RenameTo(dest, from)
    BY <2>4, <2>5, <2>7, <2>9, RenameToAdvance
  <2>8. CASE \E to \in Resolve(dest) : RenameOver(dest, from, to)
    BY <2>3, <2>4, <2>5, <2>8, <2>9, RenameOverAdvance
  <2>. QED BY <2>1, <2>6, <2>7, <2>8
<1>3. \/ NotFound(src)
      \/ \E from \in Resolve(src) :
             \/ Find(dest) \notin {"OK", "ENOENT"} /\ Fail(Find(dest))
             \/ Find(dest) = "ENOENT" /\ RenameTo(dest, from)
             \/ \E to \in Resolve(dest) : RenameOver(dest, from, to)
  BY Zenon DEF Rename
<1>. QED BY <1>1, <1>2, <1>3

-----------------------------------------------------------------------------
(* The nodes that hang from the root are these.                             *)

Node(at, o) == [path |-> at[o], offset |-> o]

LEMMA ChildrenAre ==
    ASSUME NEW H, NEW at, Tidy(fat, disk, root, H, at), NEW q \in H
    PROVE  Children(EntryAt(q)) = {c \in H : c # RootOffset /\ Listed(disk, at, q, c)}
<1>. DEFINE dir == disk[q]
<1>1. EntryAt(q) = dir /\ dir \in Entry
  BY NodeEntry, NodeType
<1>2. CASE dir.type = "file"
  BY <1>1, <1>2 DEF Children, Listed
<1>3. CASE dir.type = "dir"
  <2>1. dir.length \in Nat /\ dir.length <= EntriesPerBlock /\ EntriesPerBlock \in Nat
        /\ First(q) \in {1, 2} /\ First(q) <= dir.length
    BY <1>3, DirectoryType, NamespaceAssumption
  <2>2. \A i \in 0 .. dir.length - 1 : i \in 0 .. EntriesPerBlock - 1
                                       /\ SlotOffset(fat, dir, i) = Slot(dir, i)
                                       /\ Slot(dir, i) \in Offsets
    <3>1. SUFFICES ASSUME NEW i \in 0 .. dir.length - 1
                   PROVE  i \in 0 .. EntriesPerBlock - 1 /\ SlotOffset(fat, dir, i) = Slot(dir, i)
                          /\ Slot(dir, i) \in Offsets
      OBVIOUS
    <3>2. i \in 0 .. EntriesPerBlock - 1
      BY <2>1
    <3>. QED BY <1>3, <3>2, SlotAt, DirectoryType
  <2>3. Children(EntryAt(q)) =
            {o \in {Slot(dir, i) : i \in 0 .. dir.length - 1} :
                disk[o].name \notin {Dot, DotDot} /\ ~IsFree(fat, disk[o])}
    <3>1. Slots(dir) = {Slot(dir, i) : i \in 0 .. dir.length - 1}
      BY <2>2 DEF Slots
    <3>2. Slots(dir) \subseteq Offsets
      BY <2>2, <3>1
    <3>3. dir.type # "file"
      BY <1>3
    <3>. QED BY <1>1, <3>1, <3>2, <3>3 DEF Children
  <2>4. ASSUME NEW i \in 0 .. dir.length - 1, disk[Slot(dir, i)].name \notin {Dot, DotDot},
               ~IsFree(fat, disk[Slot(dir, i)])
        PROVE  /\ Slot(dir, i) \in H /\ Slot(dir, i) # RootOffset
               /\ Listed(disk, at, q, Slot(dir, i))
    <3>1. CASE i < First(q)
      <4>1. /\ RootOffset \in H /\ disk[RootOffset].name = Dot
            /\ disk[RootOffset + 1].name = DotDot
            /\ Slot(disk[RootOffset], 0) = RootOffset /\ Slot(disk[RootOffset], 1) = RootOffset + 1
        <5>1. disk[RootOffset + 1] = [disk[RootOffset] EXCEPT !.name = DotDot]
              /\ disk[RootOffset] \in Entry
          BY RootType, NodeType DEF Tidy, Hangs, Rooted
        <5>2. disk[RootOffset + 1].name = DotDot
          BY <5>1 DEF Entry
        <5>. QED BY <5>2, RootType, RootSlot
      <4>2. CASE q = RootOffset
        <5>1. i = 0 \/ i = 1
          BY <2>1, <3>1
        <5>. QED BY <2>4, <4>1, <4>2, <5>1
      <4>3. CASE q # RootOffset
        <5>1. i = 0
          BY <2>1, <3>1, <4>3 DEF First
        <5>2. PICK y \in H : Listed(disk, at, y, q)
          BY <4>3 DEF Tidy, Hangs
        <5>3. disk[Slot(dir, 0)].name = DotDot
          BY <1>3, <5>2 DEF Listed
        <5>. QED BY <2>4, <5>1, <5>3
      <4>. QED BY <4>2, <4>3
    <3>2. CASE ~(i < First(q))
      <4>1. i \in First(q) .. dir.length - 1 /\ i \in 0 .. EntriesPerBlock - 1
            /\ i \in First(q) .. EntriesPerBlock - 1
        BY <2>1, <3>2
      <4>2. Slot(dir, i) \in H
        BY <1>3, <2>4, <4>1, EmptySlot
      <4>3. Slot(dir, i) # RootOffset
        BY <1>3, <4>1, DirectorySlots
      <4>. QED BY <1>3, <4>1, <4>2, <4>3, SlotOfNode
    <3>. QED BY <3>1, <3>2
  <2>5. ASSUME NEW c \in H, Listed(disk, at, q, c)
        PROVE  /\ \E i \in 0 .. dir.length - 1 : c = Slot(dir, i)
               /\ disk[c].name \notin {Dot, DotDot} /\ ~IsFree(fat, disk[c])
    <3>1. PICK i \in First(q) .. dir.length - 1 : c = Slot(dir, i)
      BY <2>5 DEF Listed
    <3>2. i \in 0 .. dir.length - 1
      BY <2>1
    <3>3. disk[c].name \notin {Dot, DotDot}
      BY <2>5, NamespaceAssumption DEF Listed
    <3>4. ~IsFree(fat, disk[c])
      BY NodeType, BlockAssumption DEF IsFree, DataBlocks, RootBlock, FREE
    <3>. QED BY <3>1, <3>2, <3>3, <3>4
  <2>. HIDE DEF dir
  <2>. QED BY <2>3, <2>4, <2>5
<1>. QED BY <1>1, <1>2, <1>3 DEF Entry

\* Every node takes a block, and so does every directory on the path to it.
LEMMA DepthBound ==
    ASSUME NEW t, NEW d, NEW cached, NEW H, NEW at, Tidy(t, d, cached, H, at), NEW o \in H
    PROVE  Len(at[o]) \in 0 .. BlockCount
<1>. DEFINE s == at[o]
            n == Len(s)
            node(k) == CHOOSE y \in H : at[y] = SubSeq(s, 1, k)
            f == [k \in 0 .. n |-> d[node(k)].start]
<1>1. s \in Seq(Names) /\ n \in Nat /\ BlockCount \in Nat
  BY NodeType, BlockAssumption
<1>2. \A k \in 0 .. n : SubSeq(s, 1, k) \in Seq(Names) /\ Len(SubSeq(s, 1, k)) = k
                        /\ \A j \in 1 .. k : SubSeq(s, 1, k)[j] = s[j]
  <2>. HIDE DEF s
  <2>. QED BY <1>1
<1>3. \A k \in 0 .. n : node(k) \in H /\ at[node(k)] = SubSeq(s, 1, k)
  <2>1. SUFFICES ASSUME NEW k \in 0 .. n PROVE \E y \in H : at[y] = SubSeq(s, 1, k)
    OBVIOUS
  <2>. DEFINE p == SubSeq(s, 1, k)
  <2>2. p \in Seq(Names) /\ Len(p) = k /\ \A j \in 1 .. k : p[j] = s[j]
    BY <1>2
  <2>. HIDE DEF p
  <2>3. Above(p, s)
    BY <1>1, <2>2 DEF Above
  <2>4. \E y \in H : at[y] = p
    BY <2>2, <2>3, Ancestors
  <2>. QED BY <2>4 DEF p
<1>. HIDE DEF node, n
<1>4. f \in [0 .. n -> DataBlocks]
  <2>1. \A k \in 0 .. n : d[node(k)].start \in DataBlocks
    BY <1>3, NodeType
  <2>. QED BY <2>1
<1>5. \A k, l \in 0 .. n : f[k] = f[l] => k = l
  <2>1. SUFFICES ASSUME NEW k \in 0 .. n, NEW l \in 0 .. n, f[k] = f[l] PROVE k = l
    OBVIOUS
  <2>2. d[node(k)].start = d[node(l)].start
    BY <2>1
  <2>3. node(k) = node(l)
    BY <1>3, <2>2, StartIsOne
  <2>4. SubSeq(s, 1, k) = SubSeq(s, 1, l)
    BY <1>3, <2>3
  <2>. QED BY <1>2, <2>4
<1>. HIDE DEF f
<1>6. IsFiniteSet(0 .. n) /\ Cardinality(0 .. n) = n + 1
  BY <1>1, FS_Interval
<1>7. IsFiniteSet(DataBlocks) /\ Cardinality(DataBlocks) <= BlockCount
  <2>1. RootBlock \in Nat /\ RootBlock < BlockCount /\ RootBlock >= 1
    BY BlockAssumption DEF RootBlock
  <2>. QED BY <1>1, <2>1, FS_Interval DEF DataBlocks
<1>8. Cardinality(DataBlocks) \in Nat
  BY <1>7, FS_CardinalityType
<1>9. ~(Cardinality(DataBlocks) < Cardinality(0 .. n))
  BY <1>4, <1>5, <1>6, <1>7, FS_PigeonHole
<1>10. n <= BlockCount
  BY <1>1, <1>6, <1>7, <1>8, <1>9
<1>. QED BY <1>1, <1>10 DEF n

LEMMA NodesAre ==
    ASSUME NEW H, NEW at, Tidy(fat, disk, root, H, at)
    PROVE  Nodes = {Node(at, o) : o \in H}
<1>. DEFINE below(node) ==
                {[path |-> Append(node.path, disk[o].name), offset |-> o]
                    : o \in Children(EntryAt(node.offset))}
            first == {[path |-> <<>>, offset |-> RootOffset]}
            next(nodes) == UNION {below(node) : node \in nodes}
            level[depth \in 0 .. BlockCount] == IF depth = 0 THEN first ELSE next(level[depth - 1])
            layer(k) == {Node(at, o) : o \in {x \in H : Len(at[x]) = k}}
            f == [k \in 0 .. BlockCount |-> layer(k)]
<1>1. BlockCount \in Nat
  BY BlockAssumption
<1>2. \A x \in H : at[x] \in Seq(Names) /\ Len(at[x]) \in Nat
  <2>1. \A x \in H : at[x] \in Seq(Names)
    BY NodeType
  <2>. QED BY <2>1
<1>3. layer(0) = first
  <2>1. \A x \in H : Len(at[x]) = 0 <=> x = RootOffset
    <3>1. at[RootOffset] = <<>> /\ RootOffset \in H
      BY RootType
    <3>2. \A x \in H : Len(at[x]) = 0 => at[x] = <<>>
      BY <1>2
    <3>. QED BY <3>1, <3>2 DEF Tidy, Hangs
  <2>2. RootOffset \in H /\ at[RootOffset] = <<>>
    BY RootType
  <2>. QED BY <2>1, <2>2 DEF Node
<1>4. ASSUME NEW q \in H
      PROVE  below(Node(at, q)) = {Node(at, c) : c \in {x \in H : x # RootOffset /\ Listed(disk, at, q, x)}}
  <2>1. Node(at, q).offset = q /\ Node(at, q).path = at[q]
    BY DEF Node
  <2>2. below(Node(at, q)) = {[path |-> Append(at[q], disk[o].name), offset |-> o]
                                 : o \in Children(EntryAt(q))}
    BY <2>1
  <2>3. Children(EntryAt(q)) = {x \in H : x # RootOffset /\ Listed(disk, at, q, x)}
    BY ChildrenAre
  <2>4. \A x \in H : Listed(disk, at, q, x) => Node(at, x) = [path |-> Append(at[q], disk[x].name), offset |-> x]
    BY DEF Listed, Node
  <2>. HIDE DEF below
  <2>. QED BY <2>2, <2>3, <2>4
<1>. HIDE DEF below
<1>5. ASSUME NEW k \in Nat PROVE next(layer(k)) = layer(k + 1)
  <2>1. ASSUME NEW q \in H, NEW c \in H, Listed(disk, at, q, c)
        PROVE  Len(at[c]) = Len(at[q]) + 1
    <3>1. at[c] = Append(at[q], disk[c].name) /\ disk[c].name \in Names
      BY <2>1 DEF Listed
    <3>. QED BY <1>2, <3>1, AppendAbove
  <2>2. next(layer(k)) =
            UNION {{Node(at, c) : c \in {x \in H : x # RootOffset /\ Listed(disk, at, q, x)}}
                      : q \in {x \in H : Len(at[x]) = k}}
    <3>1. next(layer(k)) = UNION {below(Node(at, q)) : q \in {x \in H : Len(at[x]) = k}}
      OBVIOUS
    <3>. HIDE DEF next, layer
    <3>. QED BY <1>4, <3>1
  <2>3. ASSUME NEW c \in H, Len(at[c]) = k + 1
        PROVE  c # RootOffset /\ \E q \in H : Len(at[q]) = k /\ Listed(disk, at, q, c)
    <3>1. c # RootOffset
      BY <2>3, RootType
    <3>2. PICK q \in H : Listed(disk, at, q, c)
      BY <3>1 DEF Tidy, Hangs
    <3>3. Len(at[q]) = k
      BY <1>2, <2>1, <2>3, <3>2
    <3>. QED BY <3>1, <3>2, <3>3
  <2>. HIDE DEF next
  <2>. QED BY <2>1, <2>2, <2>3
<1>. HIDE DEF first, next, layer
<1>6. f = [depth \in 0 .. BlockCount |-> IF depth = 0 THEN first ELSE next(f[depth - 1])]
  <2>1. ASSUME NEW k \in 0 .. BlockCount PROVE f[k] = IF k = 0 THEN first ELSE next(f[k - 1])
    <3>1. CASE k = 0
      BY <1>3, <3>1
    <3>2. CASE k # 0
      <4>1. k - 1 \in 0 .. BlockCount /\ k - 1 \in Nat /\ (k - 1) + 1 = k
        BY <1>1, <3>2
      <4>2. next(layer(k - 1)) = layer(k)
        BY <1>5, <4>1
      <4>. QED BY <3>2, <4>1, <4>2
    <3>. QED BY <3>1, <3>2
  <2>. QED BY <2>1
<1>7. level = [depth \in 0 .. BlockCount |-> IF depth = 0 THEN first ELSE next(level[depth - 1])]
  <2>. HIDE DEF f
  <2>. QED BY <1>6 DEF level
<1>8. \A k \in 0 .. BlockCount : level[k] = layer(k)
  <2>. DEFINE S == {k \in Nat : k \in 0 .. BlockCount => level[k] = layer(k)}
  <2>. HIDE DEF level
  <2>1. 0 \in S
    BY <1>1, <1>3, <1>7
  <2>2. ASSUME NEW k \in Nat, k \in S PROVE k + 1 \in S
    <3>1. SUFFICES ASSUME k + 1 \in 0 .. BlockCount PROVE level[k + 1] = layer(k + 1)
      OBVIOUS
    <3>2. level[k] = layer(k)
      BY <1>1, <2>2, <3>1
    <3>3. k + 1 # 0 /\ (k + 1) - 1 = k
      OBVIOUS
    <3>4. level[k + 1] = next(level[(k + 1) - 1])
      BY <1>7, <3>1, <3>3, Zenon
    <3>. QED BY <1>5, <3>2, <3>3, <3>4
  <2>3. Nat \subseteq S
    <3>. HIDE DEF S
    <3>. QED BY <2>1, <2>2, SetInduction
  <2>. QED BY <2>3
<1>9. Nodes = UNION {level[depth] : depth \in 0 .. BlockCount}
  BY Zenon DEF Nodes, level, first, next, below
<1>. HIDE DEF level
<1>10. \A o \in H : Len(at[o]) \in 0 .. BlockCount
  BY DepthBound
<1>. QED BY <1>8, <1>9, <1>10 DEF layer

LEMMA LiveAre ==
    ASSUME NEW H, NEW at, Tidy(fat, disk, root, H, at)
    PROVE  Live = H
<1>1. Nodes = {Node(at, o) : o \in H}
  BY NodesAre
<1>2. \A o \in H : Node(at, o).offset = o
  BY DEF Node
<1>. QED BY <1>1, <1>2 DEF Live

\* The tree callers see is the one on the disk.
LEMMA OnDiskIs ==
    ASSUME NEW H, NEW at, Tidy(fat, disk, root, H, at)
    PROVE  OnDisk = TreeOf(disk, H, at)
<1>. DEFINE shape(node) ==
                LET entry == EntryAt(node.offset)
                IN  [path |-> node.path, type |-> entry.type,
                     length |-> IF entry.type = "dir" THEN 0 ELSE entry.length]
<1>1. OnDisk = {shape(node) : node \in Nodes}
  BY DEF OnDisk
<1>2. Nodes = {Node(at, o) : o \in H}
  BY NodesAre
<1>3. \A o \in H : shape(Node(at, o)) = Shape(disk[o], at[o])
  BY NodeEntry DEF Node, Shape
<1>. HIDE DEF shape
<1>. QED BY <1>1, <1>2, <1>3 DEF TreeOf

\* The same before and after every step.
TreeIsOnDisk == \A H, at : Tidy(fat, disk, root, H, at) => OnDisk = TreeOf(disk, H, at)

LEMMA AlwaysOnDisk == TreeIsOnDisk
BY OnDiskIs DEF TreeIsOnDisk

\* A partition in order has what the properties ask for.
LEMMA TidyOwners ==
    ASSUME NEW H, NEW at, Tidy(fat, disk, root, H, at)
    PROVE  EveryBlockHasOneOwner
<1>. DEFINE live == Live
            chain == [o \in live |-> Chain(fat, EntryAt(o).start)]
            owners(b) == {o \in live : b \in chain[o]}
<1>1. live = H
  BY LiveAre
<1>2. \A o \in H : chain[o] = Chain(fat, disk[o].start)
  BY <1>1, NodeEntry
<1>. HIDE DEF chain, live
<1>3. ASSUME NEW b \in DataBlocks PROVE Cardinality(owners(b)) = IF fat[b] = FREE THEN 0 ELSE 1
  <2>1. CASE fat[b] = FREE
    <3>1. \A o \in H : b \notin Chain(fat, disk[o].start)
      BY <2>1, NodeBlocks
    <3>2. owners(b) = {}
      BY <1>1, <1>2, <3>1
    <3>. QED BY <2>1, <3>2, FS_EmptySet
  <2>2. CASE fat[b] # FREE
    <3>1. PICK o \in H : b \in Chain(fat, disk[o].start)
      BY <2>2 DEF Tidy, Owns
    <3>2. \A x \in H : b \in Chain(fat, disk[x].start) => x = o
      BY <3>1 DEF Tidy, Owns
    <3>3. owners(b) = {o}
      BY <1>1, <1>2, <3>1, <3>2
    <3>. QED BY <2>2, <3>3, FS_Singleton
  <2>. QED BY <2>1, <2>2
<1>. QED BY <1>3 DEF EveryBlockHasOneOwner, live, chain

LEMMA TidyDirectories ==
    ASSUME NEW H, NEW at, Tidy(fat, disk, root, H, at)
    PROVE  SoundDirectories
<1>1. Live = H /\ \A o \in H : EntryAt(o) = disk[o]
  BY LiveAre, NodeEntry
<1>2. \A q \in H : \A c \in Children(EntryAt(q)) : c \in H /\ c # RootOffset /\ Listed(disk, at, q, c)
  BY ChildrenAre
<1>3. LiveDirs \subseteq H
  BY <1>1 DEF LiveDirs
<1>4. UniqueNames
  <2>1. SUFFICES ASSUME NEW q \in H, NEW x \in Children(EntryAt(q)), NEW y \in Children(EntryAt(q)),
                        disk[x].name = disk[y].name
                 PROVE  x = y
    BY <1>3 DEF UniqueNames
  <2>2. x \in H /\ y \in H /\ at[x] = at[y]
    BY <1>2, <2>1 DEF Listed
  <2>. QED BY <2>2 DEF Tidy, Hangs
<1>5. LengthMatchesChain
  <2>1. SUFFICES ASSUME NEW o \in H
                 PROVE  ChainLength(fat, disk[o].start)
                            = IF disk[o].length = 0 THEN 1 ELSE BlocksFor(disk[o].length)
    BY <1>1 DEF LengthMatchesChain
  <2>2. PICK p : Follows(fat, disk[o].start, p, Needs(disk[o]))
    BY DEF Tidy, Owns, Exact
  <2>. QED BY <2>2, FollowedChain DEF Needs
<1>6. DotDotNamesParent
  <2>1. SUFFICES ASSUME NEW q \in H, NEW c \in Children(EntryAt(q)), disk[c].type = "dir"
                 PROVE  /\ disk[disk[c].start * EntriesPerBlock].name = DotDot
                        /\ disk[disk[c].start * EntriesPerBlock].start = EntryAt(q).start
    BY <1>3 DEF DotDotNamesParent
  <2>2. c \in H /\ Listed(disk, at, q, c) /\ EntryAt(q) = disk[q]
    BY <1>1, <1>2
  <2>3. Slot(disk[c], 0) = disk[c].start * EntriesPerBlock
    <3>1. disk[c].start \in Int /\ EntriesPerBlock \in Int
      BY <2>2, NodeType, BlockAssumption, NamespaceAssumption DEF DataBlocks, RootBlock
    <3>2. \A x, e \in Int : x * e + 0 = x * e
      BY Z3
    <3>. QED BY <3>1, <3>2 DEF Slot
  <2>. QED BY <2>1, <2>2, <2>3 DEF Listed
<1>. QED BY <1>4, <1>5, <1>6 DEF SoundDirectories

-----------------------------------------------------------------------------
(* The theorems.                                                            *)

\* Some set of offsets holds the nodes of a partition in order.
Ordinate == \E H, at : Tidy(fat, disk, root, H, at)

\* Every call of a disciplined caller advances the tree.
LEMMA DisciplinedAdvance ==
    ASSUME NEW H, NEW at, Tidy(fat, disk, root, H, at), DisciplinedNext
    PROVE  Advance(H, at)
<1>1. CASE \E path \in Paths : (HasRoom(path) \/ Find(path) = "OK") /\ Create(path)
  BY <1>1, CreateAdvance
<1>2. CASE \E path \in Paths : HasRoom(path) /\ Find(path) = "ENOENT" /\ Mkdir(path)
  BY <1>2, MkdirAdvance
<1>3. CASE \E path \in Paths : Unlink(path)
  BY <1>3, UnlinkAdvance
<1>4. CASE \E path \in Paths : Rmdir(path)
  BY <1>4, RmdirAdvance
<1>5. CASE \E path \in Paths, time \in Times : Utimens(path, time)
  BY <1>5, UtimensAdvance
<1>10. CASE \E path \in Paths : Read(path)
  BY <1>10, ReadAdvance
<1>11. CASE \E path \in Paths, size \in Sizes : Writable(path) /\ Write(path, size, Contents)
  BY <1>11, WriteAdvance
<1>6. CASE \E path \in Paths, size \in Sizes : Truncatable(path, size) /\ Truncate(path, size)
  BY <1>6, TruncateAdvance
<1>7. CASE \E src, dest \in Paths : Movable(src, dest) /\ Rename(src, dest)
  BY <1>7, RenameAdvance
<1>8. CASE Restart
  BY <1>8, RestartAdvance
<1>9. CASE Make
  BY <1>9, MakeAdvance
<1>. QED BY <1>1, <1>2, <1>3, <1>4, <1>5, <1>6, <1>7, <1>8, <1>9, <1>10, <1>11 DEF DisciplinedNext

LEMMA InitOrdinate == Init => Ordinate /\ OnDisk = Tree!Empty
<1>1. SUFFICES ASSUME Init PROVE Ordinate /\ OnDisk = Tree!Empty
  OBVIOUS
<1>. DEFINE d == [o \in Offsets |-> Nothing]
            H == {RootOffset}
            at == [x \in H |-> <<>>]
<1>2. d \in [Offsets -> Entry]
  BY EntryType
<1>3. fat = InitFAT /\ disk = WriteEntry(d, RootOffset, NewRoot) /\ root = NewRoot
  BY <1>1 DEF Init
<1>. HIDE DEF d
<1>4. Tidy(fat, disk, root, H, at)
  BY <1>2, <1>3, JustMade
<1>5. TreeOf(disk, H, at) = Tree!Empty
  BY <1>2, <1>3, EmptyTree
<1>. HIDE DEF H, at
<1>. QED BY <1>3, <1>4, <1>5, OnDiskIs DEF Ordinate

\* A step keeps the order, and is one of the abstract tree.
LEMMA NextOrdinate ==
    ASSUME Ordinate, [DisciplinedNext]_vars
    PROVE  Ordinate' /\ [Tree!Next]_<<OnDisk, call, ret>>
<1>1. PICK H, at : Tidy(fat, disk, root, H, at)
  BY DEF Ordinate
<1>2. Advance(H, at) \/ UNCHANGED vars
  BY <1>1, DisciplinedAdvance
<1>3. ASSUME UNCHANGED <<fat, disk, root>> PROVE Ordinate' /\ OnDisk' = OnDisk
  <2>1. Ordinate'
    BY <1>1, <1>3 DEF Ordinate
  <2>2. OnDisk' = OnDisk
    BY <1>3 DEF OnDisk, Nodes, Children, Slots, SlotOffset, EntryAt, IsFree
  <2>. QED BY <2>1, <2>2
<1>4. CASE UNCHANGED vars
  BY <1>3, <1>4 DEF vars
<1>5. CASE UNCHANGED <<fat, disk, root>> /\ ret' # "OK"
  <2>1. Tree!Next
    BY <1>3, <1>5 DEF Tree!Next
  <2>. QED BY <1>3, <1>5, <2>1
<1>6. ASSUME ret' = "OK", NEW H2, NEW at2, Tidy(fat', disk', root', H2, at2),
             Tree!Succeeds(call', TreeOf(disk, H, at), TreeOf(disk', H2, at2))
      PROVE  Ordinate' /\ [Tree!Next]_<<OnDisk, call, ret>>
  <2>1. Ordinate'
    BY <1>6 DEF Ordinate
  <2>2. OnDisk = TreeOf(disk, H, at)
    BY <1>1, OnDiskIs
  <2>3. OnDisk' = TreeOf(disk', H2, at2)
    <3>1. TreeIsOnDisk'
      BY AlwaysOnDisk, PTL
    <3>. QED BY <1>6, <3>1 DEF TreeIsOnDisk
  <2>4. Tree!Next
    BY <1>6, <2>2, <2>3 DEF Tree!Next
  <2>. QED BY <2>1, <2>4
<1>. QED BY <1>2, <1>4, <1>5, <1>6 DEF Advance

LEMMA AlwaysOrdinate == DisciplinedSpec => []Ordinate
<1>1. Init => Ordinate
  BY InitOrdinate
<1>2. Ordinate /\ [DisciplinedNext]_vars => Ordinate'
  BY NextOrdinate
<1>. QED BY <1>1, <1>2, PTL DEF DisciplinedSpec

\* With disciplined callers no block is leaked or shared, however calls fail: the blocks
\* that are not free are those of the files and directories that paths lead to.
THEOREM NothingLeaks == DisciplinedSpec => []EveryBlockHasOneOwner
<1>1. Ordinate => EveryBlockHasOneOwner
  BY TidyOwners DEF Ordinate
<1>. QED BY <1>1, AlwaysOrdinate, PTL

\* Nor does a directory list a name twice, lose its parent, or have another length than
\* its chain.
THEOREM DirectoriesStaySound == DisciplinedSpec => []SoundDirectories
<1>1. Ordinate => SoundDirectories
  BY TidyDirectories DEF Ordinate
<1>. QED BY <1>1, AlwaysOrdinate, PTL

\* The driver is the file tree: what is on the disk starts as an empty tree, and a call of
\* the driver does to the path it is made with what this call does there, or fails.
THEOREM DriverIsFileTree == DisciplinedSpec => ImplementsFileTree
<1>1. Init => Tree!Init
  BY InitOrdinate DEF Tree!Init, Init
<1>2. Ordinate /\ [DisciplinedNext]_vars => [Tree!Next]_<<OnDisk, call, ret>>
  BY NextOrdinate
<1>. QED BY <1>1, <1>2, AlwaysOrdinate, PTL DEF DisciplinedSpec, ImplementsFileTree, Tree!Spec
=============================================================================
