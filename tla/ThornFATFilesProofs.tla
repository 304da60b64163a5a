------------------------- MODULE ThornFATFilesProofs -------------------------
(***************************************************************************)
(* Theorems about ThornFATFiles, for every geometry, every set of files    *)
(* and every set of calls, with the power cut at any point of any call and *)
(* any number of times.                                                    *)
(*                                                                         *)
(* The invariant, IInv, says at each point of a call what it has done and  *)
(* which writes it still has to make.  A call on an existing file is about *)
(* a row of blocks, those of its chain and those it takes: all links from  *)
(* the row stay in it, so the other files are Apart.  A call that creates  *)
(* a file is about one block, and at no point is an entry there before its *)
(* block is marked.                                                        *)
(*                                                                         *)
(* KInv adds the bytes.  While a call is under way the other files hold    *)
(* what they are Told to; of the file it is about, the bytes it has no     *)
(* business with are Steady, those it is to leave are Coming, and the last *)
(* mark still to be written ends a chain that is long enough for them.     *)
(***************************************************************************)
EXTENDS ThornFATFiles, NatSetInduction, FiniteSetTheorems, FunctionTheorems, SequenceTheorems

-----------------------------------------------------------------------------
(* Chains that end.                                                        *)

\* The blocks a walk over a table comes by.
Walks(h, table, start, i) ==
    /\ h[0] = start
    /\ \A k \in 1 .. i : h[k] = IF h[k - 1] \in Blocks THEN table[h[k - 1]] ELSE h[k - 1]

\* A walk from a link follows links all the way.
LEMMA HopWalk ==
    ASSUME NEW table \in [Blocks -> Links], NEW start \in Links, NEW i \in Nat
    PROVE  \E h \in [0 .. i -> Links] : Walks(h, table, start, i) /\ Hop(table, start, i) = h[i]
<1>. DEFINE follow(block) == IF block \in Blocks THEN table[block] ELSE block
            hop[k \in 0 .. i] == IF k = 0 THEN start ELSE follow(hop[k - 1])
            step == [k \in Nat |-> [block \in Links |-> follow(block)]]
<1>1. \A block \in Links : follow(block) \in Links
  OBVIOUS
<1>2. step \in [Nat -> [Links -> Links]]
  BY <1>1
<1>3. PICK f \in [0 .. i -> Links] : Run(f, start, step, i)
  <2>. HIDE DEF step
  <2>. QED BY <1>2, Iteration
<1>4. f = [k \in 0 .. i |-> IF k = 0 THEN start ELSE follow(f[k - 1])]
  <2>1. ASSUME NEW k \in 0 .. i PROVE f[k] = IF k = 0 THEN start ELSE follow(f[k - 1])
    <3>1. CASE k = 0
      BY <1>3, <3>1 DEF Run
    <3>2. CASE k # 0
      <4>1. k \in 1 .. i /\ k - 1 \in 0 .. i /\ k \in Nat
        BY <3>2
      <4>2. f[k - 1] \in Links
        BY <4>1
      <4>3. f[k] = step[k][f[k - 1]]
        BY <1>3, <4>1 DEF Run
      <4>4. step[k][f[k - 1]] = follow(f[k - 1])
        BY <4>1, <4>2
      <4>. QED BY <3>2, <4>3, <4>4
    <3>. QED BY <3>1, <3>2
  <2>. HIDE DEF follow
  <2>. QED BY <2>1
<1>5. hop = [k \in 0 .. i |-> IF k = 0 THEN start ELSE follow(hop[k - 1])]
  <2>. HIDE DEF follow
  <2>. QED BY <1>4 DEF hop
<1>6. \A k \in 0 .. i : hop[k] \in Links
  <2>. DEFINE S == {k \in Nat : k \in 0 .. i => hop[k] \in Links}
  <2>. HIDE DEF hop, follow
  <2>1. 0 \in S
    BY <1>5
  <2>2. ASSUME NEW k \in Nat, k \in S PROVE k + 1 \in S
    <3>1. SUFFICES ASSUME k + 1 \in 0 .. i PROVE hop[k + 1] \in Links
      OBVIOUS
    <3>2. hop[k] \in Links
      BY <2>2, <3>1
    <3>3. hop[k + 1] = follow(hop[k])
      BY <1>5, <3>1
    <3>. QED BY <1>1, <3>2, <3>3
  <2>3. Nat \subseteq S
    <3>. HIDE DEF S
    <3>. QED BY <2>1, <2>2, SetInduction
  <2>. QED BY <2>3
<1>7. Hop(table, start, i) = IF i = 0 THEN start ELSE hop[i]
  BY Zenon DEF Hop, hop, follow
<1>8. 0 \in 0 .. i /\ i \in 0 .. i /\ \A k \in 1 .. i : k \in 0 .. i /\ k # 0
  OBVIOUS
<1>9. hop \in [0 .. i -> Links]
  <2>. HIDE DEF hop
  <2>1. hop = [k \in 0 .. i |-> hop[k]]
    BY <1>5
  <2>. QED BY <1>6, <2>1
<1>10. hop[0] = start /\ Hop(table, start, i) = hop[i]
  <2>. HIDE DEF hop, follow
  <2>. QED BY <1>5, <1>7, <1>8
<1>11. \A k \in 1 .. i : hop[k] = IF hop[k - 1] \in Blocks THEN table[hop[k - 1]] ELSE hop[k - 1]
  <2>1. ASSUME NEW k \in 1 .. i PROVE hop[k] = follow(hop[k - 1])
    <3>. HIDE DEF hop, follow
    <3>. QED BY <1>5, <1>8
  <2>. HIDE DEF hop
  <2>. QED BY <2>1
<1>. HIDE DEF hop
<1>. QED BY <1>9, <1>10, <1>11 DEF Walks

\* The first n blocks of a chain that ends: p runs through them, once each.
Follows(table, start, p, n) ==
    /\ n \in Nat \ {0}
    /\ p \in [1 .. n -> DataBlocks]
    /\ p[1] = start
    /\ \A i \in 1 .. n - 1 : table[p[i]] = p[i + 1]
    /\ table[p[n]] = FINAL
    /\ \A i, j \in 1 .. n : p[i] = p[j] => i = j

\* The chain consists of the blocks met on the way, and there are as many.
LEMMA FollowedChain ==
    ASSUME NEW table, NEW start, NEW p, NEW n, Follows(table, start, p, n)
    PROVE  /\ Chain(table, start) = {p[i] : i \in 1 .. n}
           /\ Cardinality(Chain(table, start)) = n
           /\ ChainLength(table, start) = n
<1>. DEFINE blocks == {p[i] : i \in 1 .. n}
<1>0. n \in Nat \ {0} /\ p \in [1 .. n -> DataBlocks] /\ 1 \in 1 .. n /\ n \in 1 .. n
  BY DEF Follows
<1>1. Chain(table, start) \subseteq blocks
  <2>1. start \in blocks /\ blocks \in SUBSET DataBlocks
    BY <1>0 DEF Follows
  <2>2. Closed(table, blocks)
    <3>1. SUFFICES ASSUME NEW i \in 1 .. n, table[p[i]] \in DataBlocks PROVE table[p[i]] \in blocks
      BY DEF Closed
    <3>2. i # n
      BY <3>1, BlockAssumption DEF Follows, DataBlocks, RootBlock, FINAL
    <3>3. i \in 1 .. n - 1 /\ i + 1 \in 1 .. n
      BY <1>0, <3>2
    <3>. QED BY <3>3 DEF Follows
  <2>. HIDE DEF blocks
  <2>. QED BY <2>1, <2>2 DEF Chain
<1>2. ASSUME NEW i \in 1 .. n PROVE p[i] \in Chain(table, start)
  <2>1. SUFFICES ASSUME NEW S \in SUBSET DataBlocks, start \in S, Closed(table, S) PROVE p[i] \in S
    BY <1>0 DEF Chain
  <2>. DEFINE T == {k \in Nat : k + 1 \in 1 .. n => p[k + 1] \in S}
  <2>2. 0 \in T
    BY <2>1 DEF Follows
  <2>3. ASSUME NEW k \in Nat, k \in T PROVE k + 1 \in T
    <3>1. SUFFICES ASSUME k + 2 \in 1 .. n PROVE p[k + 2] \in S
      OBVIOUS
    <3>2. k + 1 \in 1 .. n - 1 /\ k + 1 \in 1 .. n /\ (k + 1) + 1 = k + 2
      BY <1>0, <3>1
    <3>3. p[k + 1] \in S /\ table[p[k + 1]] = p[k + 2]
      BY <2>3, <3>2 DEF Follows
    <3>4. p[k + 2] \in DataBlocks
      BY <1>0, <3>1
    <3>. QED BY <2>1, <3>3, <3>4 DEF Closed
  <2>4. Nat \subseteq T
    <3>. HIDE DEF T
    <3>. QED BY <2>2, <2>3, SetInduction
  <2>5. i - 1 \in Nat /\ i - 1 \in T
    BY <2>4
  <2>. QED BY <2>5
<1>3. Chain(table, start) = blocks
  BY <1>1, <1>2
<1>4. Cardinality(blocks) = n
  <2>1. p \in Bijection(1 .. n, blocks)
    BY <1>0, Fun_IsBij DEF Follows
  <2>2. IsFiniteSet(1 .. n) /\ Cardinality(1 .. n) = n
    BY <1>0, FS_Interval
  <2>. QED BY <2>1, <2>2, FS_Bijection DEF ExistsBijection
<1>5. table[start] # FREE
  <2>1. CASE n = 1
    BY <2>1 DEF Follows, FREE, FINAL
  <2>2. CASE n # 1
    <3>1. 1 \in 1 .. n - 1 /\ 1 + 1 \in 1 .. n
      BY <1>0, <2>2
    <3>2. table[start] = p[1 + 1] /\ p[1 + 1] \in DataBlocks
      BY <1>0, <3>1 DEF Follows
    <3>. QED BY <3>2, BlockAssumption DEF DataBlocks, RootBlock, FREE
  <2>. QED BY <2>1, <2>2
<1>. QED BY <1>3, <1>4, <1>5 DEF ChainLength

\* The block a number of hops away: the chain's, and the mark at its end for ever after.
LEMMA FollowedHop ==
    ASSUME NEW table \in [Blocks -> Links], NEW start, NEW p, NEW n,
           Follows(table, start, p, n), NEW i \in Nat
    PROVE  Hop(table, start, i) = IF i < n THEN p[i + 1] ELSE FINAL
<1>0. n \in Nat \ {0} /\ p \in [1 .. n -> DataBlocks] /\ start \in Links /\ start = p[1]
  BY DEF Follows, Links
<1>1. PICK h \in [0 .. i -> Links] : Walks(h, table, start, i) /\ Hop(table, start, i) = h[i]
  BY <1>0, HopWalk
<1>. DEFINE S == {k \in Nat : k \in 0 .. i => h[k] = IF k < n THEN p[k + 1] ELSE FINAL}
<1>2. 0 \in S
  BY <1>0, <1>1 DEF Walks
<1>3. ASSUME NEW k \in Nat, k \in S PROVE k + 1 \in S
  <2>1. SUFFICES ASSUME k + 1 \in 0 .. i PROVE h[k + 1] = IF k + 1 < n THEN p[(k + 1) + 1] ELSE FINAL
    OBVIOUS
  <2>2. k + 1 \in 1 .. i /\ k \in 0 .. i /\ (k + 1) - 1 = k
    BY <2>1
  <2>3. h[k + 1] = IF h[k] \in Blocks THEN table[h[k]] ELSE h[k]
    BY <1>1, <2>2 DEF Walks
  <2>4. h[k] = IF k < n THEN p[k + 1] ELSE FINAL
    BY <1>3, <2>2
  <2>5. FINAL \notin Blocks /\ DataBlocks \subseteq Blocks
    BY BlockAssumption DEF FINAL, Blocks, DataBlocks, RootBlock
  <2>6. CASE k < n
    <3>1. k + 1 \in 1 .. n /\ p[k + 1] \in DataBlocks
      BY <1>0, <2>6
    <3>2. h[k + 1] = table[p[k + 1]]
      BY <2>3, <2>4, <2>5, <2>6, <3>1
    <3>3. CASE k + 1 < n
      <4>1. k + 1 \in 1 .. n - 1
        BY <1>0, <3>3
      <4>. QED BY <3>2, <3>3, <4>1 DEF Follows
    <3>4. CASE ~(k + 1 < n)
      <4>1. k + 1 = n
        BY <1>0, <2>6, <3>4
      <4>. QED BY <3>2, <3>4, <4>1 DEF Follows
    <3>. QED BY <3>3, <3>4
  <2>7. CASE ~(k < n)
    <3>1. ~(k + 1 < n)
      BY <1>0, <2>7
    <3>. QED BY <2>3, <2>4, <2>5, <2>7, <3>1
  <2>. QED BY <2>6, <2>7
<1>4. Nat \subseteq S
  <2>. HIDE DEF S
  <2>. QED BY <1>2, <1>3, SetInduction
<1>5. i \in S
  BY <1>4
<1>. QED BY <1>1, <1>5

\* A table that agrees on the blocks of a chain has the same chain.
LEMMA FollowsElsewhere ==
    ASSUME NEW table, NEW other, NEW start, NEW p, NEW n, Follows(table, start, p, n),
           \A b \in Chain(table, start) : other[b] = table[b]
    PROVE  Follows(other, start, p, n) /\ Chain(other, start) = Chain(table, start)
<1>0. Chain(table, start) = {p[i] : i \in 1 .. n}
  BY FollowedChain
<1>1. n \in Nat \ {0} /\ \A i \in 1 .. n : other[p[i]] = table[p[i]]
  BY <1>0 DEF Follows
<1>2. n \in 1 .. n /\ \A i \in 1 .. n - 1 : i \in 1 .. n
  BY <1>1
<1>3. Follows(other, start, p, n)
  BY <1>1, <1>2 DEF Follows
<1>. QED BY <1>3, FollowedChain

\* No block of a chain is free.
LEMMA FollowedTaken ==
    ASSUME NEW table, NEW start, NEW p, NEW n, Follows(table, start, p, n)
    PROVE  \A b \in Chain(table, start) : b \in DataBlocks /\ table[b] # FREE
                                          /\ (table[b] = FINAL \/ table[b] \in Chain(table, start))
<1>1. SUFFICES ASSUME NEW i \in 1 .. n
               PROVE  /\ p[i] \in DataBlocks /\ table[p[i]] # FREE
                      /\ table[p[i]] = FINAL \/ table[p[i]] \in Chain(table, start)
  BY FollowedChain
<1>2. n \in Nat /\ p[i] \in DataBlocks
  BY DEF Follows
<1>3. CASE i = n
  BY <1>2, <1>3 DEF Follows, FREE, FINAL
<1>4. CASE i # n
  <2>1. i \in 1 .. n - 1 /\ i + 1 \in 1 .. n
    BY <1>2, <1>4
  <2>2. table[p[i]] = p[i + 1] /\ p[i + 1] \in DataBlocks
    BY <2>1 DEF Follows
  <2>. QED BY <1>2, <2>1, <2>2, FollowedChain, BlockAssumption DEF DataBlocks, RootBlock, FREE
<1>. QED BY <1>3, <1>4

-----------------------------------------------------------------------------
(* A call under way on an existing file.  c lists the n blocks it is about, those *)
(* of its chain in their order and then those it takes; me is its entry, at s. *)

\* An entry of a file; one that was removed has no first block.
Entry == [name : Files \union {""}, start : DataBlocks \union {FREE}, length : Nat]

\* n blocks, no two the same.
Row(c, n) == n \in Nat \ {0} /\ c \in [1 .. n -> DataBlocks] /\ \A i, j \in 1 .. n : c[i] = c[j] => i = j

\* Its blocks.
Members(c, n) == {c[i] : i \in 1 .. n}

\* The blocks from the i-th to the j-th are linked one to the next.
Linked(table, c, i, j) == \A k \in i .. j - 1 : table[c[k]] = c[k + 1]

\* They are free.
Freed(table, c, i, j) == \A k \in i .. j : table[c[k]] = FREE

\* The first a blocks are the file's chain, the others free.
Whole(table, c, n, a) ==
    a \in 1 .. n /\ Linked(table, c, 1, a) /\ table[c[a]] = FINAL /\ Freed(table, c, a + 1, n)

\* Writes that leave the table alone and the entry its name and its first block.
Quiet(w, s, me) ==
    \/ w.to = "data"
    \/ /\ w.to = "slot" /\ w.slot = s
       /\ w.entry \in Entry /\ w.entry.start = me.start /\ w.entry.name = me.name

\* So are all from the i-th on.
QuietFrom(i, s, me, writes) == \A j \in i .. Len(writes) : Quiet(writes[j], s, me)

\* The chain is as it is to be.
Settled(table, c, n, s, me, writes) ==
    /\ me.start = c[1]
    /\ \E a \in 1 .. n : Whole(table, c, n, a)
    /\ QuietFrom(1, s, me, writes)

\* forget has freed k blocks.
Forgetting(table, c, n, s, me, writes) ==
    /\ me.start = c[1]
    /\ \E k \in 0 .. n :
          /\ Freed(table, c, 1, k) /\ Linked(table, c, k + 1, n)
          /\ k < n => table[c[n]] = FINAL
          /\ Len(writes) > n - k
          /\ \A i \in 1 .. n - k : writes[i] = Mark(c[k + i], FREE)
          /\ \/ /\ writes[n - k + 1] = Mark(c[1], FINAL)
                /\ QuietFrom(n - k + 2, s, me, writes)
             \/ /\ Len(writes) = n - k + 1
                /\ writes[n - k + 1] = Save(s, [me EXCEPT !.start = FREE])

\* The file is removed.
Gone(table, c, n, s, me, writes) == writes = <<>> /\ me.start = FREE /\ Freed(table, c, 1, n)

\* resize keeps m blocks and has freed k of the others; before that it zeroes bytes.
Shrinking(table, c, n, s, me, writes) ==
    /\ me.start = c[1]
    /\ \E m \in 1 .. n - 1, k \in 0 .. n, j \in 0 .. Len(writes) :
          /\ m + k <= n /\ (j > 0 => k = 0)
          /\ Linked(table, c, 1, m + 1) /\ Freed(table, c, m + 1, m + k)
          /\ Linked(table, c, m + k + 1, n)
          /\ m + k < n => table[c[n]] = FINAL
          /\ Len(writes) > j + (n - m - k)
          /\ \A i \in 1 .. j : writes[i].to = "data"
          /\ \A i \in 1 .. n - m - k : writes[j + i] = Mark(c[m + k + i], FREE)
          /\ writes[j + (n - m - k) + 1] = Mark(c[m], FINAL)
          /\ QuietFrom(j + (n - m - k) + 2, s, me, writes)

\* resize has linked a blocks, and with half = 1 the next one, which is still free.
Growing(table, c, n, s, me, writes) ==
    /\ me.start = c[1]
    /\ \E a \in 1 .. n, half \in {0, 1} :
          /\ a + half <= n
          /\ Linked(table, c, 1, a + half) /\ Freed(table, c, a + 1, n)
          /\ half = 0 => table[c[a]] = FINAL
          /\ Len(writes) >= 2 * (n - a) - half
          /\ \A y \in 1 .. n - a :
                /\ half = 0 \/ y > 1 => writes[2 * y - 1 - half] = Mark(c[a + y - 1], c[a + y])
                /\ writes[2 * y - half] = Mark(c[a + y], FINAL)
          /\ QuietFrom(2 * (n - a) - half + 1, s, me, writes)

\* Where a call on an existing file can be.
Stage(table, c, n, s, me, writes) ==
    \/ Settled(table, c, n, s, me, writes)
    \/ Forgetting(table, c, n, s, me, writes)
    \/ Gone(table, c, n, s, me, writes)
    \/ Shrinking(table, c, n, s, me, writes)
    \/ Growing(table, c, n, s, me, writes)

\* Links from the row lead into it, or end.
Inside(table, c, n) == \A i \in 1 .. n : table[c[i]] \in Members(c, n) \union {FREE, FINAL}

\* The chain runs into a free block.
Broken(table, c, n) == \E r \in 1 .. n : Linked(table, c, 1, r) /\ table[c[r]] = FREE

\* What the stages have in common: the file has a chain of the row, or one that runs into a
\* free block, or is gone.
Shape(table, c, n, me) ==
    /\ Inside(table, c, n)
    /\ \/ me.start = FREE /\ Freed(table, c, 1, n)
       \/ me.start = c[1] /\ ((\E a \in 1 .. n : Whole(table, c, n, a)) \/ Broken(table, c, n))

\* A chain of the row has its links in it.
LEMMA WholeInside ==
    ASSUME NEW table, NEW c, NEW n, Row(c, n), NEW a \in 1 .. n, Whole(table, c, n, a)
    PROVE  Inside(table, c, n)
<1>1. SUFFICES ASSUME NEW i \in 1 .. n PROVE table[c[i]] \in Members(c, n) \union {FREE, FINAL}
  BY DEF Inside
<1>2. n \in Nat
  BY DEF Row
<1>3. CASE i < a
  <2>1. i \in 1 .. a - 1 /\ i + 1 \in 1 .. n
    BY <1>2, <1>3
  <2>. QED BY <2>1 DEF Whole, Linked, Members
<1>4. CASE i = a
  BY <1>4 DEF Whole
<1>5. CASE i > a
  <2>1. i \in a + 1 .. n
    BY <1>2, <1>5
  <2>. QED BY <2>1 DEF Whole, Freed
<1>. QED BY <1>2, <1>3, <1>4, <1>5

\* Every stage has that shape.
LEMMA StageShape ==
    ASSUME NEW table, NEW c, NEW n, Row(c, n), NEW s, NEW me, NEW writes,
           Stage(table, c, n, s, me, writes)
    PROVE  Shape(table, c, n, me)
<1>0. n \in Nat \ {0}
  BY DEF Row
<1>1. ASSUME NEW a \in 1 .. n, me.start = c[1], Whole(table, c, n, a) PROVE Shape(table, c, n, me)
  BY <1>1, WholeInside DEF Shape
<1>2. CASE Settled(table, c, n, s, me, writes)
  BY <1>1, <1>2 DEF Settled
<1>3. CASE Forgetting(table, c, n, s, me, writes)
  <2>1. PICK k \in 0 .. n :
            Freed(table, c, 1, k) /\ Linked(table, c, k + 1, n) /\ (k < n => table[c[n]] = FINAL)
    BY <1>3 DEF Forgetting
  <2>2. me.start = c[1]
    BY <1>3 DEF Forgetting
  <2>3. CASE k = 0
    <3>1. Whole(table, c, n, n)
      BY <1>0, <2>1, <2>3 DEF Whole, Freed, Linked
    <3>. QED BY <1>0, <1>1, <2>2, <3>1
  <2>4. CASE k > 0
    <3>1. Broken(table, c, n)
      BY <1>0, <2>1, <2>4 DEF Broken, Linked, Freed
    <3>2. ASSUME NEW i \in 1 .. n PROVE table[c[i]] \in Members(c, n) \union {FREE, FINAL}
      <4>1. CASE i \in 1 .. k
        BY <2>1, <4>1 DEF Freed
      <4>2. CASE i \in k + 1 .. n - 1
        BY <1>0, <2>1, <4>2 DEF Linked, Members
      <4>3. CASE i = n /\ k < n
        BY <2>1, <4>3
      <4>. QED BY <1>0, <4>1, <4>2, <4>3
    <3>. QED BY <2>2, <3>1, <3>2 DEF Shape, Inside
  <2>. QED BY <2>3, <2>4
<1>4. CASE Gone(table, c, n, s, me, writes)
  BY <1>4 DEF Gone, Shape, Inside, Freed
<1>5. CASE Shrinking(table, c, n, s, me, writes)
  <2>1. PICK m \in 1 .. n - 1, k \in 0 .. n :
          /\ m + k <= n
          /\ Linked(table, c, 1, m + 1) /\ Freed(table, c, m + 1, m + k)
          /\ Linked(table, c, m + k + 1, n)
          /\ m + k < n => table[c[n]] = FINAL
    BY <1>5 DEF Shrinking
  <2>2. me.start = c[1]
    BY <1>5 DEF Shrinking
  <2>3. CASE k = 0
    <3>1. Linked(table, c, 1, n)
      BY <1>0, <2>1, <2>3 DEF Linked
    <3>2. Whole(table, c, n, n)
      BY <1>0, <2>1, <2>3, <3>1 DEF Whole, Freed
    <3>. QED BY <1>0, <1>1, <2>2, <3>2
  <2>4. CASE k > 0
    <3>1. m + 1 \in 1 .. n /\ m + 1 \in m + 1 .. m + k
      BY <1>0, <2>1, <2>4
    <3>2. Broken(table, c, n)
      BY <2>1, <3>1 DEF Broken, Freed
    <3>3. ASSUME NEW i \in 1 .. n PROVE table[c[i]] \in Members(c, n) \union {FREE, FINAL}
      <4>1. CASE i \in m + 1 .. m + k
        BY <2>1, <4>1 DEF Freed
      <4>2. CASE i \in 1 .. m
        <5>1. i \in 1 .. (m + 1) - 1 /\ i + 1 \in 1 .. n
          BY <1>0, <2>1, <4>2
        <5>. QED BY <2>1, <5>1 DEF Linked, Members
      <4>3. CASE i \in m + k + 1 .. n - 1
        <5>1. i + 1 \in 1 .. n
          BY <1>0, <2>1, <4>3
        <5>. QED BY <2>1, <4>3, <5>1 DEF Linked, Members
      <4>4. CASE i = n /\ m + k < n
        BY <2>1, <4>4
      <4>. QED BY <1>0, <2>1, <4>1, <4>2, <4>3, <4>4
    <3>. QED BY <2>2, <3>2, <3>3 DEF Shape, Inside
  <2>. QED BY <2>3, <2>4
<1>6. CASE Growing(table, c, n, s, me, writes)
  <2>1. PICK a \in 1 .. n, half \in {0, 1} :
          /\ a + half <= n
          /\ Linked(table, c, 1, a + half) /\ Freed(table, c, a + 1, n)
          /\ half = 0 => table[c[a]] = FINAL
    BY <1>6 DEF Growing
  <2>2. me.start = c[1]
    BY <1>6 DEF Growing
  <2>3. CASE half = 0
    <3>1. Whole(table, c, n, a)
      <4>1. a + half = a
        BY <2>3
      <4>. QED BY <2>1, <2>3, <4>1 DEF Whole
    <3>. QED BY <1>1, <2>2, <3>1
  <2>4. CASE half = 1
    <3>1. a + 1 \in 1 .. n /\ a + 1 \in a + 1 .. n /\ Linked(table, c, 1, a + 1)
      BY <1>0, <2>1, <2>4
    <3>2. Broken(table, c, n)
      BY <2>1, <3>1 DEF Broken, Freed
    <3>3. ASSUME NEW i \in 1 .. n PROVE table[c[i]] \in Members(c, n) \union {FREE, FINAL}
      <4>1. CASE i \in a + 1 .. n
        BY <2>1, <4>1 DEF Freed
      <4>2. CASE i \in 1 .. a
        <5>1. i \in 1 .. (a + 1) - 1 /\ i + 1 \in 1 .. n
          BY <1>0, <3>1, <4>2
        <5>. QED BY <3>1, <5>1 DEF Linked, Members
      <4>. QED BY <1>0, <4>1, <4>2
    <3>. QED BY <2>2, <3>2, <3>3 DEF Shape, Inside
  <2>. QED BY <2>3, <2>4
<1>. QED BY <1>2, <1>3, <1>4, <1>5, <1>6 DEF Stage

\* The first write of some, and the others.
LEMMA Onwards ==
    ASSUME NEW S, NEW writes \in Seq(S), writes # <<>>
    PROVE  /\ Len(writes) \in Nat /\ Len(writes) > 0
           /\ Tail(writes) \in Seq(S) /\ Len(Tail(writes)) = Len(writes) - 1
           /\ Head(writes) = writes[1]
           /\ \A i \in 1 .. Len(writes) - 1 : Tail(writes)[i] = writes[i + 1]
OBVIOUS

\* Quiet writes stay quiet as the first of all is made.
LEMMA QuietOnwards ==
    ASSUME NEW S, NEW writes \in Seq(S), writes # <<>>, NEW i \in Nat, i > 0, NEW s, NEW me,
           QuietFrom(i + 1, s, me, writes)
    PROVE  QuietFrom(i, s, me, Tail(writes))
<1>1. SUFFICES ASSUME NEW j \in i .. Len(Tail(writes)) PROVE Quiet(Tail(writes)[j], s, me)
  BY DEF QuietFrom
<1>2. j \in 1 .. Len(writes) - 1 /\ j + 1 \in i + 1 .. Len(writes)
  BY <1>1, Onwards
<1>. QED BY <1>2, Onwards DEF QuietFrom

\* What a write does to the table, the entry and the stage the call is at.
Stepped(table, c, n, s, me, w, rest) ==
    \/ w.to = "data" /\ Stage(table, c, n, s, me, rest)
    \/ /\ w.to = "slot" /\ w.slot = s /\ w.entry \in Entry /\ w.entry.name = me.name
       /\ Stage(table, c, n, s, w.entry, rest)
    \/ /\ w.to = "fat" /\ w.block \in Members(c, n)
       /\ w.mark \in Members(c, n) \union {FREE, FINAL}
       /\ Stage([table EXCEPT ![w.block] = w.mark], c, n, s, me, rest)

\* The blocks of a row are blocks of the partition, no two the same.
LEMMA RowBlocks ==
    ASSUME NEW c, NEW n, Row(c, n)
    PROVE  \A i, j \in 1 .. n : c[i] \in Blocks /\ (c[i] = c[j] <=> i = j)
BY BlockAssumption DEF Row, Blocks, DataBlocks, RootBlock

\* The chain is as it is to be, and stays so.
LEMMA SettledStep ==
    ASSUME NEW table, NEW c, NEW n, NEW s, NEW me \in Entry,
           NEW S, NEW writes \in Seq(S), writes # <<>>, Settled(table, c, n, s, me, writes)
    PROVE  Stepped(table, c, n, s, me, Head(writes), Tail(writes))
<1>1. Quiet(writes[1], s, me) /\ QuietFrom(1, s, me, Tail(writes)) /\ Head(writes) = writes[1]
  BY Onwards, QuietOnwards DEF Settled, QuietFrom
<1>2. CASE writes[1].to = "data"
  BY <1>1, <1>2 DEF Stepped, Stage, Settled
<1>3. CASE writes[1].to # "data"
  <2>. DEFINE e == writes[1].entry
  <2>1. /\ writes[1].to = "slot" /\ writes[1].slot = s /\ e \in Entry
        /\ e.start = me.start /\ e.name = me.name
    BY <1>1, <1>3 DEF Quiet
  <2>2. QuietFrom(1, s, e, Tail(writes))
    BY <1>1, <2>1 DEF QuietFrom, Quiet
  <2>. HIDE DEF e
  <2>3. Settled(table, c, n, s, e, Tail(writes))
    BY <2>1, <2>2 DEF Settled
  <2>. QED BY <1>1, <2>1, <2>3 DEF Stepped, Stage, e
<1>. QED BY <1>2, <1>3

\* forget frees one more block, or is done and the last one is marked or the entry saved.
LEMMA ForgettingStep ==
    ASSUME NEW table \in [Blocks -> Links], NEW c, NEW n, Row(c, n), NEW s, NEW me \in Entry,
           NEW S, NEW writes \in Seq(S), writes # <<>>, Forgetting(table, c, n, s, me, writes)
    PROVE  Stepped(table, c, n, s, me, Head(writes), Tail(writes))
<1>0. n \in Nat \ {0} /\ me.start = c[1]
  BY DEF Row, Forgetting
<1>1. PICK k \in 0 .. n :
          /\ Freed(table, c, 1, k) /\ Linked(table, c, k + 1, n)
          /\ k < n => table[c[n]] = FINAL
          /\ Len(writes) > n - k
          /\ \A i \in 1 .. n - k : writes[i] = Mark(c[k + i], FREE)
          /\ \/ /\ writes[n - k + 1] = Mark(c[1], FINAL)
                /\ QuietFrom(n - k + 2, s, me, writes)
             \/ /\ Len(writes) = n - k + 1
                /\ writes[n - k + 1] = Save(s, [me EXCEPT !.start = FREE])
  BY DEF Forgetting
<1>. DEFINE rest == Tail(writes)
<1>2. /\ Len(writes) \in Nat /\ Len(rest) = Len(writes) - 1 /\ Head(writes) = writes[1]
      /\ \A i \in 1 .. Len(writes) - 1 : rest[i] = writes[i + 1]
  BY Onwards
<1>a. n \in Nat /\ n > 0 /\ k \in Nat /\ k <= n /\ Len(writes) \in Nat /\ Len(writes) > n - k
  BY <1>0, <1>1, <1>2
<1>3. CASE k < n
  <2>. DEFINE w == writes[1]
              t == [table EXCEPT ![c[k + 1]] = FREE]
  <2>1. 1 \in 1 .. n - k /\ k + 1 \in 1 .. n /\ k + 1 \in 0 .. n
    BY <1>0, <1>3
  <2>2. w = Mark(c[k + 1], FREE)
    BY <1>1, <2>1
  <2>3. \A j \in 1 .. n : t[c[j]] = IF j = k + 1 THEN FREE ELSE table[c[j]]
    <3>1. \A i \in 1 .. n : c[i] \in Blocks /\ (c[i] = c[k + 1] <=> i = k + 1)
      BY <2>1, RowBlocks
    <3>. QED BY <3>1 DEF t
  <2>. HIDE DEF t, rest
  <2>4. Freed(t, c, 1, k + 1)
    BY <1>0, <1>1, <2>1, <2>3 DEF Freed
  <2>5. Linked(t, c, (k + 1) + 1, n)
    <3>1. \A i \in (k + 1) + 1 .. n - 1 : i \in k + 1 .. n - 1 /\ i \in 1 .. n /\ i # k + 1
      BY <1>a
    <3>. QED BY <1>1, <2>3, <3>1 DEF Linked
  <2>6. k + 1 < n => t[c[n]] = FINAL
    <3>1. n \in 1 .. n /\ (k + 1 < n => n # k + 1)
      BY <1>a
    <3>. QED BY <1>1, <1>3, <2>3, <3>1
  <2>7. Len(rest) > n - (k + 1) /\ (Len(writes) = n - k + 1 => Len(rest) = n - (k + 1) + 1)
    BY <1>0, <1>1, <1>2
  <2>8. \A i \in 1 .. n - (k + 1) : rest[i] = Mark(c[(k + 1) + i], FREE)
    <3>1. ASSUME NEW i \in 1 .. n - (k + 1) PROVE rest[i] = Mark(c[(k + 1) + i], FREE)
      <4>1. i + 1 \in 1 .. n - k /\ i \in 1 .. Len(writes) - 1 /\ k + (i + 1) = (k + 1) + i
        BY <1>a
      <4>. QED BY <1>1, <1>2, <4>1
    <3>. QED BY <3>1
  <2>9. rest[n - (k + 1) + 1] = writes[n - k + 1]
    <3>1. n - k \in 1 .. Len(writes) - 1 /\ n - (k + 1) + 1 = n - k /\ (n - k) + 1 = n - k + 1
      BY <1>0, <1>1, <1>2, <1>3
    <3>. QED BY <1>2, <3>1
  <2>10. QuietFrom(n - k + 2, s, me, writes) => QuietFrom(n - (k + 1) + 2, s, me, rest)
    <3>1. n - (k + 1) + 2 \in Nat /\ n - (k + 1) + 2 > 0 /\ (n - (k + 1) + 2) + 1 = n - k + 2
      BY <1>0, <1>1
    <3>. QED BY <3>1, QuietOnwards DEF rest
  <2>11. Forgetting(t, c, n, s, me, rest)
    BY <1>0, <1>1, <2>1, <2>4, <2>5, <2>6, <2>7, <2>8, <2>9, <2>10 DEF Forgetting
  <2>12. w.to = "fat" /\ w.block = c[k + 1] /\ w.mark = FREE
    BY <2>2 DEF Mark
  <2>. QED BY <1>2, <2>1, <2>11, <2>12 DEF Stepped, Stage, Members, t, rest
<1>4. CASE k = n /\ writes[1] = Mark(c[1], FINAL) /\ QuietFrom(2, s, me, writes)
  <2>. DEFINE w == writes[1]
              t == [table EXCEPT ![c[1]] = FINAL]
  <2>1. 1 \in 1 .. n
    BY <1>0
  <2>2. \A j \in 1 .. n : t[c[j]] = IF j = 1 THEN FINAL ELSE table[c[j]]
    <3>1. \A i \in 1 .. n : c[i] \in Blocks /\ (c[i] = c[1] <=> i = 1)
      BY <2>1, RowBlocks
    <3>. QED BY <3>1 DEF t
  <2>. HIDE DEF t
  <2>3. Whole(t, c, n, 1)
    BY <1>0, <1>1, <1>4, <2>1, <2>2 DEF Whole, Linked, Freed
  <2>4. QuietFrom(1, s, me, rest)
    BY <1>4, QuietOnwards
  <2>. HIDE DEF rest
  <2>5. Settled(t, c, n, s, me, rest)
    BY <1>0, <2>1, <2>3, <2>4 DEF Settled
  <2>6. w.to = "fat" /\ w.block = c[1] /\ w.mark = FINAL
    BY <1>4 DEF Mark
  <2>. QED BY <1>2, <2>1, <2>5, <2>6 DEF Stepped, Stage, Members, t, rest
<1>5. CASE k = n /\ Len(writes) = 1 /\ writes[1] = Save(s, [me EXCEPT !.start = FREE])
  <2>. DEFINE e == [me EXCEPT !.start = FREE]
  <2>1. e \in Entry /\ e.start = FREE /\ e.name = me.name
    BY DEF Entry
  <2>2. rest = <<>>
    <3>1. rest \in Seq(S) /\ Len(rest) = 0
      BY <1>2, <1>5, Onwards
    <3>. HIDE DEF rest
    <3>. QED BY <3>1, EmptySeq
  <2>. HIDE DEF e, rest
  <2>3. Gone(table, c, n, s, e, rest)
    BY <1>1, <1>5, <2>1, <2>2 DEF Gone
  <2>4. writes[1].to = "slot" /\ writes[1].slot = s /\ writes[1].entry = e
    BY <1>5 DEF Save, e
  <2>. QED BY <1>2, <2>1, <2>3, <2>4 DEF Stepped, Stage, rest
<1>6. k = n => n - k + 1 = 1 /\ n - k + 2 = 2
  BY <1>0
<1>7. k < n \/ k = n
  BY <1>a
<1>. QED BY <1>1, <1>3, <1>4, <1>5, <1>6, <1>7

\* resize zeroes bytes, frees one more block, or marks the new last one.
LEMMA ShrinkingStep ==
    ASSUME NEW table \in [Blocks -> Links], NEW c, NEW n, Row(c, n), NEW s, NEW me \in Entry,
           NEW S, NEW writes \in Seq(S), writes # <<>>, Shrinking(table, c, n, s, me, writes)
    PROVE  Stepped(table, c, n, s, me, Head(writes), Tail(writes))
<1>0. n \in Nat \ {0} /\ me.start = c[1]
  BY DEF Row, Shrinking
<1>1. PICK m \in 1 .. n - 1, k \in 0 .. n, j \in 0 .. Len(writes) :
          /\ m + k <= n /\ (j > 0 => k = 0)
          /\ Linked(table, c, 1, m + 1) /\ Freed(table, c, m + 1, m + k)
          /\ Linked(table, c, m + k + 1, n)
          /\ m + k < n => table[c[n]] = FINAL
          /\ Len(writes) > j + (n - m - k)
          /\ \A i \in 1 .. j : writes[i].to = "data"
          /\ \A i \in 1 .. n - m - k : writes[j + i] = Mark(c[m + k + i], FREE)
          /\ writes[j + (n - m - k) + 1] = Mark(c[m], FINAL)
          /\ QuietFrom(j + (n - m - k) + 2, s, me, writes)
  BY DEF Shrinking
<1>. DEFINE rest == Tail(writes)
<1>2. /\ Len(writes) \in Nat /\ Len(rest) = Len(writes) - 1 /\ Head(writes) = writes[1]
      /\ \A i \in 1 .. Len(writes) - 1 : rest[i] = writes[i + 1]
  BY Onwards
<1>a. /\ n \in Nat /\ n > 0 /\ m \in Nat /\ m > 0 /\ m < n /\ k \in Nat /\ j \in Nat /\ m + k <= n
      /\ (j > 0 => k = 0) /\ Len(writes) \in Nat /\ Len(writes) > j + (n - m - k)
  BY <1>0, <1>1, <1>2
<1>3. CASE j > 0
  <2>1. j - 1 \in 0 .. Len(rest) /\ Len(rest) > (j - 1) + (n - m - k) /\ (j - 1 > 0 => k = 0)
    BY <1>0, <1>1, <1>2, <1>3
  <2>2. \A i \in 1 .. j - 1 : rest[i].to = "data"
    <3>1. ASSUME NEW i \in 1 .. j - 1 PROVE rest[i].to = "data"
      <4>1. i + 1 \in 1 .. j /\ i \in 1 .. Len(writes) - 1
        BY <1>0, <1>1, <1>2
      <4>. QED BY <1>1, <1>2, <4>1
    <3>. QED BY <3>1
  <2>3. \A i \in 1 .. n - m - k : rest[(j - 1) + i] = Mark(c[m + k + i], FREE)
    <3>1. ASSUME NEW i \in 1 .. n - m - k PROVE rest[(j - 1) + i] = Mark(c[m + k + i], FREE)
      <4>1. (j - 1) + i \in 1 .. Len(writes) - 1 /\ ((j - 1) + i) + 1 = j + i
        BY <1>a, <1>3
      <4>. QED BY <1>1, <1>2, <4>1
    <3>. QED BY <3>1
  <2>4. rest[(j - 1) + (n - m - k) + 1] = Mark(c[m], FINAL)
    <3>1. /\ (j - 1) + (n - m - k) + 1 \in 1 .. Len(writes) - 1
          /\ ((j - 1) + (n - m - k) + 1) + 1 = j + (n - m - k) + 1
      BY <1>0, <1>1, <1>2, <1>3
    <3>. QED BY <1>1, <1>2, <3>1
  <2>5. QuietFrom((j - 1) + (n - m - k) + 2, s, me, rest)
    <3>1. /\ (j - 1) + (n - m - k) + 2 \in Nat /\ (j - 1) + (n - m - k) + 2 > 0
          /\ ((j - 1) + (n - m - k) + 2) + 1 = j + (n - m - k) + 2
      BY <1>0, <1>1, <1>3
    <3>. QED BY <1>1, <3>1, QuietOnwards
  <2>. HIDE DEF rest
  <2>6. Shrinking(table, c, n, s, me, rest)
    BY <1>0, <1>1, <2>1, <2>2, <2>3, <2>4, <2>5 DEF Shrinking
  <2>7. writes[1].to = "data"
    BY <1>0, <1>1, <1>3
  <2>. QED BY <1>2, <2>6, <2>7 DEF Stepped, Stage, rest
<1>4. CASE j = 0 /\ m + k < n
  <2>. DEFINE w == writes[1]
              t == [table EXCEPT ![c[m + k + 1]] = FREE]
  <2>1. 1 \in 1 .. n - m - k /\ m + k + 1 \in 1 .. n /\ k + 1 \in 0 .. n /\ j + 1 = 1
        /\ m + (k + 1) = m + k + 1
    BY <1>0, <1>1, <1>4
  <2>2. w = Mark(c[m + k + 1], FREE)
    BY <1>1, <2>1
  <2>3. \A i \in 1 .. n : t[c[i]] = IF i = m + k + 1 THEN FREE ELSE table[c[i]]
    <3>1. \A i \in 1 .. n : c[i] \in Blocks /\ (c[i] = c[m + k + 1] <=> i = m + k + 1)
      BY <2>1, RowBlocks
    <3>. QED BY <3>1 DEF t
  <2>. HIDE DEF t, rest
  <2>4. Linked(t, c, 1, m + 1)
    BY <1>0, <1>1, <2>1, <2>3 DEF Linked
  <2>5. Freed(t, c, m + 1, m + (k + 1))
    <3>1. \A i \in m + 1 .. m + (k + 1) : i \in 1 .. n /\ (i = m + k + 1 \/ i \in m + 1 .. m + k)
      BY <1>a, <1>4
    <3>. QED BY <1>1, <2>3, <3>1 DEF Freed
  <2>6. Linked(t, c, m + (k + 1) + 1, n)
    BY <1>0, <1>1, <2>1, <2>3 DEF Linked
  <2>7. m + (k + 1) < n => t[c[n]] = FINAL
    <3>1. n \in 1 .. n /\ (m + (k + 1) < n => n # m + k + 1)
      BY <1>a
    <3>. QED BY <1>1, <1>4, <2>3, <3>1
  <2>8. m + (k + 1) <= n /\ Len(rest) > 0 + (n - m - (k + 1)) /\ 0 \in 0 .. Len(rest)
    BY <1>0, <1>1, <1>2, <1>4
  <2>9. \A i \in 1 .. n - m - (k + 1) : rest[0 + i] = Mark(c[m + (k + 1) + i], FREE)
    <3>1. ASSUME NEW i \in 1 .. n - m - (k + 1) PROVE rest[0 + i] = Mark(c[m + (k + 1) + i], FREE)
      <4>1. /\ i + 1 \in 1 .. n - m - k /\ i \in 1 .. Len(writes) - 1 /\ 0 + i = i
            /\ j + (i + 1) = i + 1 /\ m + k + (i + 1) = m + (k + 1) + i
        BY <1>0, <1>1, <1>2, <1>4
      <4>. QED BY <1>1, <1>2, <4>1
    <3>. QED BY <3>1
  <2>10. rest[0 + (n - m - (k + 1)) + 1] = Mark(c[m], FINAL)
    <3>1. /\ 0 + (n - m - (k + 1)) + 1 \in 1 .. Len(writes) - 1
          /\ (0 + (n - m - (k + 1)) + 1) + 1 = j + (n - m - k) + 1
      BY <1>0, <1>1, <1>2, <1>4
    <3>. QED BY <1>1, <1>2, <3>1
  <2>11. QuietFrom(0 + (n - m - (k + 1)) + 2, s, me, rest)
    <3>1. /\ 0 + (n - m - (k + 1)) + 2 \in Nat /\ 0 + (n - m - (k + 1)) + 2 > 0
          /\ (0 + (n - m - (k + 1)) + 2) + 1 = j + (n - m - k) + 2
      BY <1>a, <1>4
    <3>. QED BY <1>1, <3>1, QuietOnwards DEF rest
  <2>12. Shrinking(t, c, n, s, me, rest)
    <3>1. \A i \in 1 .. 0 : rest[i].to = "data"
      OBVIOUS
    <3>2. ~(0 > 0) /\ k + 1 \in 0 .. n
      BY <2>1
    <3>. QED BY <1>0, <2>4, <2>5, <2>6, <2>7, <2>8, <2>9, <2>10, <2>11, <3>1, <3>2 DEF Shrinking
  <2>13. w.to = "fat" /\ w.block = c[m + k + 1] /\ w.mark = FREE
    BY <2>2 DEF Mark
  <2>. QED BY <1>2, <2>1, <2>12, <2>13 DEF Stepped, Stage, Members, t, rest
<1>5. CASE j = 0 /\ m + k = n
  <2>. DEFINE w == writes[1]
              t == [table EXCEPT ![c[m]] = FINAL]
  <2>1. m \in 1 .. n /\ j + (n - m - k) + 1 = 1 /\ j + (n - m - k) + 2 = 2
    BY <1>0, <1>1, <1>5
  <2>2. w = Mark(c[m], FINAL) /\ QuietFrom(2, s, me, writes)
    BY <1>1, <2>1
  <2>3. \A i \in 1 .. n : t[c[i]] = IF i = m THEN FINAL ELSE table[c[i]]
    <3>1. \A i \in 1 .. n : c[i] \in Blocks /\ (c[i] = c[m] <=> i = m)
      BY <2>1, RowBlocks
    <3>. QED BY <3>1 DEF t
  <2>. HIDE DEF t
  <2>4. Linked(t, c, 1, m)
    BY <1>0, <1>1, <2>1, <2>3 DEF Linked
  <2>5. Freed(t, c, m + 1, n)
    BY <1>0, <1>1, <1>5, <2>1, <2>3 DEF Freed
  <2>6. Whole(t, c, n, m)
    BY <2>1, <2>3, <2>4, <2>5 DEF Whole
  <2>7. QuietFrom(1, s, me, rest)
    BY <2>2, QuietOnwards
  <2>. HIDE DEF rest
  <2>8. Settled(t, c, n, s, me, rest)
    BY <1>0, <2>1, <2>6, <2>7 DEF Settled
  <2>9. w.to = "fat" /\ w.block = c[m] /\ w.mark = FINAL
    BY <2>2 DEF Mark
  <2>. QED BY <1>2, <2>1, <2>8, <2>9 DEF Stepped, Stage, Members, t, rest
<1>. QED BY <1>0, <1>1, <1>3, <1>4, <1>5

\* resize links one more block, or marks the one it has linked.
LEMMA GrowingStep ==
    ASSUME NEW table \in [Blocks -> Links], NEW c, NEW n, Row(c, n), NEW s, NEW me \in Entry,
           NEW S, NEW writes \in Seq(S), writes # <<>>, Growing(table, c, n, s, me, writes)
    PROVE  Stepped(table, c, n, s, me, Head(writes), Tail(writes))
<1>0. n \in Nat \ {0} /\ me.start = c[1]
  BY DEF Row, Growing
<1>1. PICK a \in 1 .. n, half \in {0, 1} :
          /\ a + half <= n
          /\ Linked(table, c, 1, a + half) /\ Freed(table, c, a + 1, n)
          /\ half = 0 => table[c[a]] = FINAL
          /\ Len(writes) >= 2 * (n - a) - half
          /\ \A y \in 1 .. n - a :
                /\ half = 0 \/ y > 1 => writes[2 * y - 1 - half] = Mark(c[a + y - 1], c[a + y])
                /\ writes[2 * y - half] = Mark(c[a + y], FINAL)
          /\ QuietFrom(2 * (n - a) - half + 1, s, me, writes)
  BY DEF Growing
<1>. DEFINE rest == Tail(writes)
<1>2. /\ Len(writes) \in Nat /\ Len(rest) = Len(writes) - 1 /\ Head(writes) = writes[1]
      /\ \A i \in 1 .. Len(writes) - 1 : rest[i] = writes[i + 1]
  BY Onwards
<1>a. /\ n \in Nat /\ n > 0 /\ a \in Nat /\ a > 0 /\ a + half <= n /\ half \in {0, 1}
      /\ Len(writes) \in Nat /\ Len(writes) >= 2 * (n - a) - half
  BY <1>0, <1>1, <1>2
<1>3. CASE half = 0 /\ a = n
  <2>1. Whole(table, c, n, a)
    <3>1. a + half = a
      BY <1>3
    <3>. QED BY <1>1, <1>3, <3>1 DEF Whole
  <2>2. QuietFrom(1, s, me, writes)
    <3>1. 2 * (n - a) - half + 1 = 1
      BY <1>0, <1>3
    <3>. QED BY <1>1, <3>1
  <2>3. Settled(table, c, n, s, me, writes)
    BY <1>0, <2>1, <2>2 DEF Settled
  <2>. QED BY <2>3, SettledStep
<1>4. CASE half = 0 /\ a < n
  <2>. DEFINE w == writes[1]
              t == [table EXCEPT ![c[a]] = c[a + 1]]
  <2>1. /\ 1 \in 1 .. n - a /\ a + 1 \in 1 .. n /\ a \in 1 .. n
        /\ 2 * 1 - 1 - half = 1 /\ a + 1 - 1 = a /\ a + half = a
    BY <1>0, <1>4
  <2>2. w = Mark(c[a], c[a + 1])
    BY <1>1, <1>4, <2>1
  <2>3. \A i \in 1 .. n : t[c[i]] = IF i = a THEN c[a + 1] ELSE table[c[i]]
    <3>1. \A i \in 1 .. n : c[i] \in Blocks /\ (c[i] = c[a] <=> i = a)
      BY <2>1, RowBlocks
    <3>. QED BY <3>1 DEF t
  <2>. HIDE DEF t, rest
  <2>4. Linked(t, c, 1, a + 1)
    BY <1>0, <1>1, <2>1, <2>3 DEF Linked
  <2>5. Freed(t, c, a + 1, n)
    BY <1>0, <1>1, <2>1, <2>3 DEF Freed
  <2>6. a + 1 <= n /\ Len(rest) >= 2 * (n - a) - 1 /\ Len(writes) >= 2 * (n - a)
    BY <1>0, <1>1, <1>2, <1>4
  <2>7. ASSUME NEW y \in 1 .. n - a
        PROVE  /\ y > 1 => rest[2 * y - 1 - 1] = Mark(c[a + y - 1], c[a + y])
               /\ rest[2 * y - 1] = Mark(c[a + y], FINAL)
    <3>1. ASSUME y > 1 PROVE rest[2 * y - 1 - 1] = Mark(c[a + y - 1], c[a + y])
      <4>1. /\ 2 * y - 1 - 1 \in 1 .. Len(writes) - 1 /\ (2 * y - 1 - 1) + 1 = 2 * y - 1 - half
        BY <1>0, <1>1, <1>2, <1>4, <2>6, <3>1
      <4>. QED BY <1>1, <1>2, <3>1, <4>1
    <3>2. 2 * y - 1 \in 1 .. Len(writes) - 1 /\ (2 * y - 1) + 1 = 2 * y - half
      BY <1>0, <1>1, <1>2, <1>4, <2>6
    <3>. QED BY <1>1, <1>2, <3>1, <3>2
  <2>8. QuietFrom(2 * (n - a) - 1 + 1, s, me, rest)
    <3>1. /\ 2 * (n - a) - 1 + 1 \in Nat /\ 2 * (n - a) - 1 + 1 > 0
          /\ (2 * (n - a) - 1 + 1) + 1 = 2 * (n - a) - half + 1
      BY <1>0, <1>1, <1>4
    <3>. QED BY <1>1, <3>1, QuietOnwards DEF rest
  <2>9. Growing(t, c, n, s, me, rest)
    <3>1. 1 # 0
      OBVIOUS
    <3>. QED BY <1>0, <2>1, <2>4, <2>5, <2>6, <2>7, <2>8, <3>1 DEF Growing
  <2>10. w.to = "fat" /\ w.block = c[a] /\ w.mark = c[a + 1]
    BY <2>2 DEF Mark
  <2>. QED BY <1>2, <2>1, <2>9, <2>10 DEF Stepped, Stage, Members, t, rest
<1>5. CASE half = 1
  <2>. DEFINE w == writes[1]
              t == [table EXCEPT ![c[a + 1]] = FINAL]
  <2>1. 1 \in 1 .. n - a /\ a + 1 \in 1 .. n /\ 2 * 1 - half = 1 /\ a + half = a + 1
    BY <1>0, <1>1, <1>5
  <2>2. w = Mark(c[a + 1], FINAL)
    BY <1>1, <2>1
  <2>3. \A i \in 1 .. n : t[c[i]] = IF i = a + 1 THEN FINAL ELSE table[c[i]]
    <3>1. \A i \in 1 .. n : c[i] \in Blocks /\ (c[i] = c[a + 1] <=> i = a + 1)
      BY <2>1, RowBlocks
    <3>. QED BY <3>1 DEF t
  <2>. HIDE DEF t, rest
  <2>4. Linked(t, c, 1, a + 1)
    BY <1>0, <1>1, <2>1, <2>3 DEF Linked
  <2>5. Freed(t, c, (a + 1) + 1, n)
    BY <1>0, <1>1, <2>1, <2>3 DEF Freed
  <2>6. Len(writes) >= 2 * (n - a) - 1 /\ Len(rest) >= 2 * (n - (a + 1)) - 0 /\ (a + 1) + 0 = a + 1
    BY <1>0, <1>1, <1>2, <1>5
  <2>7. ASSUME NEW y \in 1 .. n - (a + 1)
        PROVE  /\ rest[2 * y - 1 - 0] = Mark(c[(a + 1) + y - 1], c[(a + 1) + y])
               /\ rest[2 * y - 0] = Mark(c[(a + 1) + y], FINAL)
    <3>. DEFINE z == y + 1
    <3>1. z \in 1 .. n - a /\ z > 1 /\ a + z - 1 = (a + 1) + y - 1 /\ a + z = (a + 1) + y
      BY <1>0
    <3>2. /\ writes[2 * z - 1 - half] = Mark(c[a + z - 1], c[a + z])
          /\ writes[2 * z - half] = Mark(c[a + z], FINAL)
      BY <1>1, <3>1
    <3>3. 2 * y - 1 - 0 \in 1 .. Len(writes) - 1 /\ (2 * y - 1 - 0) + 1 = 2 * z - 1 - half
      BY <1>0, <1>2, <1>5, <2>6
    <3>4. 2 * y - 0 \in 1 .. Len(writes) - 1 /\ (2 * y - 0) + 1 = 2 * z - half
      BY <1>0, <1>2, <1>5, <2>6
    <3>. HIDE DEF z
    <3>. QED BY <1>2, <3>1, <3>2, <3>3, <3>4
  <2>8. QuietFrom(2 * (n - (a + 1)) - 0 + 1, s, me, rest)
    <3>1. /\ 2 * (n - (a + 1)) - 0 + 1 \in Nat /\ 2 * (n - (a + 1)) - 0 + 1 > 0
          /\ (2 * (n - (a + 1)) - 0 + 1) + 1 = 2 * (n - a) - half + 1
      BY <1>a, <1>5
    <3>. QED BY <1>1, <3>1, QuietOnwards DEF rest
  <2>9. Growing(t, c, n, s, me, rest)
    <3>1. (a + 1) + 0 <= n /\ t[c[a + 1]] = FINAL /\ Linked(t, c, 1, (a + 1) + 0)
      BY <1>0, <2>1, <2>3, <2>4, <2>6
    <3>. QED BY <1>0, <2>1, <2>5, <2>6, <2>7, <2>8, <3>1 DEF Growing
  <2>10. w.to = "fat" /\ w.block = c[a + 1] /\ w.mark = FINAL
    BY <2>2 DEF Mark
  <2>. QED BY <1>2, <2>1, <2>9, <2>10 DEF Stepped, Stage, Members, t, rest
<1>. QED BY <1>0, <1>1, <1>3, <1>4, <1>5

\* Whatever the stage, a write leads on to the next one.
LEMMA StageStep ==
    ASSUME NEW table \in [Blocks -> Links], NEW c, NEW n, Row(c, n), NEW s, NEW me \in Entry,
           NEW S, NEW writes \in Seq(S), writes # <<>>, Stage(table, c, n, s, me, writes)
    PROVE  Stepped(table, c, n, s, me, Head(writes), Tail(writes))
<1>1. ~Gone(table, c, n, s, me, writes)
  BY DEF Gone
<1>. QED BY <1>1, SettledStep, ForgettingStep, ShrinkingStep, GrowingStep DEF Stage

-----------------------------------------------------------------------------
(* The other files: table, sl and l are a table, the slots and their number; the *)
(* file a call is about is at s, and W are the blocks it is about.         *)

\* A chain that ends.
EndsAt(table, start) == \E p, n : Follows(table, start, p, n)

\* An entry whose chain ends, suffices, and stays out of the blocks W.
Keeps(table, e, W) ==
    /\ EndsAt(table, e.start)
    /\ Cardinality(Chain(table, e.start)) >= BlocksFor(e.length)
    /\ Chain(table, e.start) \cap W = {}
    /\ e.name \in Files

\* Two files with names and blocks of their own.
Differ(table, e, f) ==
    Chain(table, e.start) \cap Chain(table, f.start) = {} /\ e.name # f.name

\* The files but for the one at s.
Others(sl, l, s) == {t \in 1 .. l : t # s /\ sl[t].start # FREE}

\* Blocks of theirs that no file has.
Lost(table, sl, l, s, W) ==
    {b \in DataBlocks \ {RootBlock} :
        b \notin W /\ table[b] # FREE /\ \A t \in Others(sl, l, s) : b \notin Chain(table, sl[t].start)}

\* The others are in order, and lost at most so many blocks.
Apart(table, sl, l, s, W, most) ==
    /\ \A t \in Others(sl, l, s) : Keeps(table, sl[t], W)
    /\ \A t, u \in Others(sl, l, s) : t # u => Differ(table, sl[t], sl[u])
    /\ Cardinality(Lost(table, sl, l, s, W)) <= most

\* A name none of the others has.
NewName(sl, l, s, name) == name \in Files /\ \A t \in Others(sl, l, s) : sl[t].name # name

\* The marks are no data blocks.
LEMMA DataAreBlocks == DataBlocks \subseteq Blocks /\ FREE \notin DataBlocks /\ FINAL \notin DataBlocks
BY BlockAssumption DEF DataBlocks, Blocks, RootBlock, FREE, FINAL

\* An entry in order stays so in a table that differs in W only.
LEMMA KeepsElsewhere ==
    ASSUME NEW table, NEW other, NEW e, NEW W, Keeps(table, e, W),
           \A b \in DataBlocks \ W : other[b] = table[b]
    PROVE  Keeps(other, e, W) /\ Chain(other, e.start) = Chain(table, e.start)
<1>1. PICK p, n : Follows(table, e.start, p, n)
  BY DEF Keeps, EndsAt
<1>2. \A b \in Chain(table, e.start) : other[b] = table[b]
  BY DEF Keeps, Chain
<1>3. Follows(other, e.start, p, n) /\ Chain(other, e.start) = Chain(table, e.start)
  BY <1>1, <1>2, FollowsElsewhere
<1>. QED BY <1>1, <1>3 DEF Keeps, EndsAt

\* What changes W and the entry at s alone leaves the others as they are.
LEMMA ApartKept ==
    ASSUME NEW table, NEW other, NEW sl, NEW sm, NEW l, NEW m, NEW s, NEW W, NEW most,
           Apart(table, sl, l, s, W, most),
           \A b \in DataBlocks \ W : other[b] = table[b],
           (1 .. m) \ {s} = (1 .. l) \ {s}, \A t \in (1 .. l) \ {s} : sm[t] = sl[t]
    PROVE  /\ Apart(other, sm, m, s, W, most)
           /\ \A name : NewName(sl, l, s, name) => NewName(sm, m, s, name)
<1>1. Others(sm, m, s) = Others(sl, l, s) /\ \A t \in Others(sl, l, s) : sm[t] = sl[t]
  BY DEF Others
<1>2. ASSUME NEW t \in Others(sl, l, s)
      PROVE  Keeps(other, sl[t], W) /\ Chain(other, sl[t].start) = Chain(table, sl[t].start)
  BY KeepsElsewhere DEF Apart
<1>3. Lost(other, sm, m, s, W) = Lost(table, sl, l, s, W)
  BY <1>1, <1>2 DEF Lost
<1>. QED BY <1>1, <1>2, <1>3 DEF Apart, Differ, NewName

\* Lost blocks can be counted.
LEMMA LostFinite ==
    ASSUME NEW table, NEW sl, NEW l, NEW s, NEW W
    PROVE  IsFiniteSet(Lost(table, sl, l, s, W)) /\ Cardinality(Lost(table, sl, l, s, W)) \in Nat
<1>1. IsFiniteSet(DataBlocks)
  BY BlockAssumption, FS_Interval DEF DataBlocks, RootBlock
<1>2. Lost(table, sl, l, s, W) \subseteq DataBlocks
  BY DEF Lost
<1>. QED BY <1>1, <1>2, FS_Subset, FS_CardinalityType

\* A call that ends, or is cut off, with the file at s in order.
LEMMA Joined ==
    ASSUME NEW table, NEW sl, NEW l, NEW s \in 1 .. l, NEW W, NEW most \in Nat,
           Apart(table, sl, l, s, W, most), NewName(sl, l, s, sl[s].name),
           Keeps(table, sl[s], {}), Chain(table, sl[s].start) \subseteq W,
           \A b \in W : b \in Chain(table, sl[s].start) \/ table[b] = FREE
    PROVE  Apart(table, sl, l, 0, {}, most)
<1>1. Others(sl, l, 0) \subseteq Others(sl, l, s) \union {s}
  BY DEF Others
<1>2. sl[s].start # FREE
  <2>1. PICK p, n : Follows(table, sl[s].start, p, n)
    BY DEF Keeps, EndsAt
  <2>2. sl[s].start \in DataBlocks
    BY <2>1 DEF Follows
  <2>. QED BY <2>2, DataAreBlocks
<1>3. Others(sl, l, 0) = Others(sl, l, s) \union {s}
  <2>1. s # 0 /\ \A t \in 1 .. l : t # 0
    OBVIOUS
  <2>. QED BY <1>2, <2>1 DEF Others
<1>4. \A t \in Others(sl, l, 0) : Keeps(table, sl[t], {})
  BY <1>1 DEF Apart, Keeps
<1>5. \A t \in Others(sl, l, s) : Differ(table, sl[t], sl[s]) /\ Differ(table, sl[s], sl[t])
  BY DEF Apart, Differ, NewName, Keeps
<1>6. Lost(table, sl, l, 0, {}) \subseteq Lost(table, sl, l, s, W)
  <2>1. s \in Others(sl, l, 0) /\ \A t \in Others(sl, l, s) : t \in Others(sl, l, 0)
    BY <1>3
  <2>. QED BY <2>1 DEF Lost
<1>7. Cardinality(Lost(table, sl, l, 0, {})) <= most
  BY <1>6, LostFinite, FS_Subset DEF Apart
<1>. QED BY <1>1, <1>4, <1>5, <1>7 DEF Apart

\* One that ends with no file there, and with its blocks free.
LEMMA Dropped ==
    ASSUME NEW table, NEW sl, NEW l, NEW s, NEW W, NEW most \in Nat,
           Apart(table, sl, l, s, W, most), s \notin Others(sl, l, 0),
           \A b \in W : table[b] = FREE
    PROVE  Apart(table, sl, l, 0, {}, most)
<1>1. Others(sl, l, 0) = Others(sl, l, s)
  BY DEF Others
<1>2. Lost(table, sl, l, 0, {}) = Lost(table, sl, l, s, W)
  BY <1>1 DEF Lost
<1>. QED BY <1>1, <1>2 DEF Apart, Keeps

\* One that is cut off in between may lose its block.
LEMMA LostOne ==
    ASSUME NEW table, NEW sl, NEW l, NEW s, NEW b, NEW most \in Nat,
           Apart(table, sl, l, s, {b}, most), s \notin Others(sl, l, 0)
    PROVE  Apart(table, sl, l, 0, {}, most + 1)
<1>1. Others(sl, l, 0) = Others(sl, l, s)
  BY DEF Others
<1>2. Lost(table, sl, l, 0, {}) \subseteq Lost(table, sl, l, s, {b}) \union {b}
  BY <1>1 DEF Lost
<1>3. IsFiniteSet(Lost(table, sl, l, s, {b}) \union {b})
      /\ Cardinality(Lost(table, sl, l, s, {b}) \union {b}) <= Cardinality(Lost(table, sl, l, s, {b})) + 1
  <2>. DEFINE L == Lost(table, sl, l, s, {b})
  <2>1. IsFiniteSet(L) /\ Cardinality(L) \in Nat
    BY LostFinite
  <2>. HIDE DEF L
  <2>2. IsFiniteSet(L \union {b})
    BY <2>1, FS_AddElement
  <2>3. Cardinality(L \union {b}) = IF b \in L THEN Cardinality(L) ELSE Cardinality(L) + 1
    BY <2>1, FS_AddElement
  <2>4. Cardinality(L \union {b}) <= Cardinality(L) + 1
    BY <2>1, <2>3
  <2>. QED BY <2>2, <2>4 DEF L
<1>4. Cardinality(Lost(table, sl, l, 0, {})) <= most + 1
  <2>1. Cardinality(Lost(table, sl, l, 0, {})) <= Cardinality(Lost(table, sl, l, s, {b}) \union {b})
    BY <1>2, <1>3, FS_Subset
  <2>. QED BY <1>3, <2>1, LostFinite, FS_CardinalityType DEF Apart
<1>. QED BY <1>1, <1>4 DEF Apart, Keeps

\* A call that sets out on the file at s, with the blocks it has and some that are free.
LEMMA Parted ==
    ASSUME NEW table, NEW sl, NEW l, NEW s \in Others(sl, l, 0), NEW W, NEW most \in Nat,
           Apart(table, sl, l, 0, {}, most), Chain(table, sl[s].start) \subseteq W,
           \A b \in W : b \in Chain(table, sl[s].start) \/ table[b] = FREE
    PROVE  Apart(table, sl, l, s, W, most) /\ NewName(sl, l, s, sl[s].name)
<1>1. Others(sl, l, s) \subseteq Others(sl, l, 0)
  BY DEF Others
<1>2. Others(sl, l, 0) = Others(sl, l, s) \union {s}
  BY DEF Others
<1>3. ASSUME NEW t \in Others(sl, l, s) PROVE Keeps(table, sl[t], W)
  <2>1. Keeps(table, sl[t], {}) /\ Differ(table, sl[t], sl[s])
    BY <1>1 DEF Apart, Others
  <2>2. PICK p, n : Follows(table, sl[t].start, p, n)
    BY <2>1 DEF Keeps, EndsAt
  <2>3. \A b \in Chain(table, sl[t].start) : table[b] # FREE
    BY <2>2, FollowedTaken
  <2>. QED BY <2>1, <2>3 DEF Keeps, Differ
<1>4. Lost(table, sl, l, s, W) \subseteq Lost(table, sl, l, 0, {})
  BY <1>2 DEF Lost
<1>5. Cardinality(Lost(table, sl, l, s, W)) <= most
  BY <1>4, LostFinite, FS_Subset DEF Apart
<1>6. sl[s].name \in Files /\ \A t \in Others(sl, l, s) : sl[t].name # sl[s].name
  BY <1>1, <1>2 DEF Apart, Keeps, Differ, Others
<1>. QED BY <1>1, <1>3, <1>5, <1>6 DEF Apart, NewName

\* A call that sets out with a free block, to create a file at s.
LEMMA SetAside ==
    ASSUME NEW table, NEW sl, NEW l, NEW s, NEW b, NEW most \in Nat,
           Apart(table, sl, l, 0, {}, most), s \notin Others(sl, l, 0), table[b] = FREE
    PROVE  Apart(table, sl, l, s, {b}, most)
<1>1. Others(sl, l, s) = Others(sl, l, 0)
  BY DEF Others
<1>2. ASSUME NEW t \in Others(sl, l, s) PROVE Keeps(table, sl[t], {b})
  <2>1. Keeps(table, sl[t], {})
    BY <1>1 DEF Apart
  <2>2. PICK p, n : Follows(table, sl[t].start, p, n)
    BY <2>1 DEF Keeps, EndsAt
  <2>3. \A a \in Chain(table, sl[t].start) : table[a] # FREE
    BY <2>2, FollowedTaken
  <2>. QED BY <2>1, <2>3 DEF Keeps
<1>3. Lost(table, sl, l, s, {b}) = Lost(table, sl, l, 0, {})
  BY <1>1 DEF Lost
<1>. QED BY <1>1, <1>2, <1>3 DEF Apart

-----------------------------------------------------------------------------
(* The invariant.                                                          *)

\* A call to create that has found the place for its entry e, with e.start for its block.
Creating(table, l, s, e, mine, writes) ==
    LET mark == Mark(e.start, FINAL)
        save == Save(s, e)
    IN  \/ /\ mine.start = FREE \/ s = l + 1
           /\ \/ /\ table[e.start] = FREE
                 /\ \/ s <= l /\ writes = <<mark, save, mark, save>>
                    \/ s = l + 1 /\ writes = <<mark, save, Lengthen, mark, save>>
              \/ /\ table[e.start] = FINAL
                 /\ \/ s <= l /\ writes = <<save, mark, save>>
                    \/ s = l + 1 /\ writes = <<save, Lengthen, mark, save>>
        \/ /\ mine = e /\ table[e.start] = FINAL
           /\ \/ s = l + 1 /\ writes = <<Lengthen, mark, save>>
              \/ s <= l /\ writes \in {<<mark, save>>, <<save>>, <<>>}

\* The entry create makes.
NewEntry(name, b) == [name |-> name, start |-> b, length |-> 0]

\* create, under way: with the block b, for an entry at s.
CreateStage(s, b) ==
    /\ s \in Slots /\ b \in DataBlocks
    /\ Apart(fat, slots, listed, s, {b}, cuts)
    /\ NewName(slots, listed, s, call.name)
    /\ Creating(fat, listed, s, NewEntry(call.name, b), slots[s], todo)

\* No room for the longer directory: the block is taken and given back.
NoRoom(b) ==
    /\ b \in DataBlocks
    /\ Apart(fat, slots, listed, 0, {b}, cuts)
    /\ \/ fat[b] = FREE /\ todo = <<Mark(b, FINAL), Mark(b, FREE)>>
       \/ fat[b] = FINAL /\ todo = <<Mark(b, FREE)>>
       \/ fat[b] = FREE /\ todo = <<>>

\* A call on the file at s, under way.
FileStage(s, c, n) ==
    /\ s \in 1 .. listed /\ Row(c, n)
    /\ Apart(fat, slots, listed, s, Members(c, n), cuts)
    /\ NewName(slots, listed, s, slots[s].name)
    /\ Stage(fat, c, n, s, slots[s], todo)

\* A call is under way.
Busy ==
    IF call.op = "create"
    THEN (\E s, b : CreateStage(s, b)) \/ (\E b : NoRoom(b))
    ELSE \E s, c, n : FileStage(s, c, n)

\* No two files share a block.
Disjoint ==
    \A s, t \in {u \in Slots : Taken(u)} :
        s # t => Chain(fat, slots[s].start) \cap Chain(fat, slots[t].start) = {}

\* No call is under way; where nothing is damaged every file is in order.
Resting ==
    /\ todo = <<>>
    /\ Disjoint
    /\ Undamaged => Apart(fat, slots, listed, 0, {}, cuts)

\* The types; the marks on the blocks of the table keep them from being taken.
Types ==
    /\ fat \in [Blocks -> Links] /\ \A b \in 0 .. FatBlocks : fat[b] # FREE
    /\ slots \in [Slots -> Entry]
    /\ listed \in 0 .. Cardinality(Files)
    /\ cuts \in Nat
    /\ \E S : todo \in Seq(S)

\* The inductive invariant.
IInv == Types /\ IF Idle THEN Resting ELSE Busy

-----------------------------------------------------------------------------
(* What holds wherever a call may be cut off.                              *)

\* There are as many slots as files.
LEMMA FilesCounted == Cardinality(Files) \in Nat /\ Slots = 1 .. Cardinality(Files)
BY FilesAssumption, FS_CardinalityType DEF Slots

\* An entry in order is sound.
LEMMA KeepsSound ==
    ASSUME NEW e, NEW W, Keeps(fat, e, W) PROVE Sound(e) /\ fat[e.start] # FREE
<1>1. PICK p, n : Follows(fat, e.start, p, n)
  BY DEF Keeps, EndsAt
<1>2. /\ \A b \in Chain(fat, e.start) : b \in DataBlocks /\ fat[b] # FREE
                                       /\ (fat[b] = FINAL \/ fat[b] \in Chain(fat, e.start))
      /\ e.start \in Chain(fat, e.start)
  <2>1. 1 \in 1 .. n /\ p[1] = e.start
    BY <1>1 DEF Follows
  <2>. QED BY <1>1, <2>1, FollowedTaken, FollowedChain
<1>. QED BY <1>2 DEF Sound, Keeps

\* A file with one block.
LEMMA OneBlock ==
    ASSUME NEW b \in DataBlocks, fat[b] = FINAL, NEW name \in Files
    PROVE  Keeps(fat, NewEntry(name, b), {}) /\ Chain(fat, b) = {b}
<1>. DEFINE p == [i \in 1 .. 1 |-> b]
<1>1. Follows(fat, b, p, 1)
  BY DEF Follows
<1>2. {p[i] : i \in 1 .. 1} = {b}
  OBVIOUS
<1>. HIDE DEF p
<1>3. Chain(fat, b) = {b} /\ Cardinality(Chain(fat, b)) = 1
  BY <1>1, <1>2, FollowedChain
<1>4. BlocksFor(0) = 0
  BY FilesAssumption DEF BlocksFor
<1>. QED BY <1>1, <1>3, <1>4 DEF Keeps, EndsAt, NewEntry

\* What is lost may be counted generously.
LEMMA ApartMore ==
    ASSUME NEW table, NEW sl, NEW l, NEW s, NEW W, NEW most \in Nat, Apart(table, sl, l, s, W, most)
    PROVE  Apart(table, sl, l, s, W, most + 1)
<1>1. Cardinality(Lost(table, sl, l, s, W)) \in Nat
  BY LostFinite
<1>2. Cardinality(Lost(table, sl, l, s, W)) <= most + 1
  BY <1>1 DEF Apart
<1>. QED BY <1>2 DEF Apart

\* Where the others are in order and the file at s has blocks of W only, none are shared.
LEMMA ApartDisjoint ==
    ASSUME Types, NEW s, NEW W, NEW most, Apart(fat, slots, listed, s, W, most),
           s \in Others(slots, listed, 0) => Chain(fat, slots[s].start) \subseteq W
    PROVE  Disjoint
<1>1. SUFFICES ASSUME NEW t \in Slots, NEW u \in Slots, Taken(t), Taken(u), t # u
               PROVE  Chain(fat, slots[t].start) \cap Chain(fat, slots[u].start) = {}
  BY DEF Disjoint
<1>2. t \in Others(slots, listed, 0) /\ u \in Others(slots, listed, 0)
  <2>1. listed \in Nat /\ t \in Nat \ {0} /\ u \in Nat \ {0}
    BY <1>1, FilesCounted DEF Types
  <2>. QED BY <1>1, <2>1 DEF Others, Taken
<1>3. t = s \/ t \in Others(slots, listed, s)
  BY <1>2 DEF Others
<1>4. u = s \/ u \in Others(slots, listed, s)
  BY <1>2 DEF Others
<1>. QED BY <1>1, <1>2, <1>3, <1>4 DEF Apart, Keeps, Differ

\* Where the others are in order and the file at s is sound, nothing is damaged.
LEMMA ApartSound ==
    ASSUME NEW s, NEW W, NEW most, Apart(fat, slots, listed, s, W, most),
           s \in Others(slots, listed, 0) => Sound(slots[s])
    PROVE  Undamaged
<1>1. SUFFICES ASSUME NEW t \in 1 .. listed, slots[t].start # FREE PROVE Sound(slots[t])
  BY DEF Undamaged, Sound
<1>2. CASE t = s
  BY <1>1, <1>2 DEF Others
<1>3. CASE t # s
  BY <1>1, <1>3, KeepsSound DEF Apart, Others
<1>. QED BY <1>2, <1>3

\* The chain of the file a call is about stays in the row.
LEMMA RowChain ==
    ASSUME NEW table, NEW c, NEW n, Row(c, n), Inside(table, c, n)
    PROVE  Chain(table, c[1]) \subseteq Members(c, n)
<1>1. c[1] \in Members(c, n) /\ Members(c, n) \subseteq DataBlocks
  BY DEF Row, Members
<1>2. Closed(table, Members(c, n))
  <2>1. \A b \in Members(c, n) : table[b] \in Members(c, n) \union {FREE, FINAL}
    BY DEF Inside, Members
  <2>. QED BY <2>1, DataAreBlocks DEF Closed
<1>. QED BY <1>1, <1>2 DEF Chain

\* As far as its blocks are linked, they are on the chain.
LEMMA RowReach ==
    ASSUME NEW table, NEW c, NEW n, Row(c, n), NEW r \in 1 .. n, Linked(table, c, 1, r)
    PROVE  c[r] \in Chain(table, c[1])
<1>0. n \in Nat /\ \A i \in 1 .. n : c[i] \in DataBlocks
  BY DEF Row
<1>1. SUFFICES ASSUME NEW T \in SUBSET DataBlocks, c[1] \in T, Closed(table, T) PROVE c[r] \in T
  BY <1>0 DEF Chain
<1>. DEFINE S == {k \in Nat : k < r => c[k + 1] \in T}
<1>2. 0 \in S
  BY <1>1
<1>3. ASSUME NEW k \in Nat, k \in S PROVE k + 1 \in S
  <2>1. SUFFICES ASSUME k + 1 < r PROVE c[(k + 1) + 1] \in T
    OBVIOUS
  <2>2. k < r /\ k + 1 \in 1 .. r - 1 /\ (k + 1) + 1 \in 1 .. n
    BY <1>0, <2>1
  <2>3. c[k + 1] \in T /\ table[c[k + 1]] = c[(k + 1) + 1]
    BY <1>3, <2>2 DEF Linked
  <2>. QED BY <1>0, <1>1, <2>2, <2>3 DEF Closed
<1>4. Nat \subseteq S
  <2>. HIDE DEF S
  <2>. QED BY <1>2, <1>3, SetInduction
<1>5. r - 1 \in Nat /\ r - 1 \in S /\ r - 1 < r /\ (r - 1) + 1 = r
  BY <1>0, <1>4
<1>. QED BY <1>5

\* Nowhere in a call about a file do two files share a block.
LEMMA FileDisjoint ==
    ASSUME Types, NEW s, NEW c, NEW n, FileStage(s, c, n) PROVE Disjoint
<1>1. Row(c, n) /\ Shape(fat, c, n, slots[s])
  BY StageShape DEF FileStage
<1>2. s \in Others(slots, listed, 0) => Chain(fat, slots[s].start) \subseteq Members(c, n)
  BY <1>1, RowChain DEF Shape, Others
<1>. QED BY <1>2, ApartDisjoint DEF FileStage

\* A call about a file that stops where no entry is damaged has lost nothing.
LEMMA FileCalm ==
    ASSUME Types, Undamaged, NEW s, NEW c, NEW n, FileStage(s, c, n)
    PROVE  Apart(fat, slots, listed, 0, {}, cuts)
<1>1. Row(c, n) /\ Shape(fat, c, n, slots[s]) /\ s \in 1 .. listed /\ cuts \in Nat
  BY StageShape DEF FileStage, Types
<1>2. /\ Apart(fat, slots, listed, s, Members(c, n), cuts)
      /\ NewName(slots, listed, s, slots[s].name)
  BY DEF FileStage
<1>3. CASE slots[s].start = FREE
  <2>1. c[1] # FREE
    BY <1>1, DataAreBlocks DEF Row
  <2>2. \A b \in Members(c, n) : fat[b] = FREE
    BY <1>1, <1>3, <2>1 DEF Shape, Freed, Members
  <2>3. s \notin Others(slots, listed, 0)
    BY <1>3 DEF Others
  <2>. QED BY <1>1, <1>2, <2>2, <2>3, Dropped
<1>4. CASE slots[s].start # FREE
  <2>1. slots[s].start = c[1] /\ Sound(slots[s])
    BY <1>1, <1>4 DEF Shape, Undamaged
  <2>2. ~Broken(fat, c, n)
    <3>1. SUFFICES ASSUME NEW r \in 1 .. n, Linked(fat, c, 1, r), fat[c[r]] = FREE PROVE FALSE
      BY DEF Broken
    <3>2. c[r] \in Chain(fat, slots[s].start)
      BY <1>1, <2>1, <3>1, RowReach
    <3>3. FREE # FINAL
      BY DEF FREE, FINAL
    <3>. QED BY <1>4, <2>1, <3>1, <3>2, <3>3, DataAreBlocks DEF Sound
  <2>3. PICK a \in 1 .. n : Whole(fat, c, n, a)
    BY <1>1, <1>4, <2>2 DEF Shape
  <2>. DEFINE p == [i \in 1 .. a |-> c[i]]
  <2>4. Follows(fat, slots[s].start, p, a)
    <3>1. n \in Nat \ {0} /\ a \in Nat \ {0} /\ \A i \in 1 .. a : i \in 1 .. n
      BY <1>1 DEF Row
    <3>2. \A i \in 1 .. a - 1 : i \in 1 .. a /\ i + 1 \in 1 .. a
      BY <3>1
    <3>3. p \in [1 .. a -> DataBlocks] /\ 1 \in 1 .. a /\ a \in 1 .. a
      BY <1>1, <3>1 DEF Row
    <3>. QED BY <1>1, <2>1, <2>3, <3>1, <3>2, <3>3 DEF Follows, Whole, Linked, Row
  <2>5. Chain(fat, slots[s].start) = {c[i] : i \in 1 .. a}
    <3>1. {p[i] : i \in 1 .. a} = {c[i] : i \in 1 .. a}
      OBVIOUS
    <3>. HIDE DEF p
    <3>. QED BY <2>4, <3>1, FollowedChain
  <2>. HIDE DEF p
  <2>6. Keeps(fat, slots[s], {})
    BY <1>2, <1>4, <2>1, <2>4 DEF Keeps, EndsAt, Sound, NewName
  <2>7. \A b \in Members(c, n) : b \in Chain(fat, slots[s].start) \/ fat[b] = FREE
    <3>1. \A i \in 1 .. n : i \in 1 .. a \/ i \in a + 1 .. n
      BY <1>1 DEF Row
    <3>. QED BY <2>3, <2>5, <3>1 DEF Members, Whole, Freed
  <2>8. Chain(fat, slots[s].start) \subseteq Members(c, n)
    BY <1>1, <2>1, RowChain DEF Shape
  <2>. QED BY <1>1, <1>2, <2>6, <2>7, <2>8, Joined
<1>. QED BY <1>3, <1>4

\* A call to create has put its entry there with its block, or has not put it there.
LEMMA CreatePoint ==
    ASSUME Types, NEW s, NEW b, CreateStage(s, b)
    PROVE  \/ s \notin Others(slots, listed, 0)
           \/ /\ s \in 1 .. listed /\ slots[s] = NewEntry(call.name, b)
              /\ Keeps(fat, slots[s], {}) /\ Chain(fat, slots[s].start) = {b}
<1>1. s \in 1 .. Cardinality(Files) /\ b \in DataBlocks /\ call.name \in Files /\ listed \in Nat
  BY FilesCounted DEF CreateStage, NewName, Types
<1>2. NewEntry(call.name, b).start = b
  BY DEF NewEntry
<1>3. CASE slots[s].start = FREE \/ s = listed + 1
  BY <1>1, <1>3 DEF Others
<1>4. CASE s <= listed /\ slots[s] = NewEntry(call.name, b) /\ fat[b] = FINAL
  <2>1. Keeps(fat, NewEntry(call.name, b), {}) /\ Chain(fat, b) = {b}
    BY <1>1, <1>4, OneBlock
  <2>. QED BY <1>1, <1>2, <1>4, <2>1
<1>. QED BY <1>2, <1>3, <1>4 DEF CreateStage, Creating

\* A call to create that has nothing left to write has placed its entry.
LEMMA CreatingEnds ==
    ASSUME NEW table, NEW l, NEW s, NEW e, NEW mine, Creating(table, l, s, e, mine, <<>>)
    PROVE  s <= l /\ mine = e
<1>1. /\ \A x : <<x>> # <<>>
      /\ \A x, y : <<x, y>> # <<>>
      /\ \A x, y, z : <<x, y, z>> # <<>>
      /\ \A x, y, z, u : <<x, y, z, u>> # <<>>
      /\ \A x, y, z, u, v : <<x, y, z, u, v>> # <<>>
  OBVIOUS
<1>. QED BY <1>1, Zenon DEF Creating

\* A call to create may stop anywhere: nothing is damaged, and one block is lost at most.
LEMMA CreateCalm ==
    ASSUME Types, Busy, call.op = "create"
    PROVE  /\ Disjoint /\ Undamaged
           /\ Apart(fat, slots, listed, 0, {}, cuts + 1)
           /\ todo = <<>> => Apart(fat, slots, listed, 0, {}, cuts)
<1>0. cuts \in Nat /\ listed \in Nat
  BY FilesCounted DEF Types
<1>1. ASSUME NEW s, NEW b, CreateStage(s, b)
      PROVE  /\ Disjoint /\ Undamaged
             /\ Apart(fat, slots, listed, 0, {}, cuts + 1)
             /\ todo = <<>> => Apart(fat, slots, listed, 0, {}, cuts)
  <2>1. Apart(fat, slots, listed, s, {b}, cuts) /\ NewName(slots, listed, s, call.name)
    BY <1>1 DEF CreateStage
  <2>2. CASE s \notin Others(slots, listed, 0)
    <3>1. Disjoint /\ Undamaged
      BY <2>1, <2>2, ApartDisjoint, ApartSound
    <3>2. Apart(fat, slots, listed, 0, {}, cuts + 1)
      BY <1>0, <2>1, <2>2, LostOne
    <3>3. todo # <<>>
      <4>1. s \in Nat \ {0} /\ b \in DataBlocks
        BY <1>1, FilesCounted DEF CreateStage
      <4>2. ~(slots[s] = NewEntry(call.name, b) /\ s <= listed)
        BY <1>0, <2>2, <4>1, DataAreBlocks DEF Others, NewEntry
      <4>. QED BY <1>1, <4>2, CreatingEnds DEF CreateStage
    <3>. QED BY <3>1, <3>2, <3>3
  <2>3. CASE /\ s \in 1 .. listed /\ slots[s] = NewEntry(call.name, b)
             /\ Keeps(fat, slots[s], {}) /\ Chain(fat, slots[s].start) = {b}
    <3>1. Sound(slots[s])
      BY <2>3, KeepsSound
    <3>2. Disjoint /\ Undamaged
      BY <2>1, <2>3, <3>1, ApartDisjoint, ApartSound
    <3>3. NewName(slots, listed, s, slots[s].name)
      BY <2>1, <2>3 DEF NewEntry
    <3>4. Apart(fat, slots, listed, 0, {}, cuts)
      BY <1>0, <2>1, <2>3, <3>3, Joined
    <3>. QED BY <1>0, <3>2, <3>4, ApartMore
  <2>. QED BY <1>1, <2>2, <2>3, CreatePoint
<1>2. ASSUME NEW b, NoRoom(b)
      PROVE  /\ Disjoint /\ Undamaged
             /\ Apart(fat, slots, listed, 0, {}, cuts + 1)
             /\ todo = <<>> => Apart(fat, slots, listed, 0, {}, cuts)
  <2>1. Apart(fat, slots, listed, 0, {b}, cuts) /\ 0 \notin Others(slots, listed, 0)
    BY <1>2 DEF NoRoom, Others
  <2>2. Disjoint /\ Undamaged
    BY <2>1, ApartDisjoint, ApartSound
  <2>3. Apart(fat, slots, listed, 0, {}, cuts + 1)
    BY <1>0, <2>1, LostOne
  <2>4. ASSUME todo = <<>> PROVE fat[b] = FREE
    BY <1>2, <2>4 DEF NoRoom
  <2>5. todo = <<>> => Apart(fat, slots, listed, 0, {}, cuts)
    BY <1>0, <2>1, <2>4, Dropped
  <2>. QED BY <2>2, <2>3, <2>5
<1>. QED BY <1>1, <1>2 DEF Busy

\* Nowhere in a call do two files share a block.
LEMMA BusyDisjoint ==
    ASSUME Types, Busy PROVE Disjoint
BY CreateCalm, FileDisjoint DEF Busy

\* What a write of create does to the stage it is at.
LEMMA CreatingStep ==
    ASSUME NEW table \in [Blocks -> Links], NEW l \in Nat, NEW s \in Nat, NEW e, e.start \in Blocks,
           NEW mine, NEW writes, writes # <<>>
    PROVE  Creating(table, l, s, e, mine, writes) =>
           \/ /\ Head(writes) = Mark(e.start, FINAL)
              /\ Creating([table EXCEPT ![e.start] = FINAL], l, s, e, mine, Tail(writes))
           \/ /\ Head(writes) = Save(s, e)
              /\ Creating(table, l, s, e, e, Tail(writes))
           \/ /\ Head(writes) = Lengthen /\ s = l + 1
              /\ Creating(table, l + 1, s, e, mine, Tail(writes))
<1>. DEFINE t == [table EXCEPT ![e.start] = FINAL]
<1>0. t[e.start] = FINAL
  OBVIOUS
<1>1. \A x, y : Head(<<x, y>>) = x /\ Tail(<<x, y>>) = <<y>>
  OBVIOUS
<1>2. \A x : Head(<<x>>) = x /\ Tail(<<x>>) = <<>>
  OBVIOUS
<1>3. \A x, y, z : Head(<<x, y, z>>) = x /\ Tail(<<x, y, z>>) = <<y, z>>
  OBVIOUS
<1>4. \A x, y, z, u : Head(<<x, y, z, u>>) = x /\ Tail(<<x, y, z, u>>) = <<y, z, u>>
  OBVIOUS
<1>5. \A x, y, z, u, v : Head(<<x, y, z, u, v>>) = x /\ Tail(<<x, y, z, u, v>>) = <<y, z, u, v>>
  OBVIOUS
<1>. DEFINE mark == Mark(e.start, FINAL)
            save == Save(s, e)
            Goal == \/ Head(writes) = mark /\ Creating(t, l, s, e, mine, Tail(writes))
                    \/ Head(writes) = save /\ Creating(table, l, s, e, e, Tail(writes))
                    \/ Head(writes) = Lengthen /\ s = l + 1 /\ Creating(table, l + 1, s, e, mine, Tail(writes))
<1>. HIDE DEF t
<1>6. ASSUME (mine.start = FREE \/ s = l + 1) /\ s <= l /\ writes = <<mark, save, mark, save>>
      PROVE  Goal
  <2>1. Creating(t, l, s, e, mine, <<save, mark, save>>)
    BY <1>0, <1>6, Zenon DEF Creating
  <2>. HIDE DEF mark, save
  <2>3. Head(writes) = mark /\ Tail(writes) = <<save, mark, save>>
    BY <1>4, <1>6
  <2>. QED BY <1>6, <2>1, <2>3, Zenon
<1>7. ASSUME s = l + 1 /\ writes = <<mark, save, Lengthen, mark, save>>
      PROVE  Goal
  <2>1. Creating(t, l, s, e, mine, <<save, Lengthen, mark, save>>)
    BY <1>0, <1>7, Zenon DEF Creating
  <2>. HIDE DEF mark, save
  <2>3. Head(writes) = mark /\ Tail(writes) = <<save, Lengthen, mark, save>>
    BY <1>5, <1>7
  <2>. QED BY <1>7, <2>1, <2>3, Zenon
<1>8. ASSUME s <= l /\ table[e.start] = FINAL /\ writes = <<save, mark, save>>
      PROVE  Goal
  <2>1. Creating(table, l, s, e, e, <<mark, save>>)
    BY <1>8, Zenon DEF Creating
  <2>. HIDE DEF mark, save
  <2>3. Head(writes) = save /\ Tail(writes) = <<mark, save>>
    BY <1>3, <1>8
  <2>. QED BY <1>8, <2>1, <2>3, Zenon
<1>9. ASSUME s = l + 1 /\ table[e.start] = FINAL /\ writes = <<save, Lengthen, mark, save>>
      PROVE  Goal
  <2>1. Creating(table, l, s, e, e, <<Lengthen, mark, save>>)
    BY <1>9, Zenon DEF Creating
  <2>. HIDE DEF mark, save
  <2>3. Head(writes) = save /\ Tail(writes) = <<Lengthen, mark, save>>
    BY <1>4, <1>9
  <2>. QED BY <1>9, <2>1, <2>3, Zenon
<1>10. ASSUME s = l + 1 /\ mine = e /\ table[e.start] = FINAL /\ writes = <<Lengthen, mark, save>>
      PROVE  Goal
  <2>1. s <= l + 1
    BY <1>10
  <2>2. Creating(table, l + 1, s, e, mine, <<mark, save>>)
    BY <1>10, <2>1, Zenon DEF Creating
  <2>. HIDE DEF mark, save
  <2>3. Head(writes) = Lengthen /\ Tail(writes) = <<mark, save>>
    BY <1>3, <1>10
  <2>. QED BY <1>10, <2>2, <2>3, Zenon
<1>11. ASSUME s <= l /\ mine = e /\ table[e.start] = FINAL /\ writes = <<mark, save>>
      PROVE  Goal
  <2>1. Creating(t, l, s, e, mine, <<save>>)
    BY <1>0, <1>11, Zenon DEF Creating
  <2>. HIDE DEF mark, save
  <2>3. Head(writes) = mark /\ Tail(writes) = <<save>>
    BY <1>1, <1>11
  <2>. QED BY <1>11, <2>1, <2>3, Zenon
<1>12. ASSUME s <= l /\ mine = e /\ table[e.start] = FINAL /\ writes = <<save>>
      PROVE  Goal
  <2>1. Creating(table, l, s, e, e, <<>>)
    BY <1>12, Zenon DEF Creating
  <2>. HIDE DEF mark, save
  <2>3. Head(writes) = save /\ Tail(writes) = <<>>
    BY <1>2, <1>12
  <2>. QED BY <1>12, <2>1, <2>3, Zenon
<1>13. ASSUME Creating(table, l, s, e, mine, writes) PROVE Goal
  <2>1. \/ (mine.start = FREE \/ s = l + 1) /\ s <= l /\ writes = <<mark, save, mark, save>>
        \/ s = l + 1 /\ writes = <<mark, save, Lengthen, mark, save>>
        \/ (mine.start = FREE \/ s = l + 1) /\ table[e.start] = FINAL
           /\ \/ s <= l /\ writes = <<save, mark, save>>
              \/ s = l + 1 /\ writes = <<save, Lengthen, mark, save>>
        \/ mine = e /\ table[e.start] = FINAL
           /\ \/ s = l + 1 /\ writes = <<Lengthen, mark, save>>
              \/ s <= l /\ writes \in {<<mark, save>>, <<save>>, <<>>}
    BY <1>13, Zenon DEF Creating
  <2>. HIDE DEF Goal, mark, save
  <2>2. writes \in {<<mark, save>>, <<save>>, <<>>} => writes = <<mark, save>> \/ writes = <<save>>
    OBVIOUS
  <2>. QED BY <2>1, <2>2, <1>6, <1>7, <1>8, <1>9, <1>10, <1>11, <1>12, Zenon
<1>. QED BY <1>13 DEF t

-----------------------------------------------------------------------------
(* Writes, the end of a call, and a power cut.                             *)

\* A write takes the first of the writes to do.
LEMMA WriteOnwards ==
    ASSUME Types, Write
    PROVE  /\ todo # <<>> /\ todo' = Tail(todo) /\ \E S : todo' \in Seq(S)
           /\ UNCHANGED <<call, cuts>>
<1>1. todo # <<>> /\ todo' = Tail(todo) /\ UNCHANGED <<call, cuts>>
  BY DEF Write
<1>2. PICK S : todo \in Seq(S)
  BY DEF Types
<1>3. Tail(todo) \in Seq(S)
  BY <1>1, <1>2, Onwards
<1>. QED BY <1>1, <1>3

\* What a write changes, by what it goes to.
LEMMA WriteEffect ==
    ASSUME Write, NEW w, w = Head(todo)
    PROVE  /\ w.to = "data" => UNCHANGED <<fat, slots, listed>>
           /\ w.to = "slot" => slots' = [slots EXCEPT ![w.slot] = w.entry] /\ UNCHANGED <<fat, listed>>
           /\ w.to = "length" => listed' = listed + 1 /\ UNCHANGED <<fat, slots>>
           /\ w.to = "fat" => fat' = [fat EXCEPT ![w.block] = w.mark] /\ UNCHANGED <<slots, listed>>
BY DEF Write

\* A mark in the data part of the table.
LEMMA MarkedTypes ==
    ASSUME Types, NEW b \in DataBlocks, NEW mark \in DataBlocks \union {FREE, FINAL},
           NEW t, t = [fat EXCEPT ![b] = mark]
    PROVE  t \in [Blocks -> Links] /\ \A a \in 0 .. FatBlocks : t[a] # FREE
<1>1. fat \in [Blocks -> Links] /\ \A a \in 0 .. FatBlocks : fat[a] # FREE /\ a \in Blocks /\ a # b
  BY BlockAssumption DEF Types, Blocks, DataBlocks, RootBlock
<1>2. mark \in Links
  BY DEF Links
<1>. QED BY <1>1, <1>2

\* A write of a call on an existing file.
LEMMA FileWrite ==
    ASSUME Types, Write, NEW s, NEW c, NEW n, FileStage(s, c, n)
    PROVE  Types' /\ FileStage(s, c, n)'
<1>. DEFINE w == Head(todo)
            W == Members(c, n)
<1>1. /\ s \in 1 .. listed /\ s \in Slots /\ listed \in Nat /\ listed <= Cardinality(Files)
      /\ Row(c, n) /\ W \subseteq DataBlocks /\ slots[s] \in Entry
  BY FilesCounted DEF FileStage, Types, Row, Members
<1>2. Stepped(fat, c, n, s, slots[s], w, todo')
  <2>1. PICK S : todo \in Seq(S)
    BY DEF Types
  <2>. QED BY <1>1, <2>1, WriteOnwards, StageStep DEF FileStage, Types
<1>. HIDE DEF w
<1>3. ASSUME (1 .. listed') \ {s} = (1 .. listed) \ {s},
             \A t \in (1 .. listed) \ {s} : slots'[t] = slots[t],
             \A b \in DataBlocks \ W : fat'[b] = fat[b],
             slots'[s].name = slots[s].name, s \in 1 .. listed',
             Stage(fat', c, n, s, slots'[s], todo')
      PROVE  FileStage(s, c, n)'
  <2>. HIDE DEF W
  <2>1. Apart(fat, slots, listed, s, W, cuts) /\ NewName(slots, listed, s, slots'[s].name)
    <3>1. Apart(fat, slots, listed, s, W, cuts) /\ NewName(slots, listed, s, slots[s].name)
      BY DEF FileStage, W
    <3>. QED BY <1>3, <3>1
  <2>. DEFINE name == slots'[s].name
  <2>2. Apart(fat', slots', listed', s, W, cuts) /\ NewName(slots', listed', s, name)
    <3>. HIDE DEF name
    <3>1. /\ (1 .. listed') \ {s} = (1 .. listed) \ {s}
          /\ \A t \in (1 .. listed) \ {s} : slots'[t] = slots[t]
          /\ \A b \in DataBlocks \ W : fat'[b] = fat[b]
      BY <1>3
    <3>2. Apart(fat, slots, listed, s, W, cuts) /\ NewName(slots, listed, s, name)
      BY <2>1 DEF name
    <3>. QED BY <3>1, <3>2, ApartKept
  <2>. QED BY <1>1, <1>3, <2>2, WriteOnwards DEF FileStage, W
<1>4. CASE w.to = "data" /\ Stage(fat, c, n, s, slots[s], todo')
  <2>1. UNCHANGED <<fat, slots, listed>>
    BY <1>4, WriteEffect DEF w
  <2>. QED BY <1>1, <1>3, <1>4, <2>1, WriteOnwards DEF Types
<1>5. CASE /\ w.to = "slot" /\ w.slot = s /\ w.entry \in Entry /\ w.entry.name = slots[s].name
           /\ Stage(fat, c, n, s, w.entry, todo')
  <2>1. slots' = [slots EXCEPT ![s] = w.entry] /\ UNCHANGED <<fat, listed>>
    BY <1>5, WriteEffect DEF w
  <2>2. slots' \in [Slots -> Entry] /\ slots'[s] = w.entry /\ \A t \in 1 .. listed : t # s => slots'[t] = slots[t]
    BY <1>1, <1>5, <2>1, FilesCounted DEF Types
  <2>. QED BY <1>1, <1>3, <1>5, <2>1, <2>2, WriteOnwards DEF Types
<1>6. CASE /\ w.to = "fat" /\ w.block \in W /\ w.mark \in W \union {FREE, FINAL}
           /\ Stage([fat EXCEPT ![w.block] = w.mark], c, n, s, slots[s], todo')
  <2>1. fat' = [fat EXCEPT ![w.block] = w.mark] /\ UNCHANGED <<slots, listed>>
    BY <1>6, WriteEffect DEF w
  <2>2. fat' \in [Blocks -> Links] /\ \A a \in 0 .. FatBlocks : fat'[a] # FREE
    <3>1. w.block \in DataBlocks /\ w.mark \in DataBlocks \union {FREE, FINAL}
      BY <1>1, <1>6
    <3>. QED BY <2>1, <3>1, MarkedTypes
  <2>3. \A b \in DataBlocks \ W : fat'[b] = fat[b]
    BY <1>6, <2>1, DataAreBlocks DEF Types
  <2>. QED BY <1>1, <1>3, <1>6, <2>1, <2>2, <2>3, WriteOnwards DEF Types
<1>. QED BY <1>2, <1>4, <1>5, <1>6 DEF Stepped

\* A step that is about the entry at s and the blocks of W only.
OnlyAbout(s, W) ==
    /\ (1 .. listed') \ {s} = (1 .. listed) \ {s}
    /\ \A t \in (1 .. listed) \ {s} : slots'[t] = slots[t]
    /\ \A a \in DataBlocks \ W : fat'[a] = fat[a]

\* A write of create.
LEMMA CreateWrite ==
    ASSUME Types, Write, NEW s, NEW b, CreateStage(s, b)
    PROVE  Types' /\ CreateStage(s, b)' /\ OnlyAbout(s, {b}) /\ Head(todo).to # "data"
<1>. DEFINE w == Head(todo)
            e == NewEntry(call.name, b)
<1>1. /\ s \in Slots /\ s \in Nat \ {0} /\ s <= Cardinality(Files) /\ listed \in Nat
      /\ b \in DataBlocks /\ call.name \in Files
  BY FilesCounted DEF CreateStage, Types, NewName
<1>2. e \in Entry /\ e.start = b
  BY <1>1 DEF NewEntry, Entry
<1>. HIDE DEF w, e
<1>3. ASSUME (1 .. listed') \ {s} = (1 .. listed) \ {s},
             \A t \in (1 .. listed) \ {s} : slots'[t] = slots[t],
             \A a \in DataBlocks \ {b} : fat'[a] = fat[a],
             Creating(fat', listed', s, e, slots'[s], todo')
      PROVE  CreateStage(s, b)' /\ OnlyAbout(s, {b})
  <2>1. Apart(fat, slots, listed, s, {b}, cuts) /\ NewName(slots, listed, s, call.name)
    BY DEF CreateStage
  <2>2. Apart(fat', slots', listed', s, {b}, cuts) /\ NewName(slots', listed', s, call.name)
    BY <1>3, <2>1, ApartKept
  <2>. QED BY <1>1, <1>3, <2>2, WriteOnwards DEF CreateStage, OnlyAbout, e
<1>4. ASSUME w = Mark(b, FINAL), Creating([fat EXCEPT ![b] = FINAL], listed, s, e, slots[s], todo')
      PROVE  Types' /\ CreateStage(s, b)' /\ OnlyAbout(s, {b})
  <2>1. fat' = [fat EXCEPT ![b] = FINAL] /\ UNCHANGED <<slots, listed>>
    <3>1. w.to = "fat" /\ w.block = b /\ w.mark = FINAL
      BY <1>4 DEF Mark
    <3>. QED BY <3>1, WriteEffect DEF w
  <2>2. fat' \in [Blocks -> Links] /\ \A a \in 0 .. FatBlocks : fat'[a] # FREE
    BY <1>1, <2>1, MarkedTypes
  <2>3. \A a \in DataBlocks \ {b} : fat'[a] = fat[a]
    BY <2>1, DataAreBlocks DEF Types
  <2>. QED BY <1>1, <1>3, <1>4, <2>1, <2>2, <2>3, WriteOnwards DEF Types
<1>5. ASSUME w = Save(s, e), Creating(fat, listed, s, e, e, todo')
      PROVE  Types' /\ CreateStage(s, b)' /\ OnlyAbout(s, {b})
  <2>1. slots' = [slots EXCEPT ![s] = e] /\ UNCHANGED <<fat, listed>>
    <3>1. w.to = "slot" /\ w.slot = s /\ w.entry = e
      BY <1>5 DEF Save
    <3>. QED BY <3>1, WriteEffect DEF w
  <2>2. slots' \in [Slots -> Entry] /\ slots'[s] = e /\ \A t \in 1 .. listed : t # s => slots'[t] = slots[t]
    <3>1. \A t \in 1 .. listed : t \in Slots
      BY FilesCounted DEF Types
    <3>. QED BY <1>1, <1>2, <2>1, <3>1 DEF Types
  <2>. QED BY <1>1, <1>3, <1>5, <2>1, <2>2, WriteOnwards DEF Types
<1>6. ASSUME w = Lengthen, s = listed + 1, Creating(fat, listed + 1, s, e, slots[s], todo')
      PROVE  Types' /\ CreateStage(s, b)' /\ OnlyAbout(s, {b})
  <2>1. listed' = listed + 1 /\ UNCHANGED <<fat, slots>>
    <3>1. w.to = "length"
      BY <1>6 DEF Lengthen
    <3>. QED BY <3>1, WriteEffect DEF w
  <2>2. (1 .. listed') \ {s} = (1 .. listed) \ {s} /\ listed' \in 0 .. Cardinality(Files)
    BY <1>1, <1>6, <2>1, FilesCounted
  <2>. QED BY <1>1, <1>3, <1>6, <2>1, <2>2, WriteOnwards DEF Types
<1>7. \/ w = Mark(b, FINAL) /\ Creating([fat EXCEPT ![b] = FINAL], listed, s, e, slots[s], todo')
      \/ w = Save(s, e) /\ Creating(fat, listed, s, e, e, todo')
      \/ w = Lengthen /\ s = listed + 1 /\ Creating(fat, listed + 1, s, e, slots[s], todo')
  <2>1. fat \in [Blocks -> Links] /\ b \in Blocks
    BY <1>1, DataAreBlocks DEF Types
  <2>2. Creating(fat, listed, s, e, slots[s], todo) /\ s \in Nat
    BY <1>1 DEF CreateStage, e
  <2>3. listed \in Nat /\ e.start \in Blocks /\ e.start = b /\ todo # <<>> /\ todo' = Tail(todo)
    BY <1>1, <1>2, <2>1, WriteOnwards
  <2>4. \/ Head(todo) = Mark(e.start, FINAL)
           /\ Creating([fat EXCEPT ![e.start] = FINAL], listed, s, e, slots[s], Tail(todo))
        \/ Head(todo) = Save(s, e) /\ Creating(fat, listed, s, e, e, Tail(todo))
        \/ Head(todo) = Lengthen /\ s = listed + 1
           /\ Creating(fat, listed + 1, s, e, slots[s], Tail(todo))
    BY <2>1, <2>2, <2>3, CreatingStep, Zenon
  <2>. QED BY <2>3, <2>4, Zenon DEF w
<1>8. w.to # "data"
  BY <1>7 DEF Mark, Save, Lengthen
<1>. QED BY <1>4, <1>5, <1>6, <1>7, <1>8 DEF w

\* A write of create where there is no room.
LEMMA NoRoomWrite ==
    ASSUME Types, Write, NEW b, NoRoom(b)
    PROVE  Types' /\ NoRoom(b)' /\ OnlyAbout(0, {b}) /\ Head(todo).to # "data"
<1>. DEFINE w == Head(todo)
<1>1. b \in DataBlocks /\ b \in Blocks /\ fat \in [Blocks -> Links]
  BY DataAreBlocks DEF NoRoom, Types
<1>2. \/ w = Mark(b, FINAL) /\ todo' = <<Mark(b, FREE)>>
      \/ w = Mark(b, FREE) /\ todo' = <<>>
  <2>1. \A x, y : Head(<<x, y>>) = x /\ Tail(<<x, y>>) = <<y>>
    OBVIOUS
  <2>2. \A x : Head(<<x>>) = x /\ Tail(<<x>>) = <<>>
    OBVIOUS
  <2>. QED BY <2>1, <2>2, WriteOnwards DEF NoRoom
<1>. HIDE DEF w
<1>3. PICK mark \in {FINAL, FREE} : w = Mark(b, mark) /\ todo' = IF mark = FINAL THEN <<Mark(b, FREE)>> ELSE <<>>
  <2>1. FINAL # FREE
    BY DEF FINAL, FREE
  <2>. QED BY <1>2, <2>1
<1>4. fat' = [fat EXCEPT ![b] = mark] /\ UNCHANGED <<slots, listed>>
  <2>1. w.to = "fat" /\ w.block = b /\ w.mark = mark
    BY <1>3 DEF Mark
  <2>. QED BY <2>1, WriteEffect DEF w
<1>5. fat' \in [Blocks -> Links] /\ \A a \in 0 .. FatBlocks : fat'[a] # FREE
  BY <1>1, <1>4, MarkedTypes
<1>6. Apart(fat', slots, listed, 0, {b}, cuts)
  <2>1. \A a \in DataBlocks \ {b} : fat'[a] = fat[a]
    BY <1>1, <1>4, DataAreBlocks
  <2>2. Apart(fat, slots, listed, 0, {b}, cuts)
    BY DEF NoRoom
  <2>. QED BY <2>1, <2>2, ApartKept
<1>7. fat'[b] = mark
  BY <1>1, <1>4
<1>8. NoRoom(b)'
  BY <1>1, <1>3, <1>4, <1>6, <1>7, WriteOnwards DEF NoRoom
<1>9. OnlyAbout(0, {b}) /\ w.to # "data"
  BY <1>1, <1>3, <1>4, DataAreBlocks DEF OnlyAbout, Mark
<1>. QED BY <1>4, <1>5, <1>8, <1>9, WriteOnwards DEF Types, w

\* Whichever write it is.
LEMMA WriteStep ==
    ASSUME IInv, Write PROVE IInv'
<1>1. Types /\ Busy /\ ~Idle
  BY DEF IInv, Resting, Write
<1>2. Types' /\ Busy'
  BY <1>1, FileWrite, CreateWrite, NoRoomWrite, WriteOnwards DEF Busy
<1>3. ~Idle'
  BY <1>1, WriteOnwards DEF Idle
<1>. QED BY <1>2, <1>3 DEF IInv

\* A call that has made its writes leaves everything in order.
LEMMA ReturnStep ==
    ASSUME IInv, Return PROVE IInv'
<1>1. Types /\ Busy /\ todo = <<>>
  BY DEF IInv, Return
<1>2. Disjoint /\ (Undamaged => Apart(fat, slots, listed, 0, {}, cuts))
  BY <1>1, BusyDisjoint, CreateCalm, FileCalm DEF Busy
<1>3. UNCHANGED <<fat, slots, listed, todo, cuts>> /\ Idle'
  BY DEF Return, Idle
<1>4. Disjoint' /\ (Undamaged' => Undamaged)
  BY <1>2, <1>3 DEF Disjoint, Taken, Undamaged, Sound
<1>. QED BY <1>1, <1>2, <1>3, <1>4 DEF IInv, Types, Resting

\* One that is cut off loses one block at most, where nothing is damaged.
LEMMA PowerCutStep ==
    ASSUME IInv, PowerCut PROVE IInv'
<1>1. Types /\ Busy /\ cuts \in Nat
  BY DEF IInv, PowerCut, Types
<1>2. Disjoint /\ (Undamaged => Apart(fat, slots, listed, 0, {}, cuts + 1))
  BY <1>1, BusyDisjoint, CreateCalm, FileCalm, ApartMore DEF Busy
<1>3. UNCHANGED <<fat, slots, listed>> /\ todo' = <<>> /\ cuts' = cuts + 1 /\ Idle'
  BY DEF PowerCut, Idle
<1>4. Disjoint' /\ (Undamaged' => Undamaged)
  BY <1>2, <1>3 DEF Disjoint, Taken, Undamaged, Sound
<1>5. <<>> \in Seq({})
  OBVIOUS
<1>. QED BY <1>1, <1>2, <1>3, <1>4, <1>5 DEF IInv, Types, Resting

\* A new file system is in order.
LEMMA InitIInv ==
    ASSUME Init PROVE IInv
<1>1. Types
  <2>1. fat \in [Blocks -> Links] /\ \A b \in 0 .. FatBlocks : fat[b] # FREE
    BY BlockAssumption DEF Init, InitFAT, Links, Blocks, UNUSABLE, FREE, FINAL
  <2>2. slots \in [Slots -> Entry]
    BY DEF Init, NoEntry, Entry
  <2>3. todo \in Seq({})
    BY DEF Init
  <2>. QED BY <2>1, <2>2, <2>3, FilesCounted DEF Init, Types
<1>2. listed = 0 /\ cuts = 0 /\ todo = <<>> /\ Idle
  BY DEF Init, Idle
<1>3. Disjoint
  BY <1>2, FilesCounted DEF Disjoint, Taken
<1>4. Apart(fat, slots, listed, 0, {}, cuts)
  <2>1. Others(slots, listed, 0) = {}
    BY <1>2 DEF Others
  <2>2. Lost(fat, slots, listed, 0, {}) = {}
    <3>1. \A b \in DataBlocks \ {RootBlock} : b \in Blocks /\ ~(b <= FatBlocks)
      BY BlockAssumption DEF DataBlocks, RootBlock, Blocks
    <3>2. \A b \in DataBlocks \ {RootBlock} : fat[b] = FREE
      BY <3>1 DEF Init, InitFAT
    <3>. QED BY <3>2 DEF Lost
  <2>3. Cardinality(Lost(fat, slots, listed, 0, {})) = 0
    BY <2>2, FS_EmptySet
  <2>. QED BY <1>2, <2>1, <2>3 DEF Apart
<1>. QED BY <1>1, <1>2, <1>3, <1>4 DEF IInv, Resting

-----------------------------------------------------------------------------
(* What a call on an existing file sets out with.                          *)

\* Least finds a member, if there is one.
LEMMA LeastOf ==
    ASSUME NEW T, T \subseteq Nat
    PROVE  Least(T) \subseteq T /\ (Least(T) = {} => T = {})
<1>1. T # {} => \E n \in T : \A m \in T : n <= m
  BY LeastNatural
<1>. QED BY <1>1 DEF Least

\* A file that is found is one of those in order.
LEMMA FoundFile ==
    ASSUME Types, NEW name, NEW s \in Found(name)
    PROVE  s \in 1 .. listed /\ s \in Others(slots, listed, 0) /\ slots[s].name = name
<1>1. s \in Slots /\ Taken(s) /\ slots[s].name = name
  <2>. DEFINE T == {t \in Slots : Taken(t) /\ slots[t].name = name}
  <2>1. T \subseteq Nat
    BY FilesCounted
  <2>2. s \in Least(T)
    BY DEF Found
  <2>3. s \in T
    <3>. HIDE DEF T
    <3>. QED BY <2>1, <2>2, LeastOf
  <2>. QED BY <2>3
<1>. QED BY <1>1, FilesCounted DEF Taken, Others, Types

\* The blocks and the writes a call sets out with.
Arranged(c, n, s, writes) ==
    /\ Row(c, n) /\ Chain(fat, slots[s].start) \subseteq Members(c, n)
    /\ \A b \in Members(c, n) : b \in Chain(fat, slots[s].start) \/ fat[b] = FREE
    /\ Stage(fat, c, n, s, slots[s], writes)
    /\ \E S : writes \in Seq(S)

\* A call that sets out so is at a stage.
LEMMA FileSetsOut ==
    ASSUME Types, Resting, Undamaged, NEW name, NEW s \in Found(name), NEW c, NEW n,
           Arranged(c, n, s, todo'), UNCHANGED <<fat, slots, listed, cuts>>
    PROVE  Types' /\ FileStage(s, c, n)'
<1>1. s \in 1 .. listed /\ s \in Others(slots, listed, 0)
  BY FoundFile
<1>2. Apart(fat, slots, listed, 0, {}, cuts) /\ cuts \in Nat
  BY DEF Resting, Types
<1>3. /\ Apart(fat, slots, listed, s, Members(c, n), cuts)
      /\ NewName(slots, listed, s, slots[s].name)
  BY <1>1, <1>2, Parted DEF Arranged
<1>. QED BY <1>1, <1>3 DEF Types, FileStage, Arranged

\* A file in order: the row of its blocks.
LEMMA RowOf ==
    ASSUME NEW table, NEW start, NEW p, NEW n, Follows(table, start, p, n)
    PROVE  /\ Row(p, n) /\ Members(p, n) = Chain(table, start) /\ start = p[1]
           /\ Linked(table, p, 1, n) /\ table[p[n]] = FINAL
<1>1. n \in Nat \ {0}
  BY DEF Follows
<1>2. Members(p, n) = Chain(table, start)
  BY FollowedChain DEF Members
<1>. QED BY <1>1, <1>2 DEF Follows, Row, Linked

\* forget, as marks on the blocks one after another.
LEMMA ForgottenRow ==
    ASSUME Types, NEW start, NEW p, NEW n, Follows(fat, start, p, n)
    PROVE  ForgetWrites(start) = [i \in 1 .. n |-> Mark(p[i], FREE)]
<1>0. n \in Nat
  BY DEF Follows
<1>1. ChainLength(fat, start) = n /\ n \in Nat
  BY <1>0, FollowedChain
<1>2. ASSUME NEW i \in 1 .. n PROVE Hop(fat, start, i - 1) = p[i]
  <2>1. i - 1 \in Nat /\ i - 1 < n /\ (i - 1) + 1 = i
    BY <1>1
  <2>2. fat \in [Blocks -> Links]
    BY DEF Types
  <2>3. Hop(fat, start, i - 1) = IF i - 1 < n THEN p[(i - 1) + 1] ELSE FINAL
    BY <2>1, <2>2, FollowedHop
  <2>. QED BY <2>1, <2>3
<1>. QED BY <1>1, <1>2 DEF ForgetWrites

\* Two runs of writes, one after the other.
LEMMA Joint ==
    ASSUME NEW A, NEW B, NEW x \in Seq(A), NEW y \in Seq(B), NEW w, w = x \o y
    PROVE  /\ w \in Seq(A \union B) /\ Len(w) = Len(x) + Len(y)
           /\ Len(x) \in Nat /\ Len(y) \in Nat
           /\ \A i \in 1 .. Len(x) : w[i] = x[i]
           /\ \A i \in 1 .. Len(y) : w[Len(x) + i] = y[i]
OBVIOUS

\* Runs of writes may be joined in any order.
LEMMA JointTwice ==
    ASSUME NEW A, NEW B, NEW C, NEW x \in Seq(A), NEW y \in Seq(B), NEW z \in Seq(C)
    PROVE  (x \o y) \o z = x \o (y \o z)
<1>1. x \in Seq(A \union B \union C) /\ y \in Seq(A \union B \union C) /\ z \in Seq(A \union B \union C)
  OBVIOUS
<1>. QED BY <1>1, ConcatAssociative

\* Writes that follow on the others and leave the table alone.
LEMMA QuietBehind ==
    ASSUME NEW A, NEW B, NEW x \in Seq(A), NEW y \in Seq(B), NEW w, w = x \o y,
           NEW s, NEW me, QuietFrom(1, s, me, y)
    PROVE  /\ QuietFrom(Len(x) + 1, s, me, w)
           /\ QuietFrom(1, s, me, x) => QuietFrom(1, s, me, w)
<1>0. /\ Len(w) = Len(x) + Len(y) /\ Len(x) \in Nat /\ Len(y) \in Nat
      /\ \A i \in 1 .. Len(x) : w[i] = x[i]
      /\ \A i \in 1 .. Len(y) : w[Len(x) + i] = y[i]
  BY Joint
<1>1. ASSUME NEW j \in Len(x) + 1 .. Len(w) PROVE Quiet(w[j], s, me)
  <2>1. j - Len(x) \in 1 .. Len(y) /\ Len(x) + (j - Len(x)) = j
    BY <1>0, <1>1
  <2>. QED BY <1>0, <2>1 DEF QuietFrom
<1>2. ASSUME QuietFrom(1, s, me, x), NEW j \in 1 .. Len(w) PROVE Quiet(w[j], s, me)
  <2>1. j \in 1 .. Len(x) \/ j \in Len(x) + 1 .. Len(w)
    BY <1>0, <1>2
  <2>. QED BY <1>0, <1>1, <1>2, <2>1 DEF QuietFrom
<1>. QED BY <1>1, <1>2 DEF QuietFrom

\* Whatever is written in one run, of whatever length.
LEMMA RunOfWrites ==
    ASSUME NEW k \in Int, NEW f, f = [i \in 1 .. k |-> f[i]]
    PROVE  f \in Seq({f[i] : i \in 1 .. k}) /\ (k \in Nat => Len(f) = k)
<1>1. CASE k \in Nat
  BY <1>1
<1>2. CASE k \notin Nat
  <2>1. 1 .. k = 1 .. 0
    BY <1>2
  <2>. QED BY <1>2, <2>1
<1>. QED BY <1>1, <1>2

\* A file that holds something needs a block.
LEMMA BlocksForPositive ==
    ASSUME NEW size \in Nat
    PROVE  BlocksFor(size) \in Nat /\ (size > 0 => BlocksFor(size) >= 1)
BY FilesAssumption DEF BlocksFor

\* A call that leaves the chain alone.
LEMMA SettledStart ==
    ASSUME NEW s, NEW p, NEW n, Follows(fat, slots[s].start, p, n),
           NEW B, NEW y \in Seq(B), QuietFrom(1, s, slots[s], y)
    PROVE  Arranged(p, n, s, y)
<1>1. /\ Row(p, n) /\ Members(p, n) = Chain(fat, slots[s].start) /\ slots[s].start = p[1]
      /\ Linked(fat, p, 1, n) /\ fat[p[n]] = FINAL
  BY RowOf
<1>2. n \in 1 .. n /\ Freed(fat, p, n + 1, n)
  BY <1>1 DEF Row, Freed
<1>3. Settled(fat, p, n, s, slots[s], y)
  BY <1>1, <1>2 DEF Settled, Whole
<1>. QED BY <1>1, <1>3 DEF Arranged, Stage

\* A call that frees the whole chain and makes the first block the last one.
LEMMA EmptyingStart ==
    ASSUME Types, NEW s, NEW p, NEW n, Follows(fat, slots[s].start, p, n),
           NEW B, NEW y \in Seq(B), QuietFrom(1, s, slots[s], y)
    PROVE  Arranged(p, n, s, (ForgetWrites(slots[s].start) \o <<Mark(slots[s].start, FINAL)>>) \o y)
<1>. DEFINE me == slots[s]
            x == ForgetWrites(slots[s].start)
            z == <<Mark(slots[s].start, FINAL)>>
            A == {x[i] : i \in 1 .. n}
            both == x \o z
            all == both \o y
<1>. HIDE DEF both, all
<1>1. /\ Row(p, n) /\ Members(p, n) = Chain(fat, me.start) /\ me.start = p[1]
      /\ Linked(fat, p, 1, n) /\ fat[p[n]] = FINAL
  BY RowOf
<1>2. n \in Nat /\ n > 0
  BY <1>1 DEF Row
<1>3. x = [i \in 1 .. n |-> Mark(p[i], FREE)]
  BY ForgottenRow
<1>4. z \in Seq({z[1]}) /\ Len(z) = 1 /\ z[1] = Mark(p[1], FINAL)
  BY <1>1
<1>. HIDE DEF me, x, z
<1>5. x \in Seq(A) /\ Len(x) = n
  <2>1. x = [i \in 1 .. n |-> x[i]]
    BY <1>3
  <2>. QED BY <1>2, <2>1, RunOfWrites
<1>. HIDE DEF A
<1>6. /\ both \in Seq(A \union {z[1]}) /\ Len(both) = n + 1
      /\ \A i \in 1 .. n : both[i] = x[i]
      /\ both[n + 1] = Mark(p[1], FINAL)
  <2>. DEFINE C == {z[1]}
  <2>. HIDE DEF C
  <2>a. x \in Seq(A) /\ z \in Seq(C) /\ both = x \o z
    BY <1>4, <1>5 DEF both, C
  <2>b. /\ both \in Seq(A \union C) /\ Len(both) = Len(x) + Len(z)
        /\ Len(x) \in Nat /\ Len(z) \in Nat
        /\ \A i \in 1 .. Len(x) : both[i] = x[i]
        /\ \A i \in 1 .. Len(z) : both[Len(x) + i] = z[i]
    BY <2>a, Joint
  <2>c. 1 \in 1 .. Len(z)
    BY <1>4
  <2>. QED BY <1>4, <1>5, <2>b, <2>c DEF C
<1>a. all = both \o y
  BY DEF all
<1>7. /\ all \in Seq((A \union {z[1]}) \union B) /\ Len(all) = n + 1 + Len(y) /\ Len(y) \in Nat
      /\ \A i \in 1 .. n + 1 : all[i] = both[i]
  <2>. DEFINE D == A \union {z[1]}
  <2>. HIDE DEF D
  <2>a. both \in Seq(D) /\ y \in Seq(B) /\ all = both \o y
    BY <1>6, <1>a DEF D
  <2>b. /\ all \in Seq(D \union B) /\ Len(all) = Len(both) + Len(y)
        /\ Len(both) \in Nat /\ Len(y) \in Nat
        /\ \A i \in 1 .. Len(both) : all[i] = both[i]
        /\ \A i \in 1 .. Len(y) : all[Len(both) + i] = y[i]
    BY <2>a, Joint
  <2>. QED BY <1>6, <2>b DEF D
<1>8. QuietFrom(n + 2, s, me, all)
  <2>1. QuietFrom(1, s, me, y) /\ (n + 1) + 1 = n + 2
    BY <1>2 DEF me
  <2>2. QuietFrom(Len(both) + 1, s, me, all)
    BY <1>6, <1>a, <2>1, QuietBehind
  <2>. QED BY <1>6, <2>1, <2>2
<1>9. Forgetting(fat, p, n, s, me, all)
  <2>1. /\ 0 \in 0 .. n /\ Freed(fat, p, 1, 0) /\ Len(all) > n - 0
        /\ n - 0 + 1 = n + 1 /\ n - 0 + 2 = n + 2 /\ 0 + 1 = 1 /\ n - 0 = n
    BY <1>2, <1>7 DEF Freed
  <2>2. \A i \in 1 .. n - 0 : all[i] = Mark(p[0 + i], FREE)
    <3>1. \A i \in 1 .. n - 0 : i \in 1 .. n /\ i \in 1 .. n + 1 /\ 0 + i = i
      BY <1>2
    <3>. QED BY <1>3, <1>6, <1>7, <3>1
  <2>3. all[n - 0 + 1] = Mark(p[1], FINAL)
    <3>1. n + 1 \in 1 .. n + 1
      BY <1>2
    <3>. QED BY <1>6, <1>7, <2>1, <3>1
  <2>. QED BY <1>1, <1>8, <2>1, <2>2, <2>3 DEF Forgetting
<1>10. Arranged(p, n, s, all)
  BY <1>1, <1>7, <1>9 DEF Arranged, Stage, me
<1>. QED BY <1>10, Zenon DEF all, both, x, z

\* unlink frees the chain, and then the entry.
LEMMA RemovingStart ==
    ASSUME Types, NEW s, NEW p, NEW n, Follows(fat, slots[s].start, p, n)
    PROVE  Arranged(p, n, s, ForgetWrites(slots[s].start) \o <<Save(s, [slots[s] EXCEPT !.start = FREE])>>)
<1>. DEFINE me == slots[s]
            x == ForgetWrites(slots[s].start)
            A == {x[i] : i \in 1 .. n}
            e == [slots[s] EXCEPT !.start = FREE]
            z == <<Save(s, e)>>
            all == x \o z
<1>. HIDE DEF all
<1>1. /\ Row(p, n) /\ Members(p, n) = Chain(fat, me.start) /\ me.start = p[1]
      /\ Linked(fat, p, 1, n) /\ fat[p[n]] = FINAL
  BY RowOf
<1>2. n \in Nat /\ n > 0
  BY <1>1 DEF Row
<1>3. x = [i \in 1 .. n |-> Mark(p[i], FREE)]
  BY ForgottenRow
<1>4. z \in Seq({z[1]}) /\ Len(z) = 1 /\ z[1] = Save(s, e)
  <2>. HIDE DEF e
  <2>. QED OBVIOUS
<1>. HIDE DEF e, x, z
<1>5. x \in Seq(A) /\ Len(x) = n
  <2>1. x = [i \in 1 .. n |-> x[i]]
    BY <1>3
  <2>. QED BY <1>2, <2>1, RunOfWrites
<1>. HIDE DEF A
<1>6. /\ all \in Seq(A \union {z[1]}) /\ Len(all) = n + 1
      /\ \A i \in 1 .. n : all[i] = x[i]
      /\ all[n + 1] = Save(s, e)
  <2>. DEFINE C == {z[1]}
  <2>. HIDE DEF C
  <2>a. x \in Seq(A) /\ z \in Seq(C) /\ all = x \o z
    BY <1>4, <1>5 DEF all, C
  <2>b. /\ all \in Seq(A \union C) /\ Len(all) = Len(x) + Len(z)
        /\ Len(x) \in Nat /\ Len(z) \in Nat
        /\ \A i \in 1 .. Len(x) : all[i] = x[i]
        /\ \A i \in 1 .. Len(z) : all[Len(x) + i] = z[i]
    BY <2>a, Joint
  <2>c. 1 \in 1 .. Len(z)
    BY <1>4
  <2>. QED BY <1>4, <1>5, <2>b, <2>c DEF C
<1>. HIDE DEF me
<1>7. Forgetting(fat, p, n, s, me, all)
  <2>1. /\ 0 \in 0 .. n /\ Freed(fat, p, 1, 0) /\ Len(all) > n - 0
        /\ n - 0 + 1 = n + 1 /\ 0 + 1 = 1 /\ n - 0 = n
    BY <1>2, <1>6 DEF Freed
  <2>2. \A i \in 1 .. n - 0 : all[i] = Mark(p[0 + i], FREE)
    <3>1. \A i \in 1 .. n - 0 : i \in 1 .. n /\ 0 + i = i
      BY <1>2
    <3>. QED BY <1>3, <1>6, <3>1
  <2>3. Len(all) = n - 0 + 1 /\ all[n - 0 + 1] = Save(s, [me EXCEPT !.start = FREE])
    BY <1>6, <2>1, Zenon DEF me, e
  <2>. QED BY <1>1, <2>1, <2>2, <2>3 DEF Forgetting
<1>8. Arranged(p, n, s, all)
  BY <1>1, <1>6, <1>7 DEF Arranged, Stage, me
<1>. QED BY <1>8, Zenon DEF all, x, z, e

\* resize frees the blocks behind the new last one, from the front to the back.
LEMMA ShrinkingStart ==
    ASSUME Types, NEW s, NEW p, NEW n, Follows(fat, slots[s].start, p, n), NEW m \in 1 .. n - 1,
           NEW Z, NEW z \in Seq(Z), \A i \in 1 .. Len(z) : z[i].to = "data",
           NEW B, NEW y \in Seq(B), QuietFrom(1, s, slots[s], y)
    PROVE  Arranged(p, n, s,
                    ((z \o [i \in 1 .. n - m |-> Mark(Hop(fat, slots[s].start, m + i - 1), FREE)])
                     \o <<Mark(Hop(fat, slots[s].start, m - 1), FINAL)>>) \o y)
<1>. DEFINE me == slots[s]
            freed == [i \in 1 .. n - m |-> Mark(Hop(fat, slots[s].start, m + i - 1), FREE)]
            last == <<Mark(Hop(fat, slots[s].start, m - 1), FINAL)>>
            two == z \o freed
            three == two \o last
            all == three \o y
            A == {freed[i] : i \in 1 .. n - m}
            j == Len(z)
            k == j + (n - m)
<1>. HIDE DEF two, three, all
<1>1. /\ Row(p, n) /\ Members(p, n) = Chain(fat, me.start) /\ me.start = p[1]
      /\ Linked(fat, p, 1, n) /\ fat[p[n]] = FINAL
  BY RowOf
<1>2. n \in Nat /\ n > 0 /\ m \in Nat /\ m > 0 /\ m < n
  BY <1>1 DEF Row
<1>3. \A i \in 0 .. n - 1 : Hop(fat, me.start, i) = p[i + 1]
  <2>1. fat \in [Blocks -> Links] /\ \A i \in 0 .. n - 1 : i \in Nat /\ i < n
    BY <1>2 DEF Types
  <2>. HIDE DEF me
  <2>2. Follows(fat, me.start, p, n)
    BY DEF me
  <2>. QED BY <2>1, <2>2, FollowedHop
<1>4. \A i \in 1 .. n - m : freed[i] = Mark(p[m + i], FREE)
  <2>1. \A i \in 1 .. n - m : m + i - 1 \in 0 .. n - 1 /\ (m + i - 1) + 1 = m + i
    BY <1>2
  <2>. QED BY <1>3, <2>1
<1>5. last \in Seq({last[1]}) /\ Len(last) = 1 /\ last[1] = Mark(p[m], FINAL)
  <2>1. m - 1 \in 0 .. n - 1 /\ (m - 1) + 1 = m
    BY <1>2
  <2>2. last = <<Mark(p[m], FINAL)>>
    BY <1>3, <2>1
  <2>. QED BY <2>2
<1>6. freed \in Seq(A) /\ Len(freed) = n - m
  <2>1. freed = [i \in 1 .. n - m |-> freed[i]] /\ n - m \in Nat
    BY <1>2
  <2>. HIDE DEF freed
  <2>. DEFINE h == n - m
  <2>. HIDE DEF h
  <2>2. freed = [i \in 1 .. h |-> freed[i]] /\ h \in Nat /\ h \in Int
    BY <2>1 DEF h
  <2>3. freed \in Seq({freed[i] : i \in 1 .. h}) /\ Len(freed) = h
    BY <2>2, RunOfWrites
  <2>. QED BY <2>3 DEF h
<1>. HIDE DEF A, me, freed, last
<1>a. two = z \o freed /\ three = two \o last /\ all = three \o y
  BY DEF two, three, all
<1>7. /\ two \in Seq(Z \union A) /\ Len(two) = k /\ j \in Nat
      /\ \A i \in 1 .. j : two[i] = z[i]
      /\ \A i \in 1 .. n - m : two[j + i] = freed[i]
  <2>a. z \in Seq(Z) /\ freed \in Seq(A) /\ two = z \o freed
    BY <1>6, <1>a
  <2>b. /\ two \in Seq(Z \union A) /\ Len(two) = Len(z) + Len(freed)
        /\ Len(z) \in Nat /\ Len(freed) \in Nat
        /\ \A i \in 1 .. Len(z) : two[i] = z[i]
        /\ \A i \in 1 .. Len(freed) : two[Len(z) + i] = freed[i]
    BY <2>a, Joint
  <2>. QED BY <1>6, <2>b DEF j, k
<1>. HIDE DEF j
<1>8. k \in Nat /\ k = j + (n - m)
  BY <1>2, <1>7
<1>. HIDE DEF k
<1>9. /\ three \in Seq((Z \union A) \union {last[1]}) /\ Len(three) = k + 1
      /\ \A i \in 1 .. k : three[i] = two[i]
      /\ three[k + 1] = Mark(p[m], FINAL)
  <2>. DEFINE C == {last[1]}
            D == Z \union A
  <2>. HIDE DEF C, D
  <2>a. two \in Seq(D) /\ last \in Seq(C) /\ three = two \o last
    BY <1>5, <1>7, <1>a DEF C, D
  <2>b. /\ three \in Seq(D \union C) /\ Len(three) = Len(two) + Len(last)
        /\ Len(two) \in Nat /\ Len(last) \in Nat
        /\ \A i \in 1 .. Len(two) : three[i] = two[i]
        /\ \A i \in 1 .. Len(last) : three[Len(two) + i] = last[i]
    BY <2>a, Joint
  <2>c. 1 \in 1 .. Len(last)
    BY <1>5
  <2>. QED BY <1>5, <1>7, <2>b, <2>c DEF C, D
<1>10. /\ all \in Seq(((Z \union A) \union {last[1]}) \union B)
       /\ Len(all) = k + 1 + Len(y) /\ Len(y) \in Nat
       /\ \A i \in 1 .. k + 1 : all[i] = three[i]
  <2>. DEFINE D == (Z \union A) \union {last[1]}
  <2>. HIDE DEF D
  <2>a. three \in Seq(D) /\ y \in Seq(B) /\ all = three \o y
    BY <1>9, <1>a DEF D
  <2>b. /\ all \in Seq(D \union B) /\ Len(all) = Len(three) + Len(y)
        /\ Len(three) \in Nat /\ Len(y) \in Nat
        /\ \A i \in 1 .. Len(three) : all[i] = three[i]
        /\ \A i \in 1 .. Len(y) : all[Len(three) + i] = y[i]
    BY <2>a, Joint
  <2>. QED BY <1>9, <2>b DEF D
<1>11. QuietFrom(k + 2, s, me, all)
  <2>1. QuietFrom(1, s, me, y) /\ (k + 1) + 1 = k + 2
    BY <1>8 DEF me
  <2>. DEFINE D == (Z \union A) \union {last[1]}
  <2>. HIDE DEF D
  <2>a. three \in Seq(D) /\ y \in Seq(B) /\ all = three \o y /\ QuietFrom(1, s, me, y)
    BY <1>9, <1>a, <2>1 DEF D
  <2>2. QuietFrom(Len(three) + 1, s, me, all)
    BY <2>a, QuietBehind
  <2>. QED BY <1>9, <2>1, <2>2
<1>12. \A i \in 1 .. j : all[i].to = "data"
  <2>1. \A i \in 1 .. j : i \in 1 .. k /\ i \in 1 .. k + 1
    BY <1>2, <1>7, <1>8
  <2>. QED BY <1>7, <1>9, <1>10, <2>1 DEF j
<1>13. \A i \in 1 .. n - m : all[j + i] = Mark(p[m + i], FREE)
  <2>1. \A i \in 1 .. n - m : j + i \in 1 .. k /\ j + i \in 1 .. k + 1
    BY <1>2, <1>7, <1>8
  <2>. QED BY <1>4, <1>7, <1>9, <1>10, <2>1
<1>14. all[k + 1] = Mark(p[m], FINAL)
  <2>1. k + 1 \in 1 .. k + 1
    BY <1>8
  <2>. QED BY <1>9, <1>10, <2>1
<1>15. Shrinking(fat, p, n, s, me, all)
  <2>1. /\ 0 \in 0 .. n /\ j \in 0 .. Len(all) /\ m + 0 = m /\ m + 0 <= n /\ n - m - 0 = n - m
        /\ Len(all) > j + (n - m - 0) /\ m + 0 + 1 = m + 1
        /\ j + (n - m - 0) + 1 = k + 1 /\ j + (n - m - 0) + 2 = k + 2
    BY <1>2, <1>7, <1>8, <1>10
  <2>2. Linked(fat, p, 1, m + 1) /\ Freed(fat, p, m + 1, m) /\ Linked(fat, p, m + 1, n)
    BY <1>1, <1>2 DEF Linked, Freed
  <2>3. \A i \in 1 .. n - m - 0 : all[j + i] = Mark(p[m + 0 + i], FREE)
    BY <1>13, <2>1
  <2>4. all[j + (n - m - 0) + 1] = Mark(p[m], FINAL) /\ QuietFrom(j + (n - m - 0) + 2, s, me, all)
    BY <1>11, <1>14, <2>1
  <2>. QED BY <1>1, <1>12, <2>1, <2>2, <2>3, <2>4 DEF Shrinking
<1>16. Arranged(p, n, s, all)
  BY <1>1, <1>10, <1>15 DEF Arranged, Stage, me
<1>. QED BY <1>16, Zenon DEF all, three, two, freed, last

\* c is a row p of n blocks with count more behind it.
Behind(c, p, n, more, count) ==
    (\A i \in 1 .. n : c[i] = p[i]) /\ (\A i \in 1 .. count : c[n + i] = more[i])

\* resize links free blocks behind the last one.
LEMMA GrowingStart ==
    ASSUME Types, NEW s, NEW p, NEW n, Follows(fat, slots[s].start, p, n), NEW count \in Nat \ {0},
           NEW taken \in LowestFree(fat, count), NEW tail, tail = p[n],
           NEW B, NEW y \in Seq(B), QuietFrom(1, s, slots[s], y)
    PROVE  \E c : /\ Arranged(c, n + count, s, LinkWrites(tail, taken, count) \o y)
                  /\ Behind(c, p, n, taken, count)
<1>. DEFINE me == slots[s]
            links == LinkWrites(tail, taken, count)
            all == links \o y
            A == {links[i] : i \in 1 .. 2 * count}
            m == n + count
            c == [i \in 1 .. m |-> IF i <= n THEN p[i] ELSE taken[i - n]]
<1>. HIDE DEF links, all
<1>1. /\ Row(p, n) /\ Members(p, n) = Chain(fat, me.start) /\ me.start = p[1]
      /\ Linked(fat, p, 1, n) /\ fat[p[n]] = FINAL
  BY RowOf
<1>2. n \in Nat /\ n > 0 /\ count \in Nat /\ count > 0 /\ m \in Nat \ {0} /\ m = n + count
  BY <1>1 DEF Row
<1>3. /\ \A i \in 1 .. count : taken[i] \in DataBlocks /\ fat[taken[i]] = FREE
      /\ \A i, k \in 1 .. count : taken[i] = taken[k] => i = k
  <2>1. /\ taken \in [1 .. count -> FreeBlocks(fat)]
        /\ \A i, k \in 1 .. count : i < k => taken[i] < taken[k]
    BY DEF LowestFree
  <2>2. \A b \in FreeBlocks(fat) : b \in DataBlocks /\ fat[b] = FREE
    BY BlockAssumption DEF FreeBlocks, Types, Blocks, DataBlocks, RootBlock
  <2>3. \A i \in 1 .. count : taken[i] \in Int
    BY <2>1, <2>2 DEF FreeBlocks, Blocks
  <2>4. ASSUME NEW i \in 1 .. count, NEW k \in 1 .. count, taken[i] = taken[k] PROVE i = k
    <3>1. i \in Int /\ k \in Int /\ ~(taken[i] < taken[k]) /\ ~(taken[k] < taken[i])
      BY <2>3, <2>4
    <3>. QED BY <2>1, <3>1
  <2>. QED BY <2>1, <2>2, <2>4
<1>4. \A i \in 1 .. n : p[i] \in DataBlocks /\ fat[p[i]] # FREE
  <2>1. \A i \in 1 .. n : p[i] \in Chain(fat, me.start)
    BY <1>1 DEF Members
  <2>. QED BY <2>1, FollowedTaken
<1>5. /\ \A i \in 1 .. n : i \in 1 .. m /\ c[i] = p[i]
      /\ \A i \in 1 .. count : n + i \in 1 .. m /\ c[n + i] = taken[i]
      /\ \A i \in n + 1 .. m : i - n \in 1 .. count /\ n + (i - n) = i
  <2>1. \A i \in 1 .. n : i \in 1 .. m /\ i <= n
    BY <1>2
  <2>2. \A i \in 1 .. count : n + i \in 1 .. m /\ ~(n + i <= n) /\ (n + i) - n = i
    BY <1>2
  <2>3. \A i \in n + 1 .. m : i - n \in 1 .. count /\ n + (i - n) = i
    BY <1>2
  <2>. HIDE DEF m
  <2>. QED BY <2>1, <2>2, <2>3
<1>6. Row(c, m)
  <2>1. c \in [1 .. m -> DataBlocks]
    <3>1. \A i \in 1 .. m : c[i] \in DataBlocks
      BY <1>2, <1>3, <1>4, <1>5
    <3>. QED BY <3>1
  <2>2. ASSUME NEW i \in 1 .. m, NEW k \in 1 .. m, c[i] = c[k] PROVE i = k
    <3>1. (i \in 1 .. n \/ i \in n + 1 .. m) /\ (k \in 1 .. n \/ k \in n + 1 .. m)
      BY <1>2
    <3>2. i \in n + 1 .. m => c[i] = taken[i - n] /\ fat[c[i]] = FREE /\ i - n \in 1 .. count
      <4>1. i \in n + 1 .. m => i - n \in 1 .. count /\ c[i] = c[n + (i - n)]
        BY <1>5
      <4>. HIDE DEF c
      <4>. QED BY <1>3, <1>5, <4>1
    <3>3. k \in n + 1 .. m => c[k] = taken[k - n] /\ fat[c[k]] = FREE /\ k - n \in 1 .. count
      <4>1. k \in n + 1 .. m => k - n \in 1 .. count /\ c[k] = c[n + (k - n)]
        BY <1>5
      <4>. HIDE DEF c
      <4>. QED BY <1>3, <1>5, <4>1
    <3>4. (i \in 1 .. n => c[i] = p[i]) /\ (k \in 1 .. n => c[k] = p[k])
      BY <1>5
    <3>. HIDE DEF c
    <3>5. CASE i \in 1 .. n /\ k \in 1 .. n
      BY <1>1, <2>2, <3>4, <3>5 DEF Row
    <3>6. CASE i \in n + 1 .. m /\ k \in n + 1 .. m
      <4>1. i - n = k - n
        BY <1>3, <2>2, <3>2, <3>3, <3>6
      <4>. QED BY <1>2, <3>6, <4>1
    <3>7. CASE i \in 1 .. n /\ k \in n + 1 .. m
      BY <1>4, <2>2, <3>3, <3>4, <3>7
    <3>8. CASE i \in n + 1 .. m /\ k \in 1 .. n
      BY <1>4, <2>2, <3>2, <3>4, <3>8
    <3>. QED BY <3>1, <3>5, <3>6, <3>7, <3>8
  <2>. QED BY <1>2, <2>1, <2>2 DEF Row
<1>7. \A k \in 1 .. 2 * count : links[k] =
          LET i == (k + 1) \div 2
          IN  IF k % 2 = 1 THEN Mark(IF i = 1 THEN tail ELSE taken[i - 1], taken[i]) ELSE Mark(taken[i], FINAL)
  BY DEF LinkWrites, links
<1>8. ASSUME NEW z \in 1 .. count
      PROVE  /\ links[2 * z - 1] = Mark(c[n + z - 1], c[n + z])
             /\ links[2 * z] = Mark(c[n + z], FINAL)
  <2>1. /\ 2 * z - 1 \in 1 .. 2 * count /\ 2 * z \in 1 .. 2 * count
        /\ ((2 * z - 1) + 1) \div 2 = z /\ (2 * z + 1) \div 2 = z
        /\ (2 * z - 1) % 2 = 1 /\ (2 * z) % 2 # 1
    BY <1>2
  <2>2. c[n + z] = taken[z]
    BY <1>5
  <2>3. c[n + z - 1] = IF z = 1 THEN tail ELSE taken[z - 1]
    <3>1. CASE z = 1
      <4>1. n + z - 1 = n /\ n \in 1 .. n
        BY <1>2, <3>1
      <4>. QED BY <1>5, <3>1, <4>1
    <3>2. CASE z # 1
      <4>1. z - 1 \in 1 .. count /\ n + (z - 1) = n + z - 1
        BY <1>2, <3>2
      <4>. QED BY <1>5, <3>2, <4>1
    <3>. QED BY <3>1, <3>2
  <2>. HIDE DEF c
  <2>. QED BY <1>7, <2>1, <2>2, <2>3
<1>9. links \in Seq(A) /\ Len(links) = 2 * count
  <2>1. links = [k \in 1 .. 2 * count |-> links[k]]
    BY DEF LinkWrites, links
  <2>2. 2 * count \in Nat
    BY <1>2
  <2>. QED BY <2>1, <2>2, RunOfWrites
<1>. HIDE DEF A, c, m, me
<1>a. all = links \o y
  BY DEF all
<1>10. /\ all \in Seq(A \union B) /\ Len(all) = 2 * count + Len(y) /\ Len(y) \in Nat
       /\ \A i \in 1 .. 2 * count : all[i] = links[i]
  <2>a. links \in Seq(A) /\ y \in Seq(B) /\ all = links \o y
    BY <1>9, <1>a
  <2>b. /\ all \in Seq(A \union B) /\ Len(all) = Len(links) + Len(y)
        /\ Len(links) \in Nat /\ Len(y) \in Nat
        /\ \A i \in 1 .. Len(links) : all[i] = links[i]
        /\ \A i \in 1 .. Len(y) : all[Len(links) + i] = y[i]
    BY <2>a, Joint
  <2>. QED BY <1>9, <2>b
<1>11. QuietFrom(2 * count + 1, s, me, all)
  <2>1. QuietFrom(1, s, me, y)
    BY DEF me
  <2>2. QuietFrom(Len(links) + 1, s, me, all)
    BY <1>9, <1>a, <2>1, QuietBehind
  <2>. QED BY <1>9, <2>2
<1>12. Growing(fat, c, m, s, me, all)
  <2>1. n \in 1 .. m /\ n + 0 <= m /\ Len(all) >= 2 * (m - n) - 0 /\ m - n = count
        /\ 2 * (m - n) - 0 + 1 = 2 * count + 1 /\ n + 0 = n
    BY <1>2, <1>10
  <2>2. Linked(fat, c, 1, n)
    <3>1. \A i \in 1 .. n - 1 : i \in 1 .. n /\ i + 1 \in 1 .. n
      BY <1>2
    <3>. QED BY <1>1, <1>5, <3>1 DEF Linked
  <2>3. Freed(fat, c, n + 1, m)
    BY <1>3, <1>5 DEF Freed
  <2>4. fat[c[n]] = FINAL /\ me.start = c[1]
    <3>1. 1 \in 1 .. n /\ n \in 1 .. n
      BY <1>2
    <3>. QED BY <1>1, <1>5, <3>1
  <2>5. ASSUME NEW z \in 1 .. m - n
        PROVE  /\ all[2 * z - 1 - 0] = Mark(c[n + z - 1], c[n + z])
               /\ all[2 * z - 0] = Mark(c[n + z], FINAL)
    <3>1. z \in 1 .. count /\ 2 * z - 1 - 0 = 2 * z - 1 /\ 2 * z - 0 = 2 * z
      BY <2>1
    <3>2. 2 * z - 1 \in 1 .. 2 * count /\ 2 * z \in 1 .. 2 * count
      BY <1>2, <3>1
    <3>. QED BY <1>8, <1>10, <3>1, <3>2
  <2>6. QuietFrom(2 * (m - n) - 0 + 1, s, me, all)
    BY <1>11, <2>1
  <2>. QED BY <2>1, <2>2, <2>3, <2>4, <2>5, <2>6 DEF Growing
<1>13. /\ Chain(fat, me.start) \subseteq Members(c, m)
       /\ \A b \in Members(c, m) : b \in Chain(fat, me.start) \/ fat[b] = FREE
  <2>1. Chain(fat, me.start) \subseteq Members(c, m)
    BY <1>1, <1>5 DEF Members
  <2>2. ASSUME NEW i \in 1 .. m PROVE c[i] \in Chain(fat, me.start) \/ fat[c[i]] = FREE
    <3>1. i \in 1 .. n \/ i \in n + 1 .. m
      BY <1>2
    <3>. QED BY <1>1, <1>3, <1>5, <3>1 DEF Members
  <2>. QED BY <2>1, <2>2 DEF Members
<1>14. Arranged(c, m, s, all)
  BY <1>6, <1>10, <1>12, <1>13 DEF Arranged, Stage, me
<1>15. Behind(c, p, n, taken, count)
  BY <1>5 DEF Behind
<1>. HIDE DEF c
<1>. QED BY <1>14, <1>15, Zenon DEF m, all, links

\* A run of writes.
Series(x) == \E S : x \in Seq(S)

\* Runs make a run.
LEMMA JointSeries ==
    ASSUME NEW x, NEW y, NEW z, Series(x), Series(y), Series(z)
    PROVE  Series(x \o y) /\ (x \o y) \o z = x \o (y \o z)
<1>1. PICK A : x \in Seq(A)
  BY DEF Series
<1>2. PICK B : y \in Seq(B)
  BY DEF Series
<1>3. PICK C : z \in Seq(C)
  BY DEF Series
<1>4. x \o y \in Seq(A \union B)
  <2>. DEFINE w == x \o y
  <2>. HIDE DEF w
  <2>1. w = x \o y
    BY DEF w
  <2>2. w \in Seq(A \union B)
    BY <1>1, <1>2, <2>1, Joint
  <2>. QED BY <2>2 DEF w
<1>. QED BY <1>1, <1>2, <1>3, <1>4, JointTwice DEF Series

\* So does one write.
LEMMA OneSeries ==
    ASSUME NEW w, NEW s, NEW me, Quiet(w, s, me)
    PROVE  Series(<<w>>) /\ QuietFrom(1, s, me, <<w>>)
<1>1. <<w>> \in Seq({w}) /\ Len(<<w>>) = 1 /\ <<w>>[1] = w
  OBVIOUS
<1>. DEFINE q == <<w>>
<1>. HIDE DEF q
<1>2. q \in Seq({w}) /\ Len(q) = 1 /\ q[1] = w
  BY <1>1 DEF q
<1>3. QuietFrom(1, s, me, q)
  <2>1. \A j \in 1 .. 1 : j = 1
    OBVIOUS
  <2>. QED BY <1>2, <2>1 DEF QuietFrom
<1>. QED BY <1>2, <1>3 DEF Series, q

\* What resize does with a chain of n blocks when it takes none: nothing, or it empties the
\* file, keeps the blocks, or frees the last ones.
Retains(s, size, n, r) ==
    LET start == slots[s].start
        saved == <<Save(s, [slots[s] EXCEPT !.length = size])>>
        new == BlocksFor(size)
        zero == ZeroOutFree(slots[s], size)
    IN  \/ slots[s].length = size /\ r.writes = <<>> /\ r.fat = fat
        \/ size = 0 /\ r.writes = (ForgetWrites(start) \o <<Mark(start, FINAL)>>) \o saved
        \/ new = n /\ r.writes = zero \o saved /\ r.fat = fat
        \/ /\ size # 0 /\ new < n
           /\ r.writes = ((zero \o [i \in 1 .. n - new |-> Mark(Hop(fat, start, new + i - 1), FREE)])
                          \o <<Mark(Hop(fat, start, new - 1), FINAL)>>) \o saved
           /\ r.fat = Shrink(fat, start, new)

\* When it takes count blocks.
Takes(s, size, count, r, tail, taken) ==
    /\ r.writes = LinkWrites(tail, taken, count) \o <<Save(s, [slots[s] EXCEPT !.length = size])>>
    /\ r.fat = Extend(fat, tail, taken, count)

\* All that it can do.
ResizeCase(s, size, n, r) ==
    LET new == BlocksFor(size)
    IN  \/ Retains(s, size, n, r)
        \/ /\ new > n
           /\ \E tail \in Tails(fat, slots[s].start), taken \in LowestFree(fat, new - n) :
                 Takes(s, size, new - n, r, tail, taken)

\* These are all.
LEMMA ResizedCases ==
    ASSUME Types, NEW s, NEW p, NEW n, Follows(fat, slots[s].start, p, n),
           NEW size \in Nat, NEW r \in Resized(s, size)
    PROVE  ResizeCase(s, size, n, r)
<1>. DEFINE start == slots[s].start
            saved == <<Save(s, [slots[s] EXCEPT !.length = size])>>
            new == BlocksFor(size)
            zero == ZeroOutFree(slots[s], size)
            old == ChainLength(fat, start)
            freed(k) == [i \in 1 .. k - new |-> Mark(Hop(fat, start, new + i - 1), FREE)]
            last == <<Mark(Hop(fat, start, new - 1), FINAL)>>
            Empty == [writes |-> (ForgetWrites(start) \o <<Mark(start, FINAL)>>) \o saved,
                      fat |-> [Forget(fat, start) EXCEPT ![start] = FINAL]]
            Same == [writes |-> zero \o saved, fat |-> fat]
            Shorter == [writes |-> ((zero \o freed(old)) \o last) \o saved, fat |-> Shrink(fat, start, new)]
            Longer(tail, taken) == [writes |-> LinkWrites(tail, taken, new - old) \o saved,
                                    fat |-> Extend(fat, tail, taken, new - old)]
<1>1. old = n
  BY FollowedChain
<1>2. \/ slots[s].length = size /\ r = [writes |-> <<>>, fat |-> fat]
      \/ size = 0 /\ r = Empty
      \/ new = old /\ r = Same
      \/ size # 0 /\ new < old /\ r = Shorter
      \/ /\ new > old
         /\ \E tail \in Tails(fat, start), taken \in LowestFree(fat, new - old) : r = Longer(tail, taken)
  <2>. DEFINE takings == IF HasFree(fat, new - old) THEN LowestFree(fat, new - old) ELSE {}
  <2>1. Resized(s, size) =
            IF slots[s].length = size THEN {[writes |-> <<>>, fat |-> fat]}
            ELSE IF size = 0 THEN {Empty}
            ELSE CASE new = old -> {Same}
                   [] new < old -> {Shorter}
                   [] new > old -> {Longer(tail, taken) : tail \in Tails(fat, start), taken \in takings}
    BY DEF Resized
  <2>2. takings \subseteq LowestFree(fat, new - old)
    OBVIOUS
  <2>3. new = old \/ new < old \/ new > old
    <3>1. new \in Int /\ old \in Int
      BY <1>1, FilesAssumption DEF BlocksFor, Follows
    <3>. HIDE DEF new, old
    <3>. QED BY <3>1
  <2>. HIDE DEF Empty, Same, Shorter, Longer, takings, new, old, start
  <2>. QED BY <2>1, <2>2, <2>3
<1>3. \/ slots[s].length = size /\ r.writes = <<>> /\ r.fat = fat
      \/ size = 0 /\ r.writes = (ForgetWrites(start) \o <<Mark(start, FINAL)>>) \o saved
      \/ new = n /\ r.writes = zero \o saved /\ r.fat = fat
      \/ /\ size # 0 /\ new < n
         /\ r.writes = ((zero \o freed(n)) \o last) \o saved
         /\ r.fat = Shrink(fat, start, new)
      \/ /\ new > n
         /\ \E tail \in Tails(fat, start), taken \in LowestFree(fat, new - n) :
               /\ r.writes = LinkWrites(tail, taken, new - n) \o saved
               /\ r.fat = Extend(fat, tail, taken, new - n)
  <2>. HIDE DEF start, saved, new, zero, old, last, freed
  <2>1. CASE slots[s].length = size /\ r = [writes |-> <<>>, fat |-> fat]
    BY <2>1
  <2>2. CASE size = 0 /\ r = Empty
    BY <2>2
  <2>3. CASE new = old /\ r = Same
    BY <1>1, <2>3
  <2>4. CASE size # 0 /\ new < old /\ r = Shorter
    <3>1. r.writes = ((zero \o freed(old)) \o last) \o saved /\ r.fat = Shrink(fat, start, new)
      BY <2>4
    <3>. QED BY <1>1, <2>4, <3>1
  <2>5. ASSUME new > old, NEW tail \in Tails(fat, start), NEW taken \in LowestFree(fat, new - old),
               r = Longer(tail, taken)
        PROVE  /\ new > n
               /\ \E t \in Tails(fat, start), u \in LowestFree(fat, new - n) :
                     /\ r.writes = LinkWrites(t, u, new - n) \o saved
                     /\ r.fat = Extend(fat, t, u, new - n)
    <3>1. r.writes = LinkWrites(tail, taken, new - old) \o saved /\ r.fat = Extend(fat, tail, taken, new - old)
      BY <2>5
    <3>. QED BY <1>1, <2>5, <3>1
  <2>. HIDE DEF Empty, Same, Shorter, Longer
  <2>. QED BY <1>2, <2>1, <2>2, <2>3, <2>4, <2>5
<1>. QED BY <1>3, Zenon DEF ResizeCase, Retains, Takes

\* The writes of forget are a run.
LEMMA ForgetSeries ==
    ASSUME NEW start, ChainLength(fat, start) \in Nat PROVE Series(ForgetWrites(start))
<1>. DEFINE x == ForgetWrites(start)
            k == ChainLength(fat, start)
<1>1. x = [i \in 1 .. k |-> x[i]]
  BY DEF ForgetWrites
<1>. HIDE DEF x, k
<1>2. k \in Int
  BY DEF k
<1>3. x \in Seq({x[i] : i \in 1 .. k})
  BY <1>1, <1>2, RunOfWrites
<1>4. Series(x)
  BY <1>3 DEF Series
<1>. QED BY <1>4 DEF x

\* zeroOutFree writes data only.
LEMMA ZeroSeries ==
    ASSUME NEW e, NEW size, NEW s, NEW me
    PROVE  /\ Series(ZeroOutFree(e, size)) /\ QuietFrom(1, s, me, ZeroOutFree(e, size))
           /\ \A i \in 1 .. Len(ZeroOutFree(e, size)) : ZeroOutFree(e, size)[i].to = "data"
<1>. DEFINE put == Put(Position(fat, e.start, size - 1) + 1, [i \in 1 .. e.length - size |-> 0])
<1>1. ZeroOutFree(e, size) = <<>> \/ ZeroOutFree(e, size) = <<put>>
  BY DEF ZeroOutFree
<1>2. put.to = "data"
  BY DEF Put
<1>. HIDE DEF put
<1>3. CASE ZeroOutFree(e, size) = <<>>
  <2>1. <<>> \in Seq({}) /\ Len(<<>>) = 0
    OBVIOUS
  <2>. QED BY <1>3, <2>1 DEF Series, QuietFrom
<1>4. CASE ZeroOutFree(e, size) = <<put>>
  <2>1. Series(<<put>>) /\ QuietFrom(1, s, me, <<put>>)
    BY <1>2, OneSeries DEF Quiet
  <2>2. Len(<<put>>) = 1 /\ <<put>>[1] = put
    OBVIOUS
  <2>3. \A i \in 1 .. 1 : i = 1
    OBVIOUS
  <2>. QED BY <1>2, <1>4, <2>1, <2>2, <2>3
<1>. QED BY <1>1, <1>3, <1>4

\* Quiet runs make a quiet run.
LEMMA QuietSeries ==
    ASSUME NEW x, NEW y, Series(x), Series(y), NEW s, NEW me,
           QuietFrom(1, s, me, x), QuietFrom(1, s, me, y)
    PROVE  Series(x \o y) /\ QuietFrom(1, s, me, x \o y)
<1>1. PICK A : x \in Seq(A)
  BY DEF Series
<1>2. PICK B : y \in Seq(B)
  BY DEF Series
<1>. DEFINE w == x \o y
<1>3. w = x \o y
  OBVIOUS
<1>. HIDE DEF w
<1>4. w \in Seq(A \union B)
  BY <1>1, <1>2, <1>3, Joint
<1>5. QuietFrom(1, s, me, w)
  BY <1>1, <1>2, <1>3, QuietBehind
<1>. QED BY <1>4, <1>5 DEF Series, w

\* The chain has one last block.
LEMMA TailsOf ==
    ASSUME NEW table, NEW start, NEW p, NEW n, Follows(table, start, p, n), NEW tail \in Tails(table, start)
    PROVE  tail = p[n]
<1>1. PICK i \in 1 .. n : tail = p[i]
  BY FollowedChain DEF Tails
<1>2. table[p[i]] \notin DataBlocks
  BY <1>1 DEF Tails
<1>3. CASE i # n
  <2>1. i \in 1 .. n - 1 /\ i + 1 \in 1 .. n
    BY <1>3 DEF Follows
  <2>. QED BY <1>2, <2>1 DEF Follows
<1>. QED BY <1>1, <1>3

\* The row that goes with it: that of the chain, or longer.
Resizes(c, m, p, n, s, size, r) ==
    LET new == BlocksFor(size)
    IN  \/ c = p /\ m = n /\ Retains(s, size, n, r)
        \/ /\ new > n /\ m = new
           /\ \E taken \in LowestFree(fat, new - n) :
                 Takes(s, size, new - n, r, p[n], taken) /\ Behind(c, p, n, taken, new - n)

\* resize sets out with some row of blocks, whatever quiet writes come after it.
LEMMA ResizeSetsOut ==
    ASSUME Types, NEW s, slots[s] \in Entry, NEW p, NEW n, Follows(fat, slots[s].start, p, n),
           NEW size \in Nat, NEW r \in Resized(s, size),
           NEW q, Series(q), QuietFrom(1, s, slots[s], q)
    PROVE  Series(r.writes) /\ \E c, m : Arranged(c, m, s, r.writes \o q) /\ Resizes(c, m, p, n, s, size, r)
<1>. DEFINE start == slots[s].start
            new == BlocksFor(size)
            zero == ZeroOutFree(slots[s], size)
            saved == <<Save(s, [slots[s] EXCEPT !.length = size])>>
            freed == [i \in 1 .. n - new |-> Mark(Hop(fat, start, new + i - 1), FREE)]
            last == <<Mark(Hop(fat, start, new - 1), FINAL)>>
            y == saved \o q
            Set == Series(r.writes) /\ \E c, m : Arranged(c, m, s, r.writes \o q) /\ Resizes(c, m, p, n, s, size, r)
<1>0. n \in Nat \ {0} /\ ChainLength(fat, start) = n
  <2>1. n \in Nat \ {0}
    BY DEF Follows
  <2>. QED BY <2>1, FollowedChain
<1>1. Series(saved) /\ QuietFrom(1, s, slots[s], saved)
  <2>. DEFINE w == Save(s, [slots[s] EXCEPT !.length = size])
  <2>1. Quiet(w, s, slots[s])
    BY DEF Quiet, Save, Entry
  <2>. HIDE DEF w
  <2>. QED BY <2>1, OneSeries DEF w
<1>2. \/ Retains(s, size, n, r)
         /\ \/ r.writes = <<>>
            \/ r.writes = (ForgetWrites(start) \o <<Mark(start, FINAL)>>) \o saved
            \/ r.writes = zero \o saved
            \/ size # 0 /\ new < n /\ r.writes = ((zero \o freed) \o last) \o saved
      \/ /\ new > n
         /\ \E tail \in Tails(fat, start), taken \in LowestFree(fat, new - n) :
               Takes(s, size, new - n, r, tail, taken)
  <2>1. ResizeCase(s, size, n, r)
    BY ResizedCases
  <2>2. ASSUME Retains(s, size, n, r)
        PROVE  \/ r.writes = <<>>
               \/ r.writes = (ForgetWrites(start) \o <<Mark(start, FINAL)>>) \o saved
               \/ r.writes = zero \o saved
               \/ size # 0 /\ new < n /\ r.writes = ((zero \o freed) \o last) \o saved
    BY <2>2, Zenon DEF Retains
  <2>. QED BY <2>1, <2>2, Zenon DEF ResizeCase
<1>3. new \in Nat /\ (size > 0 => new >= 1)
  BY BlocksForPositive
<1>4. /\ Series(zero) /\ QuietFrom(1, s, slots[s], zero)
      /\ \A i \in 1 .. Len(zero) : zero[i].to = "data"
  BY ZeroSeries
<1>5. \A x : Series(<<x>>)
  <2>1. \A x : <<x>> \in Seq({x})
    OBVIOUS
  <2>. QED BY <2>1 DEF Series
<1>6. Series(ForgetWrites(start))
  BY <1>0, ForgetSeries
<1>. HIDE DEF saved, zero
<1>7. Series(y) /\ QuietFrom(1, s, slots[s], y)
  BY <1>1, QuietSeries
<1>. HIDE DEF y
<1>8. PICK B : y \in Seq(B)
  BY <1>7 DEF Series
<1>9. ASSUME Retains(s, size, n, r), Series(r.writes), Arranged(p, n, s, r.writes \o q) PROVE Set
  BY <1>9 DEF Resizes
<1>. HIDE DEF Set
<1>10. ASSUME Retains(s, size, n, r), r.writes = <<>> PROVE Set
  <2>1. PICK Q : q \in Seq(Q)
    BY DEF Series
  <2>2. r.writes \o q = q
    BY <1>10, <2>1
  <2>3. Arranged(p, n, s, q)
    BY <2>1, SettledStart
  <2>4. <<>> \in Seq({})
    OBVIOUS
  <2>. QED BY <1>9, <1>10, <2>2, <2>3, <2>4 DEF Series
<1>11. ASSUME Retains(s, size, n, r), r.writes = (ForgetWrites(start) \o <<Mark(start, FINAL)>>) \o saved
       PROVE  Set
  <2>. DEFINE x == ForgetWrites(start) \o <<Mark(start, FINAL)>>
  <2>1. Series(x)
    BY <1>5, <1>6, JointSeries
  <2>2. Arranged(p, n, s, x \o y)
    BY <1>7, <1>8, EmptyingStart
  <2>. HIDE DEF x
  <2>3. r.writes \o q = x \o y
    BY <1>1, <1>11, <2>1, JointSeries DEF x, y
  <2>4. Series(r.writes)
    BY <1>1, <1>11, <2>1, JointSeries DEF x
  <2>. QED BY <1>9, <1>11, <2>2, <2>3, <2>4
<1>12. ASSUME Retains(s, size, n, r), r.writes = zero \o saved PROVE Set
  <2>1. r.writes \o q = zero \o y
    BY <1>1, <1>4, <1>12, JointSeries DEF y
  <2>2. Series(zero \o y) /\ QuietFrom(1, s, slots[s], zero \o y)
    BY <1>4, <1>7, QuietSeries
  <2>. DEFINE x == zero \o y
  <2>. HIDE DEF x
  <2>3. PICK C : x \in Seq(C)
    BY <2>2 DEF Series, x
  <2>4. Arranged(p, n, s, x)
    BY <2>2, <2>3, SettledStart DEF x
  <2>5. Series(r.writes)
    BY <1>1, <1>4, <1>12, JointSeries
  <2>. QED BY <1>9, <1>12, <2>1, <2>4, <2>5 DEF x
<1>13. ASSUME Retains(s, size, n, r), size # 0, new < n, r.writes = ((zero \o freed) \o last) \o saved
       PROVE  Set
  <2>. DEFINE x == (zero \o freed) \o last
  <2>1. PICK Z : zero \in Seq(Z)
    BY <1>4 DEF Series
  <2>2. new \in 1 .. n - 1
    BY <1>0, <1>3, <1>13
  <2>3. Series(freed)
    <3>. DEFINE h == n - new
    <3>1. freed = [i \in 1 .. h |-> freed[i]] /\ h \in Int
      BY <1>0, <1>3
    <3>. HIDE DEF freed, h
    <3>2. freed \in Seq({freed[i] : i \in 1 .. h})
      BY <3>1, RunOfWrites
    <3>. QED BY <3>2 DEF Series
  <2>4. Arranged(p, n, s, x \o y)
    <3>. HIDE DEF new
    <3>. QED BY <1>4, <1>7, <1>8, <2>1, <2>2, ShrinkingStart
  <2>5. Series(x)
    <3>. HIDE DEF freed
    <3>1. Series(zero \o freed) /\ Series(last)
      BY <1>4, <1>5, <2>3, JointSeries
    <3>. HIDE DEF last
    <3>. QED BY <3>1, JointSeries
  <2>6. r.writes = x \o saved
    BY <1>13
  <2>. HIDE DEF x
  <2>7. r.writes \o q = x \o y
    BY <1>1, <2>5, <2>6, JointSeries DEF y
  <2>8. Series(r.writes)
    BY <1>1, <2>5, <2>6, JointSeries
  <2>. QED BY <1>9, <1>13, <2>4, <2>7, <2>8
<1>14. ASSUME new > n, NEW tail \in Tails(fat, start), NEW taken \in LowestFree(fat, new - n),
              Takes(s, size, new - n, r, tail, taken)
       PROVE  Set
  <2>. DEFINE count == new - n
              x == LinkWrites(tail, taken, count)
  <2>1. count \in Nat \ {0}
    BY <1>0, <1>3, <1>14
  <2>. HIDE DEF count
  <2>2. taken \in LowestFree(fat, count) /\ r.writes = x \o saved
    BY <1>14 DEF count, Takes, saved
  <2>3. tail = p[n] /\ new = n + count
    BY <1>0, <1>3, <1>14, TailsOf DEF count
  <2>4. PICK c : Arranged(c, n + count, s, x \o y) /\ Behind(c, p, n, taken, count)
    <3>1. QuietFrom(1, s, slots[s], y) /\ taken \in LowestFree(fat, count) /\ tail = p[n]
      BY <1>7, <2>2, <2>3
    <3>. HIDE DEF new
    <3>. QED BY <1>8, <2>1, <3>1, GrowingStart
  <2>5. Series(x)
    <3>1. x = [i \in 1 .. 2 * count |-> x[i]] /\ 2 * count \in Int
      BY <2>1 DEF LinkWrites
    <3>. DEFINE h == 2 * count
    <3>. HIDE DEF x, h
    <3>2. x = [i \in 1 .. h |-> x[i]] /\ h \in Int
      BY <3>1 DEF h
    <3>3. x \in Seq({x[i] : i \in 1 .. h})
      BY <3>2, RunOfWrites
    <3>. QED BY <3>3 DEF Series
  <2>. HIDE DEF x
  <2>6. r.writes \o q = x \o y
    BY <1>1, <2>2, <2>5, JointSeries DEF y
  <2>7. Series(r.writes)
    BY <1>1, <2>2, <2>5, JointSeries
  <2>8. Resizes(c, new, p, n, s, size, r)
    BY <1>14, <2>3, <2>4 DEF Resizes, count, new
  <2>9. Arranged(c, new, s, r.writes \o q)
    BY <2>3, <2>4, <2>6
  <2>. QED BY <2>7, <2>8, <2>9 DEF Set
<1>15. Set
  <2>. HIDE DEF new, freed, last, start
  <2>. QED BY <1>2, <1>10, <1>11, <1>12, <1>13, <1>14
<1>. QED BY <1>15 DEF Set

\* A file that is found when a call sets out.
LEMMA FoundInOrder ==
    ASSUME Types, Resting, Undamaged, NEW name, NEW s \in Found(name)
    PROVE  slots[s] \in Entry /\ \E p, n : Follows(fat, slots[s].start, p, n)
<1>1. s \in 1 .. listed /\ s \in Others(slots, listed, 0)
  BY FoundFile
<1>2. Keeps(fat, slots[s], {})
  BY <1>1 DEF Resting, Apart
<1>3. s \in Slots
  BY <1>1, FilesCounted DEF Types
<1>. QED BY <1>2, <1>3 DEF Types, Keeps, EndsAt

\* unlink begins.
LEMMA RemoveBegins ==
    ASSUME Types, Resting, Undamaged, NEW c, NEW plan \in RemovePlans(c), todo' = plan.writes,
           UNCHANGED <<fat, slots, listed, cuts>>
    PROVE  Types' /\ \E s, d, n : FileStage(s, d, n)'
<1>1. PICK s \in Found(c.name) :
          todo' = ForgetWrites(slots[s].start) \o <<Save(s, [slots[s] EXCEPT !.start = FREE])>>
  BY DEF RemovePlans
<1>2. PICK p, n : Follows(fat, slots[s].start, p, n)
  BY FoundInOrder
<1>3. Arranged(p, n, s, todo')
  BY <1>1, <1>2, RemovingStart
<1>4. Types' /\ FileStage(s, p, n)'
  BY <1>3, FileSetsOut
<1>. QED BY <1>4

\* truncate begins.
LEMMA TruncateBegins ==
    ASSUME Types, Resting, Undamaged, NEW c, c.size \in Nat, NEW plan \in TruncatePlans(c),
           todo' = plan.writes, UNCHANGED <<fat, slots, listed, cuts>>
    PROVE  Types' /\ \E s, d, n : FileStage(s, d, n)'
<1>0. PICK s \in Found(c.name) : \E r \in Resized(s, c.size) : todo' = r.writes
  BY DEF TruncatePlans
<1>1. PICK r \in Resized(s, c.size) : todo' = r.writes
  BY <1>0
<1>2. PICK p, n : Follows(fat, slots[s].start, p, n)
  BY FoundInOrder
<1>3. slots[s] \in Entry
  BY FoundInOrder
<1>4. Series(<<>>) /\ QuietFrom(1, s, slots[s], <<>>)
  <2>1. <<>> \in Seq({}) /\ Len(<<>>) = 0
    OBVIOUS
  <2>. QED BY <2>1 DEF Series, QuietFrom
<1>5. Series(r.writes) /\ \E d, m : Arranged(d, m, s, r.writes \o <<>>)
  BY <1>2, <1>3, <1>4, ResizeSetsOut
<1>6. r.writes \o <<>> = r.writes
  <2>1. PICK S : r.writes \in Seq(S)
    BY <1>5 DEF Series
  <2>. QED BY <2>1, ConcatEmptySeq
<1>7. PICK d, m : Arranged(d, m, s, todo')
  BY <1>1, <1>5, <1>6
<1>8. Types' /\ FileStage(s, d, m)'
  BY <1>7, FileSetsOut
<1>. QED BY <1>8

\* write begins: resize, the pieces, and the entry once more.
LEMMA WriteBegins ==
    ASSUME Types, Resting, Undamaged, NEW c, c.offset \in Nat, c.bytes \in Seq(Nat), NEW plan \in WritePlans(c),
           todo' = plan.writes, UNCHANGED <<fat, slots, listed, cuts>>
    PROVE  Types' /\ \E s, d, n : FileStage(s, d, n)'
<1>. DEFINE end == c.offset + Len(c.bytes)
            size(s) == IF slots[s].length < end THEN end ELSE slots[s].length
            pieces(r, s) == Pieces(r.fat, slots[s].start, c.offset, c.bytes)
            saved(s) == <<Save(s, [slots[s] EXCEPT !.length = size(s)])>>
<1>0. PICK s \in Found(c.name) :
          \E r \in Resized(s, size(s)) : todo' = (r.writes \o pieces(r, s)) \o saved(s)
  <2>. DEFINE kept == Positions \ (c.offset + 1 .. end)
              result(s) == Overwritten(Grown(content[c.name], size(s)), c.offset, c.bytes)
              Plan(s, r) == [writes |-> (r.writes \o pieces(r, s)) \o saved(s),
                             result |-> result(s), kept |-> kept]
  <2>1. WritePlans(c) = UNION {{Plan(s, r) : r \in Resized(s, size(s))} : s \in Found(c.name)}
    BY DEF WritePlans
  <2>2. \A s, r : Plan(s, r).writes = (r.writes \o pieces(r, s)) \o saved(s)
    BY Zenon
  <2>. HIDE DEF Plan, pieces, saved, size, end
  <2>3. PICK s \in Found(c.name) : \E r \in Resized(s, size(s)) : plan = Plan(s, r)
    BY <2>1, Zenon
  <2>. QED BY <2>2, <2>3, Zenon
<1>1. PICK r \in Resized(s, size(s)) : todo' = (r.writes \o pieces(r, s)) \o saved(s)
  BY <1>0
<1>2. PICK p, n : Follows(fat, slots[s].start, p, n)
  BY FoundInOrder
<1>3. slots[s] \in Entry /\ size(s) \in Nat
  <2>1. slots[s] \in Entry
    BY FoundInOrder
  <2>2. slots[s].length \in Nat
    BY <2>1 DEF Entry
  <2>3. Len(c.bytes) \in Nat
    OBVIOUS
  <2>4. end \in Nat
    BY <2>3
  <2>. QED BY <2>1, <2>2, <2>4
<1>4. Series(saved(s)) /\ QuietFrom(1, s, slots[s], saved(s))
  <2>. DEFINE w == Save(s, [slots[s] EXCEPT !.length = size(s)])
  <2>. HIDE DEF size
  <2>1. Quiet(w, s, slots[s])
    BY <1>3 DEF Quiet, Save, Entry
  <2>. HIDE DEF w
  <2>2. Series(<<w>>) /\ QuietFrom(1, s, slots[s], <<w>>)
    BY <2>1, OneSeries
  <2>. QED BY <2>2 DEF w
<1>5. Series(pieces(r, s)) /\ QuietFrom(1, s, slots[s], pieces(r, s))
  <2>. DEFINE x == pieces(r, s)
              h == (c.offset + Len(c.bytes) - 1) \div BlockSize - c.offset \div BlockSize + 1
  <2>1. h \in Int
    BY FilesAssumption
  <2>2. x = [i \in 1 .. h |-> x[i]] /\ \A i \in 1 .. h : x[i].to = "data"
    BY DEF Pieces, Put
  <2>. HIDE DEF x, h
  <2>. DEFINE T == {x[i] : i \in 1 .. h}
  <2>3. x \in Seq(T)
    BY <2>1, <2>2, RunOfWrites
  <2>4. DOMAIN x = 1 .. h
    BY <2>2
  <2>. HIDE DEF T
  <2>5. DOMAIN x = 1 .. Len(x)
    BY <2>3, LenProperties
  <2>. QED BY <2>2, <2>3, <2>4, <2>5 DEF Series, QuietFrom, Quiet, x
<1>. DEFINE q == pieces(r, s) \o saved(s)
<1>. HIDE DEF pieces, saved
<1>6. Series(q) /\ QuietFrom(1, s, slots[s], q)
  BY <1>4, <1>5, QuietSeries
<1>. HIDE DEF q
<1>7. Series(r.writes) /\ \E d, m : Arranged(d, m, s, r.writes \o q)
  <2>. DEFINE k == size(s)
  <2>. HIDE DEF k
  <2>1. k \in Nat /\ r \in Resized(s, k)
    BY <1>1, <1>3 DEF k
  <2>. QED BY <1>2, <1>3, <1>6, <2>1, ResizeSetsOut
<1>8. todo' = r.writes \o q
  <2>. DEFINE x == r.writes
              y == pieces(r, s)
              z == saved(s)
  <2>. HIDE DEF x, y, z
  <2>1. Series(x) /\ Series(y) /\ Series(z)
    BY <1>4, <1>5, <1>7 DEF x, y, z
  <2>2. (x \o y) \o z = x \o (y \o z)
    BY <2>1, JointSeries
  <2>. QED BY <1>1, <2>2, Zenon DEF q, x, y, z
<1>9. PICK d, m : Arranged(d, m, s, todo')
  BY <1>7, <1>8
<1>10. Types' /\ FileStage(s, d, m)'
  BY <1>9, FileSetsOut
<1>. QED BY <1>10

-----------------------------------------------------------------------------
(* What create sets out with.                                              *)

\* A name that is not found is new.
LEMMA NotFound ==
    ASSUME Types, Resting, Undamaged, NEW name \in Files, Found(name) = {}
    PROVE  \A t \in Others(slots, listed, 0) : slots[t].name # name
<1>. DEFINE T == {t \in Slots : Taken(t) /\ slots[t].name = name}
<1>1. T = {}
  <2>1. T \subseteq Nat
    BY FilesCounted
  <2>2. Least(T) = {}
    BY DEF Found
  <2>. HIDE DEF T
  <2>. QED BY <2>1, <2>2, LeastOf
<1>2. ASSUME NEW t \in Others(slots, listed, 0) PROVE t \in Slots /\ Taken(t)
  <2>1. Keeps(fat, slots[t], {})
    BY DEF Resting, Apart
  <2>. QED BY <2>1, KeepsSound, FilesCounted DEF Others, Taken, Types
<1>. QED BY <1>1, <1>2

\* Where no slot can be used again, the directory has room for one more.
LEMMA RoomForOne ==
    ASSUME Types, Resting, Undamaged, NEW name \in Files,
           \A t \in Others(slots, listed, 0) : slots[t].name # name,
           \A t \in 1 .. listed : t \in Others(slots, listed, 0)
    PROVE  listed + 1 \in Slots
<1>. DEFINE f == [t \in 1 .. listed |-> slots[t].name]
<1>1. listed \in Nat /\ IsFiniteSet(Files)
  BY FilesCounted, FilesAssumption DEF Types
<1>2. f \in Injection(1 .. listed, Files \ {name})
  <2>1. \A t \in 1 .. listed : slots[t].name \in Files \ {name}
    BY DEF Resting, Apart, Keeps
  <2>2. \A t, u \in 1 .. listed : t # u => slots[t].name # slots[u].name
    BY DEF Resting, Apart, Differ
  <2>. QED BY <2>1, <2>2 DEF Injection, IsInjective
<1>3. IsFiniteSet(Files \ {name}) /\ Cardinality(Files \ {name}) = Cardinality(Files) - 1
  BY <1>1, FS_RemoveElement
<1>4. Cardinality(1 .. listed) = listed
  BY <1>1, FS_Interval
<1>5. listed <= Cardinality(Files) - 1
  <2>. HIDE DEF f
  <2>1. Cardinality(1 .. listed) <= Cardinality(Files \ {name})
    BY <1>2, <1>3, FS_Injection
  <2>. QED BY <1>3, <1>4, <2>1
<1>. QED BY <1>1, <1>5, FilesCounted

\* Two writes, twice.
LEMMA TwoWrites ==
    ASSUME NEW x, NEW y
    PROVE  /\ <<x, y>> \o <<x, y>> = <<x, y, x, y>>
           /\ <<x, y>> \in Seq({x, y}) /\ <<x, y, x, y>> \in Seq({x, y})
<1>. DEFINE S == {x, y}
            p == <<x, y>>
            q == <<x, y, x, y>>
            w == p \o p
<1>1. x \in S /\ y \in S
  OBVIOUS
<1>. HIDE DEF S
<1>2. p \in Seq(S) /\ Len(p) = 2 /\ p[1] = x /\ p[2] = y
  BY <1>1
<1>3. q \in Seq(S) /\ Len(q) = 4 /\ q[1] = x /\ q[2] = y /\ q[3] = x /\ q[4] = y
  BY <1>1
<1>. HIDE DEF p, q, w
<1>4. w = q
  <2>1. /\ w \in Seq(S) /\ Len(w) = 4
        /\ \A i \in 1 .. 4 : w[i] = IF i <= 2 THEN p[i] ELSE p[i - 2]
    BY <1>2, ConcatProperties DEF w
  <2>2. \A i \in 1 .. 4 : i = 1 \/ i = 2 \/ i = 3 \/ i = 4
    OBVIOUS
  <2>3. \A i \in 1 .. 4 : w[i] = q[i]
    BY <1>2, <1>3, <2>1, <2>2
  <2>. QED BY <1>3, <2>1, <2>3, SeqEqual
<1>. QED BY <1>2, <1>3, <1>4 DEF p, q, w, S

\* Three writes, and the first two of them again.
LEMMA ThreeWrites ==
    ASSUME NEW x, NEW y, NEW z
    PROVE  /\ <<x, y, z>> \o <<x, y>> = <<x, y, z, x, y>>
           /\ <<x, y, z, x, y>> \in Seq({x, y, z})
<1>. DEFINE S == {x, y, z}
            p == <<x, y, z>>
            r == <<x, y>>
            q == <<x, y, z, x, y>>
            w == p \o r
<1>1. x \in S /\ y \in S /\ z \in S
  OBVIOUS
<1>. HIDE DEF S
<1>2. /\ p \in Seq(S) /\ Len(p) = 3 /\ p[1] = x /\ p[2] = y /\ p[3] = z
      /\ r \in Seq(S) /\ Len(r) = 2 /\ r[1] = x /\ r[2] = y
  BY <1>1
<1>3. /\ q \in Seq(S) /\ Len(q) = 5
      /\ q[1] = x /\ q[2] = y /\ q[3] = z /\ q[4] = x /\ q[5] = y
  BY <1>1
<1>. HIDE DEF p, r, q, w
<1>4. w = q
  <2>1. /\ w \in Seq(S) /\ Len(w) = 5
        /\ \A i \in 1 .. 5 : w[i] = IF i <= 3 THEN p[i] ELSE r[i - 3]
    <3>1. /\ w \in Seq(S) /\ Len(w) = Len(p) + Len(r)
          /\ \A i \in 1 .. Len(p) + Len(r) : w[i] = IF i <= Len(p) THEN p[i] ELSE r[i - Len(p)]
      BY <1>2, ConcatProperties, Zenon DEF w
    <3>2. Len(p) + Len(r) = 5
      BY <1>2
    <3>. QED BY <1>2, <3>1, <3>2
  <2>2. \A i \in 1 .. 5 : i = 1 \/ i = 2 \/ i = 3 \/ i = 4 \/ i = 5
    OBVIOUS
  <2>3. \A i \in 1 .. 5 : w[i] = q[i]
    BY <1>2, <1>3, <2>1, <2>2
  <2>. QED BY <1>3, <2>1, <2>3, SeqEqual
<1>. QED BY <1>3, <1>4 DEF p, r, q, w, S

\* newFile, by what it found: a slot that was freed, no room, or the slot at the end.
LEMMA Inserted ==
    ASSUME NEW name, NEW b, NEW made \in Insert(name, b)
    PROVE  LET freed == Least({s \in 1 .. listed : ~Taken(s) /\ slots[s].start # b})
               mark == Mark(b, FINAL)
               save(s) == Save(s, NewEntry(name, b))
           IN  \/ /\ \E s \in freed : made.writes = <<mark, save(s), mark, save(s)>>
                  /\ made.result = <<>>
               \/ made.writes = <<mark, Mark(b, FREE)>> /\ made.result = Absent
               \/ /\ freed = {} /\ made.result = <<>>
                  /\ made.writes = <<mark, save(listed + 1), Lengthen, mark, save(listed + 1)>>
<1>. DEFINE freed == Least({s \in 1 .. listed : ~Taken(s) /\ slots[s].start # b})
            mark == Mark(b, FINAL)
            save(s) == Save(s, NewEntry(name, b))
<1>1. /\ \A x, y : <<x, y>> \o <<x, y>> = <<x, y, x, y>>
      /\ \A x, y, z : <<x, y, z>> \o <<x, y>> = <<x, y, z, x, y>>
  BY TwoWrites, ThreeWrites
<1>2. \/ \E s \in freed : made = [writes |-> <<mark, save(s)>> \o <<mark, save(s)>>, result |-> <<>>]
      \/ made = [writes |-> <<mark, Mark(b, FREE)>>, result |-> Absent]
      \/ /\ freed = {}
         /\ made = [writes |-> <<mark, save(listed + 1), Lengthen>> \o <<mark, save(listed + 1)>>,
                    result |-> <<>>]
  <2>. HIDE DEF freed
  <2>1. freed # {} => \E s \in freed :
                         made = [writes |-> <<mark, save(s)>> \o <<mark, save(s)>>, result |-> <<>>]
    BY Zenon DEF Insert, freed, NewEntry
  <2>2. freed = {} =>
            \/ made = [writes |-> <<mark, Mark(b, FREE)>>, result |-> Absent]
            \/ made = [writes |-> <<mark, save(listed + 1), Lengthen>> \o <<mark, save(listed + 1)>>,
                       result |-> <<>>]
    BY Zenon DEF Insert, freed, NewEntry
  <2>. QED BY <2>1, <2>2
<1>. HIDE DEF freed, mark, save
<1>3. \A x, y : made = [writes |-> x, result |-> y] => made.writes = x /\ made.result = y
  OBVIOUS
<1>4. \/ /\ \E s \in freed : made.writes = <<mark, save(s)>> \o <<mark, save(s)>>
         /\ made.result = <<>>
      \/ made.writes = <<mark, Mark(b, FREE)>> /\ made.result = Absent
      \/ /\ freed = {} /\ made.result = <<>>
         /\ made.writes = <<mark, save(listed + 1), Lengthen>> \o <<mark, save(listed + 1)>>
  <2>1. ASSUME NEW s \in freed,
               made = [writes |-> <<mark, save(s)>> \o <<mark, save(s)>>, result |-> <<>>]
        PROVE  made.writes = <<mark, save(s)>> \o <<mark, save(s)>> /\ made.result = <<>>
    BY <1>3, <2>1, Zenon
  <2>2. ASSUME made = [writes |-> <<mark, Mark(b, FREE)>>, result |-> Absent]
        PROVE  made.writes = <<mark, Mark(b, FREE)>> /\ made.result = Absent
    BY <1>3, <2>2, Zenon
  <2>3. ASSUME made = [writes |-> <<mark, save(listed + 1), Lengthen>> \o <<mark, save(listed + 1)>>,
                       result |-> <<>>]
        PROVE  /\ made.writes = <<mark, save(listed + 1), Lengthen>> \o <<mark, save(listed + 1)>>
               /\ made.result = <<>>
    BY <1>3, <2>3, Zenon
  <2>. QED BY <1>2, <2>1, <2>2, <2>3, Zenon
<1>5. \/ /\ \E s \in freed : made.writes = <<mark, save(s), mark, save(s)>>
         /\ made.result = <<>>
      \/ made.writes = <<mark, Mark(b, FREE)>> /\ made.result = Absent
      \/ /\ freed = {} /\ made.result = <<>>
         /\ made.writes = <<mark, save(listed + 1), Lengthen, mark, save(listed + 1)>>
  BY <1>1, <1>4, Zenon
<1>. QED BY <1>5, Zenon DEF freed, mark, save

\* A slot that no file has.
Unused(s) == s \notin Others(slots, listed, 0)

\* create begins: with the first free block, for a slot that was freed or the one at the end.
LEMMA CreateBegins ==
    ASSUME Types, Resting, Undamaged, NEW c, c.name \in Files, NEW plan \in CreatePlans(c),
           todo' = plan.writes, call'.name = c.name, UNCHANGED <<fat, slots, listed, cuts>>
    PROVE  Types' /\ \/ \E s, b : CreateStage(s, b)' /\ Unused(s) /\ plan.result = <<>>
                     \/ \E b : NoRoom(b)' /\ plan.result = Absent
<1>1. Found(c.name) = {}
  BY DEF CreatePlans
<1>2. PICK b \in FindFreeBlock(fat) :
          \E made \in Insert(c.name, b) : todo' = made.writes /\ plan.result = made.result
  BY <1>1 DEF CreatePlans
<1>3. PICK made \in Insert(c.name, b) : todo' = made.writes /\ plan.result = made.result
  BY <1>2
<1>4. b \in DataBlocks /\ fat[b] = FREE /\ b # FREE
  <2>1. b \in Blocks /\ fat[b] = FREE
    BY DEF FindFreeBlock, FreeBlocks
  <2>2. b \notin 0 .. FatBlocks
    BY <2>1 DEF Types
  <2>. QED BY <2>1, <2>2, BlockAssumption, DataAreBlocks DEF DataBlocks, Blocks, RootBlock
<1>5. /\ Apart(fat, slots, listed, 0, {}, cuts) /\ cuts \in Nat /\ listed \in Nat
      /\ \A t \in 1 .. listed : t \in Slots
      /\ NewName(slots, listed, 0, c.name)
  BY <1>1, NotFound, FilesCounted DEF Resting, Types, NewName
<1>6. ASSUME NEW t \in Others(slots, listed, 0) PROVE Taken(t) /\ slots[t].start # b
  <2>1. Keeps(fat, slots[t], {})
    BY <1>5 DEF Apart
  <2>2. t \in 1 .. listed /\ slots[t].start # FREE
    BY DEF Others
  <2>. QED BY <1>4, <1>5, <2>1, <2>2, KeepsSound DEF Taken
<1>. DEFINE e == NewEntry(c.name, b)
            mark == Mark(b, FINAL)
            save(s) == Save(s, e)
            U == {s \in 1 .. listed : ~Taken(s) /\ slots[s].start # b}
<1>7. \/ /\ \E s \in Least(U) : todo' = <<mark, save(s), mark, save(s)>>
         /\ plan.result = <<>>
      \/ todo' = <<mark, Mark(b, FREE)>> /\ plan.result = Absent
      \/ /\ Least(U) = {} /\ plan.result = <<>>
         /\ todo' = <<mark, save(listed + 1), Lengthen, mark, save(listed + 1)>>
  <2>1. \/ /\ \E s \in Least(U) : made.writes = <<mark, save(s), mark, save(s)>>
           /\ made.result = <<>>
        \/ made.writes = <<mark, Mark(b, FREE)>> /\ made.result = Absent
        \/ /\ Least(U) = {} /\ made.result = <<>>
           /\ made.writes = <<mark, save(listed + 1), Lengthen, mark, save(listed + 1)>>
    BY Inserted, Zenon
  <2>. HIDE DEF U, mark, save
  <2>. QED BY <1>3, <2>1, Zenon
<1>8. Least(U) \subseteq U /\ (Least(U) = {} => U = {})
  <2>1. U \subseteq Nat
    OBVIOUS
  <2>. HIDE DEF U
  <2>. QED BY <2>1, LeastOf
<1>9. Types'
  <2>1. \E S : todo' \in Seq(S)
    <3>. HIDE DEF mark, save, U
    <3>1. ASSUME NEW s, todo' = <<mark, save(s), mark, save(s)>>
          PROVE  todo' \in Seq({mark, save(s)})
      BY <3>1, TwoWrites, Zenon
    <3>2. ASSUME todo' = <<mark, Mark(b, FREE)>>
          PROVE  todo' \in Seq({mark, Mark(b, FREE)})
      BY <3>2, TwoWrites, Zenon
    <3>3. ASSUME todo' = <<mark, save(listed + 1), Lengthen, mark, save(listed + 1)>>
          PROVE  todo' \in Seq({mark, save(listed + 1), Lengthen})
      BY <3>3, ThreeWrites, Zenon
    <3>. QED BY <1>7, <3>1, <3>2, <3>3, Zenon
  <2>. QED BY <2>1 DEF Types
<1>10. ASSUME NEW s \in Slots, s \notin Others(slots, listed, 0)
       PROVE  Apart(fat, slots, listed, s, {b}, cuts) /\ NewName(slots, listed, s, c.name)
  <2>1. Apart(fat, slots, listed, s, {b}, cuts)
    BY <1>4, <1>5, <1>10, SetAside
  <2>. QED BY <1>5, <2>1 DEF NewName, Others
<1>11. ASSUME NEW s \in Slots, s \notin Others(slots, listed, 0),
              Creating(fat, listed, s, e, slots[s], todo')
       PROVE  CreateStage(s, b)' /\ Unused(s)
  BY <1>4, <1>10, <1>11 DEF CreateStage, Unused
<1>12. e.start = b
  BY DEF NewEntry
<1>13. ASSUME NEW s \in Least(U), todo' = <<mark, save(s), mark, save(s)>>
       PROVE  CreateStage(s, b)' /\ Unused(s)
  <2>1. s \in 1 .. listed /\ s \in Slots /\ s <= listed /\ s \notin Others(slots, listed, 0)
    <3>1. s \in 1 .. listed /\ ~Taken(s)
      BY <1>8
    <3>. QED BY <1>5, <1>6, <3>1
  <2>2. slots[s].start = FREE
    BY <2>1 DEF Others
  <2>. HIDE DEF e
  <2>3. Creating(fat, listed, s, e, slots[s], todo')
    BY <1>4, <1>12, <1>13, <2>1, <2>2, Zenon DEF Creating
  <2>. HIDE DEF U
  <2>. QED BY <1>11, <2>1, <2>3
<1>14. ASSUME todo' = <<mark, Mark(b, FREE)>> PROVE NoRoom(b)'
  <2>1. 0 \notin Others(slots, listed, 0)
    BY DEF Others
  <2>2. Apart(fat, slots, listed, 0, {b}, cuts)
    BY <1>4, <1>5, <2>1, SetAside
  <2>. QED BY <1>4, <1>14, <2>2 DEF NoRoom
<1>15. ASSUME Least(U) = {}, todo' = <<mark, save(listed + 1), Lengthen, mark, save(listed + 1)>>
       PROVE  CreateStage(listed + 1, b)' /\ Unused(listed + 1)
  <2>1. ASSUME NEW t \in 1 .. listed PROVE t \in Others(slots, listed, 0)
    <3>1. Taken(t) \/ slots[t].start = b
      BY <1>8, <1>15
    <3>2. slots[t].start # FREE
      BY <1>4, <3>1 DEF Taken
    <3>. QED BY <3>2 DEF Others
  <2>2. listed + 1 \in Slots
    BY <1>5, <2>1, RoomForOne DEF NewName
  <2>3. listed + 1 \notin Others(slots, listed, 0)
    BY <1>5 DEF Others
  <2>. HIDE DEF e, U
  <2>4. Creating(fat, listed, listed + 1, e, slots[listed + 1], todo')
    BY <1>4, <1>12, <1>15, Zenon DEF Creating
  <2>. QED BY <1>11, <2>2, <2>3, <2>4
<1>. HIDE DEF U, mark, save
<1>. QED BY <1>7, <1>9, <1>13, <1>14, <1>15

-----------------------------------------------------------------------------
(* The order of the writes, and what it keeps apart.                       *)

\* A call begins on a directory in order, with the blocks and the writes of its stage.
LEMMA BeginStep ==
    ASSUME IInv, NEW c \in Calls, Begin(c) PROVE IInv'
<1>1. Idle /\ Undamaged /\ Types /\ Resting
  BY DEF IInv, Begin
<1>2. PICK plan \in Plans(c) :
          /\ todo' = plan.writes
          /\ call' = [op |-> c.op, name |-> c.name, result |-> plan.result, kept |-> plan.kept]
  BY DEF Begin
<1>3. UNCHANGED <<fat, slots, listed, cuts>>
  BY DEF Begin
<1>4. call'.op = c.op /\ call'.name = c.name
  BY <1>2
<1>5. ~Idle'
  <2>1. c.op # "none"
    BY FilesAssumption
  <2>. QED BY <1>4, <2>1 DEF Idle, NoCall
<1>6. CASE c.op = "create"
  <2>1. plan \in CreatePlans(c) /\ c.name \in Files
    BY <1>6, FilesAssumption DEF Plans
  <2>2. Types' /\ ((\E s, b : CreateStage(s, b)') \/ (\E b : NoRoom(b)'))
    BY <1>1, <1>2, <1>3, <1>4, <2>1, CreateBegins
  <2>. QED BY <1>4, <1>5, <1>6, <2>2 DEF IInv, Busy
<1>7. CASE c.op = "remove"
  <2>1. plan \in RemovePlans(c)
    BY <1>7 DEF Plans
  <2>2. Types' /\ \E s, d, n : FileStage(s, d, n)'
    BY <1>1, <1>2, <1>3, <2>1, RemoveBegins
  <2>. QED BY <1>4, <1>5, <1>7, <2>2 DEF IInv, Busy
<1>8. CASE c.op = "truncate"
  <2>1. plan \in TruncatePlans(c) /\ c.size \in Nat
    BY <1>8, FilesAssumption DEF Plans
  <2>2. Types' /\ \E s, d, n : FileStage(s, d, n)'
    BY <1>1, <1>2, <1>3, <2>1, TruncateBegins
  <2>. QED BY <1>4, <1>5, <1>8, <2>2 DEF IInv, Busy
<1>9. CASE c.op = "write"
  <2>1. plan \in WritePlans(c) /\ c.offset \in Nat /\ c.bytes \in Seq(Nat)
    BY <1>9, FilesAssumption DEF Plans
  <2>2. Types' /\ \E s, d, n : FileStage(s, d, n)'
    BY <1>1, <1>2, <1>3, <2>1, WriteBegins
  <2>. QED BY <1>4, <1>5, <1>9, <2>2 DEF IInv, Busy
<1>. QED BY <1>6, <1>7, <1>8, <1>9, FilesAssumption

\* The invariant holds on.
LEMMA StaysInOrder == Spec => []IInv
<1>1. Init => IInv
  BY InitIInv
<1>2. IInv /\ [Next]_vars => IInv'
  <2>1. SUFFICES ASSUME IInv, [Next]_vars PROVE IInv'
    OBVIOUS
  <2>2. CASE UNCHANGED vars
    BY <2>1, <2>2 DEF vars, IInv, Idle, Types, Resting, Busy, Disjoint, Undamaged, Sound, Taken,
                      CreateStage, NoRoom, FileStage
  <2>3. ASSUME NEW c \in Calls, Begin(c) PROVE IInv'
    BY <2>1, <2>3, BeginStep
  <2>4. CASE Write
    BY <2>1, <2>4, WriteStep
  <2>5. CASE Return
    BY <2>1, <2>5, ReturnStep
  <2>6. CASE PowerCut
    BY <2>1, <2>6, PowerCutStep
  <2>. QED BY <2>1, <2>2, <2>3, <2>4, <2>5, <2>6 DEF Next
<1>. QED BY <1>1, <1>2, PTL DEF Spec

\* No block is on the chains of two files, and what power cuts lose is a block each.
THEOREM NoBlockHasTwoFiles == Spec => []BlocksAreOwned
<1>1. IInv => BlocksAreOwned
  <2>1. SUFFICES ASSUME IInv PROVE BlocksAreOwned
    OBVIOUS
  <2>2. Types /\ Disjoint
    BY <2>1, BusyDisjoint DEF IInv, Resting
  <2>. DEFINE listing == {s \in Slots : Taken(s)}
              chain == [s \in listing |-> Chain(fat, slots[s].start)]
              owned == UNION {chain[s] : s \in listing}
              lost == {b \in DataBlocks \ {RootBlock} : fat[b] # FREE /\ b \notin owned}
  <2>3. \A s, t \in listing : s # t => chain[s] \cap chain[t] = {}
    BY <2>2 DEF Disjoint
  <2>4. ASSUME Idle, Undamaged PROVE Cardinality(lost) <= cuts
    <3>1. Apart(fat, slots, listed, 0, {}, cuts)
      BY <2>1, <2>4 DEF IInv, Resting
    <3>2. listing = Others(slots, listed, 0)
      <4>1. ASSUME NEW s \in listing PROVE s \in Others(slots, listed, 0)
        BY <2>2, FilesCounted DEF Types, Taken, Others
      <4>2. ASSUME NEW s \in Others(slots, listed, 0) PROVE s \in listing
        <5>1. Keeps(fat, slots[s], {})
          BY <3>1 DEF Apart
        <5>2. s \in Slots /\ s <= listed /\ slots[s].start # FREE
          BY <2>2, FilesCounted DEF Types, Others
        <5>. QED BY <5>1, <5>2, KeepsSound DEF Taken
      <4>. QED BY <4>1, <4>2
    <3>3. lost = Lost(fat, slots, listed, 0, {})
      <4>1. owned = UNION {Chain(fat, slots[s].start) : s \in listing}
        OBVIOUS
      <4>. HIDE DEF listing, owned
      <4>. QED BY <3>2, <4>1 DEF Lost
    <3>. QED BY <3>1, <3>3 DEF Apart
  <2>. QED BY <2>3, <2>4 DEF BlocksAreOwned
<1>. QED BY <1>1, StaysInOrder, PTL

\* Wherever create is cut off, no entry names a free block.
THEOREM CreatesWholeFiles == Spec => []CreateIsAtomic
<1>1. IInv => CreateIsAtomic
  <2>1. SUFFICES ASSUME IInv, call.op = "create" PROVE Undamaged
    BY DEF CreateIsAtomic
  <2>2. ~Idle
    BY <2>1 DEF Idle, NoCall
  <2>. QED BY <2>1, <2>2, CreateCalm DEF IInv
<1>. QED BY <1>1, StaysInOrder, PTL

-----------------------------------------------------------------------------
(* Where the bytes of a file lie.                                          *)

\* Where the i-th byte of a file is that has the blocks c.
Place(c, i) == c[((i - 1) \div BlockSize) + 1] * BlockSize + ((i - 1) % BlockSize)

\* The addresses in a block.
Within(b, a) == a \in Int /\ b * BlockSize <= a /\ a < b * BlockSize + BlockSize

\* Dividing by the size of a block.
LEMMA Divided ==
    ASSUME NEW x \in Nat
    PROVE  /\ x \div BlockSize \in Nat /\ x % BlockSize \in Nat /\ x % BlockSize < BlockSize
           /\ x = (x \div BlockSize) * BlockSize + (x % BlockSize)
<1>1. BlockSize \in Nat /\ BlockSize > 0
  BY FilesAssumption
<1>2. \A b \in Nat : b > 0 => /\ x \div b \in Nat /\ x % b \in Nat /\ x % b < b
                             /\ x = (x \div b) * b + (x % b)
  BY Z3
<1>. QED BY <1>1, <1>2

\* There is one way to divide.
LEMMA DividedAs ==
    ASSUME NEW k \in Nat, NEW y \in Nat, y < BlockSize
    PROVE  (k * BlockSize + y) \div BlockSize = k /\ (k * BlockSize + y) % BlockSize = y
<1>1. BlockSize \in Nat /\ BlockSize > 0
  BY FilesAssumption
<1>2. \A b \in Nat : b > 0 /\ y < b => (k * b + y) \div b = k /\ (k * b + y) % b = y
  BY Z3
<1>. QED BY <1>1, <1>2

\* Products with the size of a block keep the order.
LEMMA Ordered ==
    ASSUME NEW x \in Int, NEW y \in Int
    PROVE  /\ x < y => x * BlockSize + BlockSize <= y * BlockSize
           /\ x * BlockSize \in Int
<1>1. BlockSize \in Nat /\ BlockSize > 0
  BY FilesAssumption
<1>2. \A b \in Nat : b > 0 => (x < y => x * b + b <= y * b) /\ x * b \in Int
  BY Z3
<1>. QED BY <1>1, <1>2

\* How many bytes that many blocks hold.
LEMMA BlocksForIs ==
    ASSUME NEW size \in Nat, NEW k \in Nat
    PROVE  /\ BlocksFor(size) \in Nat
           /\ BlocksFor(size) <= k <=> size <= k * BlockSize
<1>1. BlockSize \in Nat /\ BlockSize > 0
  BY FilesAssumption
<1>2. \A b \in Nat : b > 0 => /\ (size + b - 1) \div b \in Nat
                             /\ (size + b - 1) \div b <= k <=> size <= k * b
  BY Z3
<1>. QED BY <1>1, <1>2 DEF BlocksFor

\* The block a byte of a file is in.
LEMMA Placed ==
    ASSUME NEW c, NEW n, Row(c, n), NEW i \in Nat, i >= 1, i <= n * BlockSize
    PROVE  LET k == (i - 1) \div BlockSize
           IN  /\ k + 1 \in 1 .. n /\ c[k + 1] \in DataBlocks
               /\ Within(c[k + 1], Place(c, i)) /\ Place(c, i) \in Addresses
               /\ (i - 1) % BlockSize \in Nat /\ (i - 1) % BlockSize < BlockSize
               /\ i - 1 = k * BlockSize + ((i - 1) % BlockSize)
               /\ Place(c, i) = c[k + 1] * BlockSize + ((i - 1) % BlockSize)
<1>. DEFINE k == (i - 1) \div BlockSize
            y == (i - 1) % BlockSize
<1>0. n \in Nat /\ BlockSize \in Nat /\ BlockSize > 0 /\ i - 1 \in Nat
  BY FilesAssumption DEF Row
<1>1. k \in Nat /\ y \in Nat /\ y < BlockSize /\ i - 1 = k * BlockSize + y
  BY <1>0, Divided
<1>2. Place(c, i) = c[k + 1] * BlockSize + y
  BY DEF Place
<1>. HIDE DEF k, y
<1>3. k < n
  <2>1. ~(n < k)
    <3>1. n < k => n * BlockSize + BlockSize <= k * BlockSize
      BY <1>0, <1>1, Ordered
    <3>2. k * BlockSize \in Int /\ n * BlockSize \in Int
      BY <1>0, <1>1, Ordered
    <3>. QED BY <1>0, <1>1, <3>1, <3>2
  <2>2. k # n
    <3>1. n * BlockSize \in Int
      BY <1>0, Ordered
    <3>. QED BY <1>0, <1>1, <3>1
  <2>. QED BY <1>0, <1>1, <2>1, <2>2
<1>4. k + 1 \in 1 .. n /\ c[k + 1] \in DataBlocks
  BY <1>0, <1>1, <1>3 DEF Row
<1>. DEFINE b == c[k + 1]
<1>5. b \in Nat /\ b < BlockCount /\ BlockCount \in Nat
  BY <1>4, BlockAssumption DEF DataBlocks, RootBlock
<1>. HIDE DEF b
<1>6. b * BlockSize \in Int /\ BlockCount * BlockSize \in Int /\ b * BlockSize + BlockSize <= BlockCount * BlockSize
  BY <1>5, Ordered
<1>7. b * BlockSize >= 0
  <2>1. 0 * BlockSize = 0
    BY <1>0
  <2>2. b = 0 \/ 0 < b
    BY <1>5
  <2>3. 0 < b => 0 * BlockSize + BlockSize <= b * BlockSize
    BY <1>5, Ordered
  <2>. QED BY <1>0, <1>6, <2>1, <2>2, <2>3
<1>8. b * BlockSize + y \in Int /\ Within(b, b * BlockSize + y) /\ b * BlockSize + y \in Addresses
  BY <1>0, <1>1, <1>6, <1>7 DEF Within, Addresses
<1>9. Within(c[k + 1], Place(c, i)) /\ Place(c, i) \in Addresses
  BY <1>2, <1>8 DEF b
<1>. QED BY <1>1, <1>2, <1>4, <1>9 DEF k, y

\* Blocks do not overlap.
LEMMA OneWithin ==
    ASSUME NEW a, NEW b \in DataBlocks, NEW d \in DataBlocks, Within(b, a), Within(d, a)
    PROVE  b = d
<1>1. b \in Int /\ d \in Int /\ BlockSize \in Nat
  BY BlockAssumption, FilesAssumption DEF DataBlocks, RootBlock
<1>2. /\ b < d => b * BlockSize + BlockSize <= d * BlockSize
      /\ d < b => d * BlockSize + BlockSize <= b * BlockSize
      /\ b * BlockSize \in Int /\ d * BlockSize \in Int
  BY <1>1, Ordered
<1>3. ~(b < d) /\ ~(d < b)
  BY <1>1, <1>2 DEF Within
<1>. QED BY <1>1, <1>3

-----------------------------------------------------------------------------
(* What pending writes do to a byte.                                       *)

\* The writes of a run.
Among(writes) == {writes[i] : i \in 1 .. Len(writes)}

\* A write of data that covers an address, and the byte it puts there.
Covers(w, a) == w.to = "data" /\ a - w.address + 1 \in DOMAIN w.bytes
Gives(w, a) == w.bytes[a - w.address + 1]

\* All that cover an address put the same byte there.
Agreeing(writes, a, v) == \A w \in Among(writes) : Covers(w, a) => Gives(w, a) = v

\* The byte at an address is v, if it matters, and stays so.
Steady(dat, writes, a, v) == v = Any \/ (dat[a] = v /\ Agreeing(writes, a, v))

\* The byte at an address is v, if it matters, when the writes are made.
Coming(dat, writes, a, v) ==
    v = Any \/ (Agreeing(writes, a, v) /\ (dat[a] = v \/ \E w \in Among(writes) : Covers(w, a)))

\* What a write leaves of the bytes.
Stored(dat, later, w) ==
    \A a \in Addresses : later[a] = IF Covers(w, a) THEN Gives(w, a) ELSE dat[a]

\* The first write and the others.
LEMMA AmongOnwards ==
    ASSUME NEW S, NEW writes \in Seq(S), writes # <<>>
    PROVE  Among(writes) = {Head(writes)} \union Among(Tail(writes))
<1>1. /\ Len(writes) \in Nat /\ Len(writes) > 0
      /\ Len(Tail(writes)) = Len(writes) - 1
      /\ Head(writes) = writes[1]
      /\ \A i \in 1 .. Len(writes) - 1 : Tail(writes)[i] = writes[i + 1]
  BY Onwards
<1>2. ASSUME NEW i \in 1 .. Len(writes)
      PROVE  writes[i] \in {Head(writes)} \union Among(Tail(writes))
  <2>1. CASE i = 1
    BY <1>1, <2>1
  <2>2. CASE i # 1
    <3>1. i - 1 \in 1 .. Len(writes) - 1 /\ (i - 1) + 1 = i
      BY <1>1, <2>2
    <3>2. writes[i] = Tail(writes)[i - 1] /\ i - 1 \in 1 .. Len(Tail(writes))
      BY <1>1, <3>1
    <3>. QED BY <3>2 DEF Among
  <2>. QED BY <2>1, <2>2
<1>3. Head(writes) \in Among(writes)
  <2>1. 1 \in 1 .. Len(writes)
    BY <1>1
  <2>. QED BY <1>1, <2>1 DEF Among
<1>4. ASSUME NEW i \in 1 .. Len(Tail(writes)) PROVE Tail(writes)[i] \in Among(writes)
  <2>1. i + 1 \in 1 .. Len(writes) /\ Tail(writes)[i] = writes[i + 1]
    BY <1>1
  <2>. QED BY <2>1 DEF Among
<1>5. Among(writes) \subseteq {Head(writes)} \union Among(Tail(writes))
  BY <1>2 DEF Among
<1>6. Among(Tail(writes)) \subseteq Among(writes)
  BY <1>4 DEF Among
<1>. QED BY <1>3, <1>5, <1>6

\* No writes.
LEMMA AmongNone == Among(<<>>) = {}
<1>1. Len(<<>>) = 0 /\ 1 .. 0 = {}
  OBVIOUS
<1>. QED BY <1>1 DEF Among

\* One write.
LEMMA AmongOne == \A w : Among(<<w>>) = {w}
<1>1. \A w : Len(<<w>>) = 1 /\ <<w>>[1] = w
  OBVIOUS
<1>2. 1 .. 1 = {1}
  OBVIOUS
<1>. QED BY <1>1, <1>2 DEF Among

\* Two runs of writes.
LEMMA AmongBoth ==
    ASSUME NEW x, NEW y, Series(x), Series(y)
    PROVE  Among(x \o y) = Among(x) \union Among(y)
<1>1. PICK A : x \in Seq(A)
  BY DEF Series
<1>2. PICK B : y \in Seq(B)
  BY DEF Series
<1>. DEFINE w == x \o y
<1>3. w = x \o y
  OBVIOUS
<1>. HIDE DEF w
<1>4. /\ w \in Seq(A \union B) /\ Len(w) = Len(x) + Len(y)
      /\ Len(x) \in Nat /\ Len(y) \in Nat
      /\ \A i \in 1 .. Len(x) : w[i] = x[i]
      /\ \A i \in 1 .. Len(y) : w[Len(x) + i] = y[i]
  BY <1>1, <1>2, <1>3, Joint
<1>5. ASSUME NEW i \in 1 .. Len(w) PROVE w[i] \in Among(x) \union Among(y)
  <2>1. CASE i <= Len(x)
    <3>1. i \in 1 .. Len(x)
      BY <1>4, <2>1
    <3>. QED BY <1>4, <3>1 DEF Among
  <2>2. CASE i > Len(x)
    <3>1. i - Len(x) \in 1 .. Len(y) /\ Len(x) + (i - Len(x)) = i
      BY <1>4, <2>2
    <3>2. w[i] = y[i - Len(x)]
      BY <1>4, <3>1
    <3>. QED BY <3>1, <3>2 DEF Among
  <2>. QED BY <1>4, <2>1, <2>2
<1>6. ASSUME NEW i \in 1 .. Len(x) PROVE x[i] \in Among(w)
  <2>1. i \in 1 .. Len(w)
    BY <1>4
  <2>. QED BY <1>4, <2>1 DEF Among
<1>7. ASSUME NEW i \in 1 .. Len(y) PROVE y[i] \in Among(w)
  <2>1. Len(x) + i \in 1 .. Len(w)
    BY <1>4
  <2>. QED BY <1>4, <2>1 DEF Among
<1>8. Among(w) = Among(x) \union Among(y)
  BY <1>5, <1>6, <1>7 DEF Among
<1>. QED BY <1>8 DEF w

\* A byte that stays, stays after a write, and a byte that comes still comes.
LEMMA StoredByte ==
    ASSUME NEW dat, NEW later, NEW S, NEW writes \in Seq(S), writes # <<>>,
           Stored(dat, later, Head(writes)), NEW a \in Addresses, NEW v
    PROVE  /\ Steady(dat, writes, a, v) => Steady(later, Tail(writes), a, v)
           /\ Coming(dat, writes, a, v) => Coming(later, Tail(writes), a, v)
<1>1. Among(writes) = {Head(writes)} \union Among(Tail(writes))
  BY AmongOnwards
<1>. DEFINE h == Head(writes)
            t == Tail(writes)
<1>2. later[a] = IF Covers(h, a) THEN Gives(h, a) ELSE dat[a]
  BY DEF Stored
<1>3. Among(writes) = {h} \union Among(t)
  BY <1>1
<1>. HIDE DEF h, t
<1>4. Agreeing(writes, a, v) => Agreeing(t, a, v) /\ (Covers(h, a) => Gives(h, a) = v)
  BY <1>3 DEF Agreeing
<1>5. Steady(dat, writes, a, v) => Steady(later, t, a, v)
  BY <1>2, <1>4 DEF Steady
<1>6. Coming(dat, writes, a, v) => Coming(later, t, a, v)
  BY <1>2, <1>3, <1>4 DEF Coming
<1>. QED BY <1>5, <1>6 DEF t

-----------------------------------------------------------------------------
(* What the files hold.                                                    *)

\* The bytes old lie on the n blocks p of a chain, those that matter.
Lies(table, dat, start, p, n, old) ==
    /\ Follows(table, start, p, n) /\ BlocksFor(Len(old)) <= n
    /\ \A i \in 1 .. Len(old) : old[i] = Any \/ dat[Place(p, i)] = old[i]

\* A file holds them.
Holds(table, dat, e, old) ==
    /\ old \in Seq(Int) /\ e.length = Len(old)
    /\ \E p, n : Lies(table, dat, e.start, p, n, old)

\* So does each but the one at s what its callers think, and no other file is thought to be
\* there, but for mine.
Told(table, dat, sl, l, s, held, mine) ==
    /\ \A t \in Others(sl, l, s) : Holds(table, dat, sl[t], held[sl[t].name])
    /\ \A name \in Files \ {mine} :
          (\A t \in Others(sl, l, s) : sl[t].name # name) => held[name] = Absent

\* A file that holds what its callers think, or is not there and they know.
Known(name, held) ==
    \/ held = Absent /\ \A t \in Slots : Taken(t) => slots[t].name # name
    \/ \E t \in Slots :
          /\ Taken(t) /\ slots[t].name = name
          /\ \A u \in Slots : Taken(u) /\ slots[u].name = name => u = t
          /\ Holds(fat, data, slots[t], held)

\* What happens outside of the blocks of a file does not change what it holds.
LEMMA HoldsElsewhere ==
    ASSUME NEW table, NEW other, NEW dat, NEW later, NEW e, NEW old, NEW W,
           Holds(table, dat, e, old), Chain(table, e.start) \cap W = {}, W \subseteq DataBlocks,
           \A b \in DataBlocks \ W : other[b] = table[b],
           \A a \in Addresses : (\A b \in W : ~Within(b, a)) => later[a] = dat[a]
    PROVE  Holds(other, later, e, old)
<1>1. PICK p, n : Lies(table, dat, e.start, p, n, old)
  BY DEF Holds
<1>2. Follows(table, e.start, p, n) /\ BlocksFor(Len(old)) <= n /\ old \in Seq(Int)
  BY <1>1 DEF Lies, Holds
<1>3. Follows(other, e.start, p, n)
  <2>1. \A b \in Chain(table, e.start) : b \in DataBlocks
    BY <1>2, FollowedTaken
  <2>2. \A b \in Chain(table, e.start) : other[b] = table[b]
    BY <2>1
  <2>. QED BY <1>2, <2>2, FollowsElsewhere
<1>4. Row(p, n) /\ Members(p, n) = Chain(table, e.start) /\ n \in Nat
  <2>1. Row(p, n) /\ Members(p, n) = Chain(table, e.start)
    BY <1>2, RowOf
  <2>. QED BY <2>1 DEF Row
<1>5. ASSUME NEW i \in 1 .. Len(old) PROVE old[i] = Any \/ later[Place(p, i)] = old[i]
  <2>1. Len(old) \in Nat
    BY <1>2
  <2>2. Len(old) <= n * BlockSize
    BY <1>2, <1>4, <2>1, BlocksForIs
  <2>3. i \in Nat /\ i >= 1 /\ i <= n * BlockSize
    <3>1. n * BlockSize \in Int
      BY <1>4, Ordered
    <3>. QED BY <2>1, <2>2, <3>1
  <2>. DEFINE k == (i - 1) \div BlockSize
              a == Place(p, i)
  <2>4. k + 1 \in 1 .. n /\ p[k + 1] \in DataBlocks /\ Within(p[k + 1], a) /\ a \in Addresses
    BY <1>4, <2>3, Placed
  <2>. HIDE DEF k, a
  <2>5. p[k + 1] \in Chain(table, e.start)
    BY <1>4, <2>4 DEF Members
  <2>6. ASSUME NEW b \in W PROVE ~Within(b, a)
    <3>1. SUFFICES ASSUME Within(b, a) PROVE FALSE
      OBVIOUS
    <3>2. b \in DataBlocks
      OBVIOUS
    <3>3. b = p[k + 1]
      BY <2>4, <3>1, <3>2, OneWithin
    <3>. QED BY <2>5, <3>3
  <2>7. later[a] = dat[a]
    BY <2>4, <2>6
  <2>8. old[i] = Any \/ dat[a] = old[i]
    BY <1>1 DEF Lies, a
  <2>. QED BY <2>7, <2>8 DEF a
<1>6. Lies(other, later, e.start, p, n, old)
  BY <1>2, <1>3, <1>5 DEF Lies
<1>. QED BY <1>6 DEF Holds

\* Writes to one file do not change what is known of the others.
LEMMA ToldKept ==
    ASSUME NEW table, NEW other, NEW dat, NEW later, NEW sl, NEW sm, NEW l, NEW m, NEW s, NEW W, NEW most,
           NEW held, NEW mine, Apart(table, sl, l, s, W, most), Told(table, dat, sl, l, s, held, mine),
           W \subseteq DataBlocks,
           \A b \in DataBlocks \ W : other[b] = table[b],
           \A a \in Addresses : (\A b \in W : ~Within(b, a)) => later[a] = dat[a],
           (1 .. m) \ {s} = (1 .. l) \ {s}, \A t \in (1 .. l) \ {s} : sm[t] = sl[t]
    PROVE  Told(other, later, sm, m, s, held, mine)
<1>1. Others(sm, m, s) = Others(sl, l, s) /\ \A t \in Others(sl, l, s) : sm[t] = sl[t]
  BY DEF Others
<1>2. ASSUME NEW t \in Others(sl, l, s) PROVE Holds(other, later, sl[t], held[sl[t].name])
  <2>1. Chain(table, sl[t].start) \cap W = {}
    BY DEF Apart, Keeps
  <2>2. Holds(table, dat, sl[t], held[sl[t].name])
    BY DEF Told
  <2>. DEFINE e == sl[t]
              old == held[sl[t].name]
  <2>3. Holds(table, dat, e, old) /\ Chain(table, e.start) \cap W = {}
    BY <2>1, <2>2
  <2>. HIDE DEF e, old
  <2>4. Holds(other, later, e, old)
    BY <2>3, HoldsElsewhere
  <2>. QED BY <2>4 DEF e, old
<1>3. \A t \in Others(sm, m, s) : Holds(other, later, sm[t], held[sm[t].name])
  BY <1>1, <1>2
<1>4. \A name \in Files \ {mine} :
          (\A t \in Others(sm, m, s) : sm[t].name # name) => held[name] = Absent
  BY <1>1 DEF Told
<1>. QED BY <1>3, <1>4 DEF Told

\* The entries in use, when all but s are sound.
LEMMA TakenOthers ==
    ASSUME Types, NEW s, NEW W, NEW most, Apart(fat, slots, listed, s, W, most)
    PROVE  /\ \A t \in Slots : Taken(t) /\ t # s => t \in Others(slots, listed, s)
           /\ \A t \in Others(slots, listed, s) : t \in Slots /\ Taken(t)
<1>1. listed \in Nat /\ \A t \in 1 .. listed : t \in Slots
  BY FilesCounted DEF Types
<1>2. \A t \in Slots : t \in Nat /\ t >= 1
  BY FilesCounted
<1>3. \A t \in Others(slots, listed, s) : fat[slots[t].start] # FREE
  <2>1. SUFFICES ASSUME NEW t \in Others(slots, listed, s) PROVE fat[slots[t].start] # FREE
    OBVIOUS
  <2>2. Keeps(fat, slots[t], W)
    BY DEF Apart
  <2>. QED BY <2>2, KeepsSound
<1>4. \A t \in Others(slots, listed, s) : t \in 1 .. listed /\ slots[t].start # FREE
  BY DEF Others
<1>5. \A t \in 1 .. listed : t <= listed
  BY <1>1
<1>6. \A t \in Slots : t <= listed => t \in 1 .. listed
  BY <1>1, <1>2
<1>. QED BY <1>1, <1>3, <1>4, <1>5, <1>6 DEF Taken, Others

\* What is known of the other files.
LEMMA OthersKnown ==
    ASSUME Types, NEW s, NEW W, NEW most, Apart(fat, slots, listed, s, W, most),
           NEW mine, Told(fat, data, slots, listed, s, content, mine),
           s \in Slots /\ Taken(s) => slots[s].name = mine,
           NEW name \in Files, name # mine
    PROVE  Known(name, content[name])
<1>1. /\ \A t \in Slots : Taken(t) /\ t # s => t \in Others(slots, listed, s)
      /\ \A t \in Others(slots, listed, s) : t \in Slots /\ Taken(t)
  BY TakenOthers
<1>2. \A t \in Slots : Taken(t) /\ slots[t].name = name => t \in Others(slots, listed, s)
  BY <1>1
<1>3. CASE \A t \in Others(slots, listed, s) : slots[t].name # name
  <2>1. content[name] = Absent
    BY <1>3 DEF Told
  <2>. QED BY <1>2, <1>3, <2>1 DEF Known
<1>4. CASE \E t \in Others(slots, listed, s) : slots[t].name = name
  <2>1. PICK t \in Others(slots, listed, s) : slots[t].name = name
    BY <1>4
  <2>2. Holds(fat, data, slots[t], content[name])
    BY <2>1 DEF Told
  <2>3. \A u \in Others(slots, listed, s) : slots[u].name = name => u = t
    BY <2>1 DEF Apart, Differ
  <2>. QED BY <1>1, <1>2, <2>1, <2>2, <2>3 DEF Known
<1>. QED BY <1>3, <1>4

\* What is known of the one at s, when there is one and when there is none.
LEMMA MineKnown ==
    ASSUME Types, NEW s, NEW W, NEW most, Apart(fat, slots, listed, s, W, most),
           NEW name, NewName(slots, listed, s, name)
    PROVE  /\ \A held : s \in Slots /\ Taken(s) /\ slots[s].name = name /\ Holds(fat, data, slots[s], held)
                            => Known(name, held)
           /\ ~(s \in Slots /\ Taken(s)) => Known(name, Absent)
<1>1. \A t \in Slots : Taken(t) /\ t # s => t \in Others(slots, listed, s)
  BY TakenOthers
<1>2. \A t \in Slots : Taken(t) /\ slots[t].name = name => t = s
  BY <1>1 DEF NewName
<1>. QED BY <1>2 DEF Known

\* What is known does not change with a call that ends.
LEMMA KnownStays ==
    ASSUME UNCHANGED <<fat, slots, listed, data>>, NEW name, NEW held, Known(name, held),
           content'[name] = held
    PROVE  Known(name, content[name])'
BY DEF Known, Taken

-----------------------------------------------------------------------------
(* What is known of the file that a call is about.                         *)

\* Pending writes of data stay in the row.
DataStays(c, n, writes) ==
    \A w \in Among(writes) :
        w.to = "data" => \E k \in 1 .. n : \A a \in Addresses : Covers(w, a) => Within(c[k], a)

\* The last mark that is made, or was, is that of the end of the chain, and it leaves
\* enough blocks in front of it.
LastMark(table, c, n, writes, need) ==
    \E k \in 1 .. n :
        /\ k >= need
        /\ \/ table[c[k]] = FINAL /\ \A w \in Among(writes) : w.to # "fat"
           \/ \E j \in 1 .. Len(writes) :
                 /\ writes[j] = Mark(c[k], FINAL)
                 /\ \A i \in j + 1 .. Len(writes) : writes[i].to # "fat"

\* The last write takes the file's first block out of its entry.
Ending(s, me, writes) ==
    IF writes = <<>> THEN me.start = FREE
    ELSE LET w == writes[Len(writes)] IN w.to = "slot" /\ w.slot = s /\ w.entry.start = FREE

\* The writes leave a file that holds res.
Promised(table, dat, c, n, me, writes, res) ==
    /\ res \in Seq(Int) /\ BlocksFor(Len(res)) <= n
    /\ me.start # FREE
    /\ \A w \in Among(writes) : w.to = "slot" => w.entry.start # FREE /\ w.entry.length = Len(res)
    /\ me.length = Len(res) \/ \E w \in Among(writes) : w.to = "slot"
    /\ LastMark(table, c, n, writes, BlocksFor(Len(res)))
    /\ \A i \in 1 .. Len(res) : Coming(dat, writes, Place(c, i), res[i])

\* The file held old, and holds res when the writes are made; the bytes of old that the call
\* has no business with are there all the time.
Handled(table, dat, c, n, s, me, writes, old, kept, op, res) ==
    /\ old \in Seq(Int) /\ BlocksFor(Len(old)) <= n
    /\ DataStays(c, n, writes)
    /\ \A i \in (1 .. Len(old)) \cap kept : Steady(dat, writes, Place(c, i), old[i])
    /\ IF op = "remove" THEN res = Absent /\ Ending(s, me, writes)
       ELSE Promised(table, dat, c, n, me, writes, res)

\* A place in a file of the row.
LEMMA PlaceInRow ==
    ASSUME NEW c, NEW n, Row(c, n), NEW len \in Nat, BlocksFor(len) <= n, NEW i \in 1 .. len
    PROVE  Place(c, i) \in Addresses /\ i \in Nat /\ i >= 1 /\ i <= n * BlockSize
<1>1. n \in Nat
  BY DEF Row
<1>2. len <= n * BlockSize /\ n * BlockSize \in Int
  BY <1>1, BlocksForIs, Ordered
<1>3. i \in Nat /\ i >= 1 /\ i <= n * BlockSize
  BY <1>2
<1>. QED BY <1>3, Placed

\* The last mark is still to come, or has been made.
LEMMA LastMarkOnwards ==
    ASSUME NEW table \in [Blocks -> Links], NEW c, NEW n, Row(c, n),
           NEW S, NEW writes \in Seq(S), writes # <<>>, NEW need,
           LastMark(table, c, n, writes, need), NEW other,
           Head(writes).to = "fat" => other = [table EXCEPT ![Head(writes).block] = Head(writes).mark],
           Head(writes).to # "fat" => other = table
    PROVE  LastMark(other, c, n, Tail(writes), need)
<1>1. /\ Len(writes) \in Nat /\ Len(writes) > 0
      /\ Len(Tail(writes)) = Len(writes) - 1
      /\ Head(writes) = writes[1]
      /\ \A i \in 1 .. Len(writes) - 1 : Tail(writes)[i] = writes[i + 1]
  BY Onwards
<1>2. Among(writes) = {Head(writes)} \union Among(Tail(writes))
  BY AmongOnwards
<1>. DEFINE h == Head(writes)
            t == Tail(writes)
<1>3. /\ Len(t) = Len(writes) - 1 /\ h = writes[1]
      /\ \A i \in 1 .. Len(writes) - 1 : t[i] = writes[i + 1]
      /\ Among(writes) = {h} \union Among(t)
      /\ h.to = "fat" => other = [table EXCEPT ![h.block] = h.mark]
      /\ h.to # "fat" => other = table
  BY <1>1, <1>2
<1>. HIDE DEF h, t
<1>4. PICK k \in 1 .. n :
          /\ k >= need
          /\ \/ table[c[k]] = FINAL /\ \A w \in Among(writes) : w.to # "fat"
             \/ \E j \in 1 .. Len(writes) :
                   /\ writes[j] = Mark(c[k], FINAL)
                   /\ \A i \in j + 1 .. Len(writes) : writes[i].to # "fat"
  BY DEF LastMark
<1>5. CASE table[c[k]] = FINAL /\ \A w \in Among(writes) : w.to # "fat"
  <2>1. h \in Among(writes) /\ \A w \in Among(t) : w \in Among(writes)
    BY <1>3
  <2>2. other = table
    BY <1>3, <1>5, <2>1
  <2>. QED BY <1>4, <1>5, <2>1, <2>2 DEF LastMark, t
<1>6. ASSUME NEW j \in 1 .. Len(writes), writes[j] = Mark(c[k], FINAL),
             \A i \in j + 1 .. Len(writes) : writes[i].to # "fat"
      PROVE  LastMark(other, c, n, t, need)
  <2>1. CASE j = 1
    <3>1. h = Mark(c[k], FINAL) /\ c[k] \in Blocks
      BY <1>3, <1>6, <2>1, RowBlocks
    <3>2. h.to = "fat" /\ h.block = c[k] /\ h.mark = FINAL
      BY <3>1 DEF Mark
    <3>3. other[c[k]] = FINAL
      BY <1>3, <3>1, <3>2
    <3>4. ASSUME NEW w \in Among(t) PROVE w.to # "fat"
      <4>1. PICK i \in 1 .. Len(t) : w = t[i]
        BY DEF Among
      <4>2. i \in 1 .. Len(writes) - 1 /\ i + 1 \in j + 1 .. Len(writes)
        BY <1>1, <1>3, <2>1
      <4>3. w = writes[i + 1]
        BY <1>3, <4>1, <4>2
      <4>. QED BY <1>6, <4>2, <4>3
    <3>. QED BY <1>4, <3>3, <3>4 DEF LastMark
  <2>2. CASE j # 1
    <3>1. j - 1 \in 1 .. Len(t) /\ j - 1 \in 1 .. Len(writes) - 1 /\ (j - 1) + 1 = j
      BY <1>1, <1>3, <2>2
    <3>2. t[j - 1] = Mark(c[k], FINAL)
      BY <1>3, <1>6, <3>1
    <3>3. ASSUME NEW i \in (j - 1) + 1 .. Len(t) PROVE t[i].to # "fat"
      <4>1. i \in 1 .. Len(writes) - 1 /\ i + 1 \in j + 1 .. Len(writes)
        BY <1>1, <1>3, <3>1
      <4>. QED BY <1>3, <1>6, <4>1
    <3>. QED BY <1>4, <3>1, <3>2, <3>3 DEF LastMark
  <2>. QED BY <2>1, <2>2
<1>. QED BY <1>4, <1>5, <1>6 DEF t

\* The last write is still to come, or has been made.
LEMMA EndingOnwards ==
    ASSUME NEW S, NEW writes \in Seq(S), writes # <<>>, NEW s, NEW me, Ending(s, me, writes),
           NEW you, Head(writes).to = "slot" => you = Head(writes).entry
    PROVE  Ending(s, you, Tail(writes))
<1>1. /\ Len(writes) \in Nat /\ Len(writes) > 0
      /\ Tail(writes) \in Seq(S) /\ Len(Tail(writes)) = Len(writes) - 1
      /\ Head(writes) = writes[1]
      /\ \A i \in 1 .. Len(writes) - 1 : Tail(writes)[i] = writes[i + 1]
  BY Onwards
<1>2. LET w == writes[Len(writes)] IN w.to = "slot" /\ w.slot = s /\ w.entry.start = FREE
  BY DEF Ending
<1>3. CASE Tail(writes) = <<>>
  <2>1. Len(Tail(writes)) = 0
    BY <1>1, <1>3, EmptySeq
  <2>. DEFINE k == Len(Tail(writes))
              m == Len(writes)
  <2>2. m = 1
    <3>1. m \in Nat /\ k = m - 1 /\ k = 0
      BY <1>1, <2>1
    <3>. HIDE DEF k, m
    <3>. QED BY <3>1
  <2>3. you = writes[Len(writes)].entry
    BY <1>1, <1>2, <2>2
  <2>. QED BY <1>2, <1>3, <2>3 DEF Ending
<1>4. CASE Tail(writes) # <<>>
  <2>1. Len(Tail(writes)) # 0
    BY <1>1, <1>4, EmptySeq
  <2>2. Len(Tail(writes)) \in 1 .. Len(writes) - 1 /\ Len(Tail(writes)) + 1 = Len(writes)
    BY <1>1, <2>1
  <2>3. Tail(writes)[Len(Tail(writes))] = writes[Len(writes)]
    BY <1>1, <2>2
  <2>. QED BY <1>2, <1>4, <2>3 DEF Ending
<1>. QED BY <1>3, <1>4

\* One write on, all that is still so.
LEMMA HandledOnwards ==
    ASSUME NEW table \in [Blocks -> Links], NEW dat, NEW c, NEW n, Row(c, n),
           NEW s, NEW me, NEW S, NEW writes \in Seq(S), writes # <<>>,
           NEW old, NEW kept, NEW op, NEW res,
           Handled(table, dat, c, n, s, me, writes, old, kept, op, res),
           NEW other, NEW later, NEW you, Stored(dat, later, Head(writes)),
           Head(writes).to = "fat" => other = [table EXCEPT ![Head(writes).block] = Head(writes).mark],
           Head(writes).to # "fat" => other = table,
           Head(writes).to = "slot" => you = Head(writes).entry,
           Head(writes).to # "slot" => you = me
    PROVE  Handled(other, later, c, n, s, you, Tail(writes), old, kept, op, res)
<1>. DEFINE h == Head(writes)
            t == Tail(writes)
<1>1. Among(writes) = {h} \union Among(t)
  BY AmongOnwards
<1>2. \A a \in Addresses : \A v :
          /\ Steady(dat, writes, a, v) => Steady(later, t, a, v)
          /\ Coming(dat, writes, a, v) => Coming(later, t, a, v)
  BY StoredByte
<1>3. old \in Seq(Int) /\ BlocksFor(Len(old)) <= n /\ Len(old) \in Nat
  BY DEF Handled
<1>4. \A need : LastMark(table, c, n, writes, need) => LastMark(other, c, n, t, need)
  BY LastMarkOnwards
<1>5. Ending(s, me, writes) => Ending(s, you, t)
  BY EndingOnwards
<1>6. (h.to = "slot" => you = h.entry) /\ (h.to # "slot" => you = me)
  OBVIOUS
<1>. HIDE DEF h, t
<1>7. DataStays(c, n, t)
  BY <1>1 DEF Handled, DataStays
<1>8. ASSUME NEW i \in (1 .. Len(old)) \cap kept PROVE Steady(later, t, Place(c, i), old[i])
  <2>1. Place(c, i) \in Addresses
    BY <1>3, PlaceInRow
  <2>. QED BY <1>2, <2>1 DEF Handled
<1>9. CASE op = "remove"
  BY <1>3, <1>5, <1>7, <1>8, <1>9 DEF Handled, t
<1>10. CASE op # "remove"
  <2>1. Promised(table, dat, c, n, me, writes, res)
    BY <1>10 DEF Handled
  <2>2. res \in Seq(Int) /\ BlocksFor(Len(res)) <= n /\ Len(res) \in Nat
    BY <2>1 DEF Promised
  <2>3. ASSUME NEW i \in 1 .. Len(res) PROVE Coming(later, t, Place(c, i), res[i])
    <3>1. Place(c, i) \in Addresses
      BY <2>2, PlaceInRow
    <3>. QED BY <1>2, <2>1, <3>1 DEF Promised
  <2>4. you.start # FREE
    BY <1>1, <1>6, <2>1 DEF Promised
  <2>5. you.length = Len(res) \/ \E w \in Among(t) : w.to = "slot"
    BY <1>1, <1>6, <2>1 DEF Promised
  <2>6. LastMark(other, c, n, t, BlocksFor(Len(res)))
    BY <1>4, <2>1 DEF Promised
  <2>7. \A w \in Among(t) : w.to = "slot" => w.entry.start # FREE /\ w.entry.length = Len(res)
    BY <1>1, <2>1 DEF Promised
  <2>8. Promised(other, later, c, n, you, t, res)
    BY <2>2, <2>3, <2>4, <2>5, <2>6, <2>7 DEF Promised
  <2>. QED BY <1>3, <1>7, <1>8, <1>10, <2>8 DEF Handled, t
<1>. QED BY <1>9, <1>10

\* What is known during a call on an existing file, that at s.
FileKnown(s, c, n) ==
    /\ FileStage(s, c, n)
    /\ slots[s].name = call.name
    /\ Told(fat, data, slots, listed, s, content, call.name)
    /\ Handled(fat, data, c, n, s, slots[s], todo, content[call.name], call.kept, call.op, call.result)

\* During create, which puts its entry at s.
CreateKnown(s, b) ==
    /\ CreateStage(s, b)
    /\ call.result = <<>>
    /\ Told(fat, data, slots, listed, s, content, call.name)

\* During create, when there is no room.
NoRoomKnown(b) ==
    /\ NoRoom(b)
    /\ call.result = Absent
    /\ NewName(slots, listed, 0, call.name)
    /\ Told(fat, data, slots, listed, 0, content, call.name)

\* During any call.
BusyKnown ==
    /\ call.name \in Files
    /\ IF call.op = "create"
       THEN (\E s, b : CreateKnown(s, b)) \/ (\E b : NoRoomKnown(b))
       ELSE \E s, c, n : FileKnown(s, c, n)

\* Between calls.
IdleKnown ==
    \A name \in Files :
        Known(name, content[name]) \/ (content[name] = Unknown /\ ~Undamaged)

\* The inductive invariant: the order of the writes, and what they do to what the files hold.
KInv ==
    /\ IInv
    /\ content = [name \in Files |-> content[name]]
    /\ IF Idle THEN IdleKnown ELSE BusyKnown

-----------------------------------------------------------------------------
(* The writes of a call, and what is known.                                *)

\* The bytes after a write.
LEMMA WriteStores ==
    ASSUME Write
    PROVE  /\ Stored(data, data', Head(todo)) /\ UNCHANGED <<call, content, cuts>>
           /\ Head(todo).to # "data" => UNCHANGED data
<1>. DEFINE w == Head(todo)
<1>1. /\ UNCHANGED <<call, content, cuts>>
      /\ \/ w.to = "fat" /\ UNCHANGED data
         \/ w.to = "slot" /\ UNCHANGED data
         \/ w.to = "length" /\ UNCHANGED data
         \/ /\ w.to = "data"
            /\ data' = [p \in Addresses |->
                           IF p - w.address + 1 \in DOMAIN w.bytes
                           THEN w.bytes[p - w.address + 1] ELSE data[p]]
  BY DEF Write
<1>. HIDE DEF w
<1>2. CASE w.to = "data"
  <2>1. \A a \in Addresses : data'[a] = IF a - w.address + 1 \in DOMAIN w.bytes
                                        THEN w.bytes[a - w.address + 1] ELSE data[a]
    BY <1>1, <1>2
  <2>2. Stored(data, data', w)
    BY <1>2, <2>1 DEF Stored, Covers, Gives
  <2>. QED BY <1>1, <1>2, <2>2 DEF w
<1>3. CASE w.to # "data"
  <2>1. UNCHANGED data
    BY <1>1, <1>3
  <2>2. Stored(data, data', w)
    BY <1>3, <2>1 DEF Stored, Covers
  <2>. QED BY <1>1, <2>1, <2>2 DEF w
<1>. QED BY <1>2, <1>3

\* A write of a call on an existing file.
LEMMA FileKnownWrite ==
    ASSUME Types, Write, NEW s, NEW c, NEW n, FileKnown(s, c, n)
    PROVE  Types' /\ FileKnown(s, c, n)'
<1>. DEFINE w == Head(todo)
            W == Members(c, n)
<1>1. Types' /\ FileStage(s, c, n)' /\ FileStage(s, c, n)
  BY FileWrite DEF FileKnown
<1>2. /\ s \in 1 .. listed /\ s \in Slots /\ Row(c, n) /\ W \subseteq DataBlocks /\ slots[s] \in Entry
      /\ fat \in [Blocks -> Links] /\ slots \in [Slots -> Entry] /\ \A t \in 1 .. listed : t \in Slots
      /\ Apart(fat, slots, listed, s, W, cuts)
  BY <1>1, FilesCounted DEF FileStage, Types, Row, Members
<1>3. PICK S : todo \in Seq(S)
  BY DEF Types
<1>4. Stepped(fat, c, n, s, slots[s], w, Tail(todo))
  BY <1>1, <1>2, <1>3, WriteOnwards, StageStep DEF FileStage
<1>5. todo # <<>> /\ todo' = Tail(todo) /\ UNCHANGED <<call, content, cuts>>
  BY WriteOnwards, WriteStores
<1>6. Stored(data, data', w) /\ (w.to # "data" => UNCHANGED data)
  BY WriteStores
<1>7. /\ w.to = "data" => UNCHANGED <<fat, slots, listed>>
      /\ w.to = "slot" => slots' = [slots EXCEPT ![w.slot] = w.entry] /\ UNCHANGED <<fat, listed>>
      /\ w.to = "fat" => fat' = [fat EXCEPT ![w.block] = w.mark] /\ UNCHANGED <<slots, listed>>
  BY WriteEffect
<1>8. w \in Among(todo)
  BY <1>3, <1>5, AmongOnwards
<1>. HIDE DEF w
<1>9. /\ w.to \in {"data", "slot", "fat"}
      /\ w.to = "slot" => w.slot = s /\ w.entry.name = slots[s].name
      /\ w.to = "fat" => w.block \in W
  BY <1>4 DEF Stepped
<1>10. listed' = listed /\ slots'[s].name = slots[s].name /\ \A t \in 1 .. listed : t # s => slots'[t] = slots[t]
  BY <1>2, <1>7, <1>9
<1>11. \A b \in DataBlocks \ W : fat'[b] = fat[b]
  BY <1>2, <1>7, <1>9, DataAreBlocks
<1>12. ASSUME NEW a \in Addresses, \A b \in W : ~Within(b, a) PROVE data'[a] = data[a]
  <2>1. ~Covers(w, a)
    <3>1. DataStays(c, n, todo)
      BY DEF FileKnown, Handled
    <3>2. w.to = "data" => \E k \in 1 .. n : Covers(w, a) => Within(c[k], a)
      BY <1>8, <3>1 DEF DataStays
    <3>. QED BY <1>12, <3>2 DEF Covers, Members
  <2>. QED BY <1>6, <2>1 DEF Stored
<1>13. Told(fat', data', slots', listed', s, content', call'.name)
  <2>. DEFINE held == content
              mine == call.name
  <2>1. Told(fat, data, slots, listed, s, held, mine) /\ content' = held /\ call'.name = mine
    BY <1>5 DEF FileKnown
  <2>. HIDE DEF held, mine, W
  <2>2. (1 .. listed') \ {s} = (1 .. listed) \ {s} /\ \A t \in (1 .. listed) \ {s} : slots'[t] = slots[t]
    BY <1>10
  <2>3. Told(fat', data', slots', listed', s, held, mine)
    BY <1>2, <1>11, <1>12, <2>1, <2>2, ToldKept
  <2>. QED BY <2>1, <2>3
<1>14. Handled(fat', data', c, n, s, slots'[s], Tail(todo), content[call.name], call.kept, call.op, call.result)
  <2>. DEFINE old == content[call.name]
              kept == call.kept
              op == call.op
              res == call.result
              h == Head(todo)
  <2>1. Handled(fat, data, c, n, s, slots[s], todo, old, kept, op, res)
    BY DEF FileKnown
  <2>2. /\ h.to = "fat" => fat' = [fat EXCEPT ![h.block] = h.mark]
        /\ h.to # "fat" => fat' = fat
        /\ h.to = "slot" => slots'[s] = h.entry
        /\ h.to # "slot" => slots'[s] = slots[s]
        /\ Stored(data, data', h)
    <3>1. /\ w.to = "fat" => fat' = [fat EXCEPT ![w.block] = w.mark]
          /\ w.to # "fat" => fat' = fat
          /\ w.to = "slot" => slots'[s] = w.entry
          /\ w.to # "slot" => slots'[s] = slots[s]
          /\ Stored(data, data', w)
      BY <1>2, <1>6, <1>7, <1>9
    <3>. QED BY <3>1 DEF w
  <2>. HIDE DEF old, kept, op, res
  <2>3. Handled(fat', data', c, n, s, slots'[s], Tail(todo), old, kept, op, res)
    BY <1>2, <1>3, <1>5, <2>1, <2>2, HandledOnwards
  <2>. QED BY <2>3 DEF old, kept, op, res
<1>15. slots'[s].name = call'.name
  BY <1>5, <1>10 DEF FileKnown
<1>16. FileKnown(s, c, n)'
  BY <1>1, <1>5, <1>13, <1>14, <1>15 DEF FileKnown
<1>. QED BY <1>1, <1>16

\* The others during a write of create.
LEMMA CreateTold ==
    ASSUME Write, NEW s, NEW b \in DataBlocks, OnlyAbout(s, {b}), Head(todo).to # "data",
           Apart(fat, slots, listed, s, {b}, cuts),
           Told(fat, data, slots, listed, s, content, call.name)
    PROVE  Told(fat', data', slots', listed', s, content', call'.name)
<1>. DEFINE held == content
            mine == call.name
<1>1. data' = data /\ content' = held /\ call'.name = mine
  BY WriteStores
<1>2. /\ (1 .. listed') \ {s} = (1 .. listed) \ {s}
      /\ \A t \in (1 .. listed) \ {s} : slots'[t] = slots[t]
      /\ \A a \in DataBlocks \ {b} : fat'[a] = fat[a]
  BY DEF OnlyAbout
<1>3. /\ {b} \subseteq DataBlocks
      /\ \A a \in Addresses : (\A d \in {b} : ~Within(d, a)) => data'[a] = data[a]
  BY <1>1
<1>4. Told(fat, data, slots, listed, s, held, mine)
  OBVIOUS
<1>. HIDE DEF held, mine
<1>5. Told(fat', data', slots', listed', s, held, mine)
  BY <1>2, <1>3, <1>4, ToldKept
<1>. QED BY <1>1, <1>5

\* A write of create.
LEMMA CreateKnownWrite ==
    ASSUME Types, Write, NEW s, NEW b, CreateKnown(s, b)
    PROVE  Types' /\ CreateKnown(s, b)'
<1>1. CreateStage(s, b) /\ Types' /\ CreateStage(s, b)' /\ OnlyAbout(s, {b}) /\ Head(todo).to # "data"
  BY CreateWrite DEF CreateKnown
<1>2. Told(fat', data', slots', listed', s, content', call'.name)
  BY <1>1, CreateTold DEF CreateStage, CreateKnown
<1>. QED BY <1>1, <1>2, WriteStores DEF CreateKnown

\* A write of create where there is no room.
LEMMA NoRoomKnownWrite ==
    ASSUME Types, Write, NEW b, NoRoomKnown(b)
    PROVE  Types' /\ NoRoomKnown(b)'
<1>1. NoRoom(b) /\ Types' /\ NoRoom(b)' /\ OnlyAbout(0, {b}) /\ Head(todo).to # "data"
  BY NoRoomWrite DEF NoRoomKnown
<1>2. Told(fat', data', slots', listed', 0, content', call'.name)
  BY <1>1, CreateTold DEF NoRoom, NoRoomKnown
<1>3. NewName(slots', listed', 0, call'.name)
  <2>1. (1 .. listed') \ {0} = (1 .. listed) \ {0} /\ \A t \in (1 .. listed) \ {0} : slots'[t] = slots[t]
    BY <1>1 DEF OnlyAbout
  <2>2. Others(slots', listed', 0) = Others(slots, listed, 0)
        /\ \A t \in Others(slots, listed, 0) : slots'[t] = slots[t]
    BY <2>1 DEF Others
  <2>. QED BY <2>2, WriteStores DEF NoRoomKnown, NewName
<1>. QED BY <1>1, <1>2, <1>3, WriteStores DEF NoRoomKnown

\* Whichever write it is.
LEMMA KnownWrite ==
    ASSUME KInv, Write PROVE KInv'
<1>1. ~Idle /\ BusyKnown /\ Types /\ IInv'
  <2>1. ~Idle
    BY WriteOnwards DEF KInv, IInv, Resting
  <2>. QED BY <2>1, WriteStep DEF KInv, IInv
<1>2. UNCHANGED <<call, content, cuts>>
  BY WriteStores
<1>3. BusyKnown'
  <2>1. CASE call.op = "create"
    <3>1. ASSUME NEW s, NEW b, CreateKnown(s, b) PROVE \E t, d : CreateKnown(t, d)'
      BY <1>1, <3>1, CreateKnownWrite
    <3>2. ASSUME NEW b, NoRoomKnown(b) PROVE \E d : NoRoomKnown(d)'
      BY <1>1, <3>2, NoRoomKnownWrite
    <3>. QED BY <1>1, <1>2, <2>1, <3>1, <3>2 DEF BusyKnown
  <2>2. CASE call.op # "create"
    <3>1. ASSUME NEW s, NEW c, NEW n, FileKnown(s, c, n) PROVE \E t, d, m : FileKnown(t, d, m)'
      BY <1>1, <3>1, FileKnownWrite
    <3>. QED BY <1>1, <1>2, <2>2, <3>1 DEF BusyKnown
  <2>. QED BY <2>1, <2>2
<1>. QED BY <1>1, <1>2, <1>3 DEF KInv, Idle

-----------------------------------------------------------------------------
(* What is known when a call ends or is cut off.                           *)

\* The first blocks of a row.
LEMMA RowPrefix ==
    ASSUME NEW c, NEW n, Row(c, n), NEW a \in 1 .. n, NEW p, p = [i \in 1 .. a |-> c[i]]
    PROVE  /\ Row(p, a) /\ p[1] = c[1]
           /\ \A len \in Nat : BlocksFor(len) <= a => \A i \in 1 .. len : Place(p, i) = Place(c, i)
<1>1. n \in Nat \ {0} /\ a \in Nat \ {0} /\ 1 \in 1 .. a /\ \A i \in 1 .. a : i \in 1 .. n /\ p[i] = c[i]
  BY DEF Row
<1>2. p \in [1 .. a -> DataBlocks]
  BY <1>1 DEF Row
<1>3. Row(p, a)
  BY <1>1, <1>2 DEF Row
<1>4. ASSUME NEW len \in Nat, BlocksFor(len) <= a, NEW i \in 1 .. len PROVE Place(p, i) = Place(c, i)
  <2>1. i \in Nat /\ i >= 1 /\ i <= a * BlockSize
    BY <1>3, <1>4, PlaceInRow
  <2>. DEFINE k == (i - 1) \div BlockSize
  <2>2. k + 1 \in 1 .. a
    BY <1>3, <2>1, Placed
  <2>3. Place(p, i) = p[k + 1] * BlockSize + ((i - 1) % BlockSize)
        /\ Place(c, i) = c[k + 1] * BlockSize + ((i - 1) % BlockSize)
    BY DEF Place
  <2>. HIDE DEF k
  <2>. QED BY <1>1, <2>2, <2>3
<1>. QED BY <1>1, <1>3, <1>4

\* A chain of the row that ends.
LEMMA WholeFollows ==
    ASSUME NEW table, NEW c, NEW n, Row(c, n), NEW a \in 1 .. n, Whole(table, c, n, a),
           NEW p, p = [i \in 1 .. a |-> c[i]]
    PROVE  Follows(table, c[1], p, a)
<1>1. n \in Nat \ {0} /\ a \in Nat \ {0} /\ \A i \in 1 .. a : i \in 1 .. n /\ p[i] = c[i]
  BY DEF Row
<1>2. \A i \in 1 .. a - 1 : i \in 1 .. a /\ i + 1 \in 1 .. a
  BY <1>1
<1>3. p \in [1 .. a -> DataBlocks] /\ 1 \in 1 .. a /\ a \in 1 .. a
  BY <1>1 DEF Row
<1>. QED BY <1>1, <1>2, <1>3 DEF Follows, Whole, Linked, Row

\* A call with no writes left has left a chain, where it has not removed the file.
LEMMA StageEnds ==
    ASSUME NEW table, NEW c, NEW n, Row(c, n), NEW s, NEW me, me.start # FREE,
           Stage(table, c, n, s, me, <<>>)
    PROVE  me.start = c[1] /\ \E a \in 1 .. n : Whole(table, c, n, a)
<1>0. n \in Nat \ {0} /\ Len(<<>>) = 0
  BY DEF Row
<1>. DEFINE none == <<>>
<1>1. Stage(table, c, n, s, me, none) /\ Len(none) = 0
  BY <1>0
<1>. HIDE DEF none
<1>2. CASE Settled(table, c, n, s, me, none)
  BY <1>2 DEF Settled
<1>3. ~Forgetting(table, c, n, s, me, none)
  BY <1>0, <1>1 DEF Forgetting
<1>4. ~Gone(table, c, n, s, me, none)
  BY DEF Gone
<1>5. ~Shrinking(table, c, n, s, me, none)
  <2>1. SUFFICES ASSUME NEW m \in 1 .. n - 1, NEW k \in 0 .. n, NEW j \in 0 .. Len(none), m + k <= n,
                        Len(none) > j + (n - m - k)
                 PROVE  FALSE
    BY DEF Shrinking
  <2>. QED BY <1>0, <1>1, <2>1
<1>6. CASE Growing(table, c, n, s, me, none)
  <2>1. PICK a \in 1 .. n, half \in {0, 1} :
            /\ a + half <= n
            /\ Linked(table, c, 1, a + half) /\ Freed(table, c, a + 1, n)
            /\ half = 0 => table[c[a]] = FINAL
            /\ Len(none) >= 2 * (n - a) - half
    BY <1>6 DEF Growing
  <2>2. half = 0 /\ a = n
    BY <1>0, <1>1, <2>1
  <2>3. Linked(table, c, 1, a)
    <3>1. a + half = a
      BY <2>2
    <3>. QED BY <2>1, <3>1
  <2>4. Whole(table, c, n, a)
    BY <2>1, <2>2, <2>3 DEF Whole
  <2>. QED BY <1>6, <2>4 DEF Growing
<1>. QED BY <1>1, <1>2, <1>3, <1>4, <1>5, <1>6 DEF Stage

\* It holds what it was to hold.
LEMMA FileEnds ==
    ASSUME Types, NEW s, NEW c, NEW n, FileKnown(s, c, n), todo = <<>>, call.op # "remove"
    PROVE  s \in Slots /\ Taken(s) /\ Holds(fat, data, slots[s], call.result)
<1>. DEFINE res == call.result
            me == slots[s]
<1>1. /\ s \in 1 .. listed /\ s \in Slots /\ Row(c, n) /\ n \in Nat \ {0} /\ listed \in Nat
      /\ fat \in [Blocks -> Links] /\ Stage(fat, c, n, s, me, <<>>)
  BY FilesCounted DEF FileKnown, FileStage, Types, Row
<1>2. Promised(fat, data, c, n, me, <<>>, res)
  BY DEF FileKnown, Handled
<1>. HIDE DEF res, me
<1>3. /\ res \in Seq(Int) /\ Len(res) \in Nat /\ BlocksFor(Len(res)) \in Nat
      /\ me.start # FREE /\ me.length = Len(res)
  <2>1. res \in Seq(Int) /\ me.start # FREE /\ me.length = Len(res)
    BY <1>2, AmongNone DEF Promised
  <2>2. Len(res) \in Nat
    BY <2>1
  <2>. QED BY <2>1, <2>2, BlocksForIs
<1>4. PICK a \in 1 .. n : me.start = c[1] /\ Whole(fat, c, n, a)
  BY <1>1, <1>3, StageEnds
<1>5. BlocksFor(Len(res)) <= a
  <2>1. PICK k \in 1 .. n : k >= BlocksFor(Len(res)) /\ fat[c[k]] = FINAL
    <3>1. 1 .. Len(<<>>) = {}
      OBVIOUS
    <3>. QED BY <1>2, <3>1 DEF Promised, LastMark
  <2>2. ~(k < a)
    <3>1. SUFFICES ASSUME k < a PROVE FALSE
      OBVIOUS
    <3>2. k \in 1 .. a - 1 /\ k + 1 \in 1 .. n
      BY <1>1, <3>1
    <3>3. fat[c[k]] = c[k + 1] /\ c[k + 1] \in DataBlocks
      BY <1>1, <1>4, <3>2 DEF Whole, Linked, Row
    <3>. QED BY <2>1, <3>3, DataAreBlocks
  <2>3. ~(k > a)
    <3>1. SUFFICES ASSUME k > a PROVE FALSE
      OBVIOUS
    <3>2. k \in a + 1 .. n
      BY <1>1, <3>1
    <3>. QED BY <1>4, <2>1, <3>2 DEF Whole, Freed, FREE, FINAL
  <2>. QED BY <1>1, <1>3, <2>1, <2>2, <2>3
<1>. DEFINE p == [i \in 1 .. a |-> c[i]]
<1>6. Follows(fat, me.start, p, a) /\ \A i \in 1 .. Len(res) : Place(p, i) = Place(c, i)
  BY <1>1, <1>3, <1>4, <1>5, RowPrefix, WholeFollows
<1>. HIDE DEF p
<1>7. ASSUME NEW i \in 1 .. Len(res) PROVE res[i] = Any \/ data[Place(p, i)] = res[i]
  <2>1. Coming(data, <<>>, Place(c, i), res[i])
    BY <1>2 DEF Promised
  <2>. QED BY <1>6, <2>1, AmongNone DEF Coming
<1>8. Holds(fat, data, me, res)
  BY <1>3, <1>5, <1>6, <1>7 DEF Holds, Lies
<1>9. fat[me.start] # FREE
  <2>1. me.start \in Chain(fat, me.start)
    <3>1. 1 \in 1 .. a
      BY <1>1
    <3>2. p[1] = me.start
      BY <1>6 DEF Follows
    <3>. QED BY <1>6, <3>1, <3>2, FollowedChain
  <2>. QED BY <1>6, <2>1, FollowedTaken
<1>. QED BY <1>1, <1>3, <1>8, <1>9 DEF Taken, me, res

\* What LeftOf makes of an entry: the bytes the call had no business with.
Kept(len, old) ==
    [i \in 1 .. len |-> IF old # Absent /\ i \in DOMAIN old \cap call.kept THEN old[i] ELSE Any]

\* A call that is cut off leaves a sound file with those.
LEMMA FileCut ==
    ASSUME Types, NEW s, NEW c, NEW n, FileKnown(s, c, n), Taken(s), Sound(slots[s])
    PROVE  Holds(fat, data, slots[s], Kept(slots[s].length, content[call.name]))
<1>. DEFINE old == content[call.name]
            me == slots[s]
            left == Kept(me.length, old)
<1>1. /\ s \in 1 .. listed /\ s \in Slots /\ Row(c, n) /\ n \in Nat \ {0} /\ me \in Entry
      /\ Shape(fat, c, n, me)
  BY FilesCounted, StageShape DEF FileKnown, FileStage, Types, Row
<1>2. /\ old \in Seq(Int)
      /\ \A i \in (1 .. Len(old)) \cap call.kept : Steady(data, todo, Place(c, i), old[i])
  BY DEF FileKnown, Handled
<1>3. /\ me.start # FREE
      /\ \A b \in Chain(fat, me.start) : fat[b] = FINAL \/ fat[b] \in DataBlocks
      /\ Cardinality(Chain(fat, me.start)) >= BlocksFor(me.length)
  BY DEF Sound, Taken
<1>4. me.length \in Nat
  BY <1>1 DEF Entry
<1>. HIDE DEF me
<1>5. me.start = c[1] /\ ~Broken(fat, c, n)
  <2>1. me.start = c[1]
    BY <1>1, <1>3 DEF Shape
  <2>2. SUFFICES ASSUME NEW r \in 1 .. n, Linked(fat, c, 1, r), fat[c[r]] = FREE PROVE FALSE
    BY <2>1 DEF Broken
  <2>3. c[r] \in Chain(fat, me.start)
    BY <1>1, <2>1, <2>2, RowReach
  <2>4. FREE # FINAL
    BY DEF FREE, FINAL
  <2>. QED BY <1>3, <2>2, <2>3, <2>4, DataAreBlocks
<1>6. PICK a \in 1 .. n : Whole(fat, c, n, a)
  BY <1>1, <1>3, <1>5 DEF Shape
<1>. DEFINE p == [i \in 1 .. a |-> c[i]]
<1>7. Follows(fat, me.start, p, a)
  BY <1>1, <1>5, <1>6, WholeFollows
<1>8. Cardinality(Chain(fat, me.start)) = a
  BY <1>7, FollowedChain
<1>9. BlocksFor(me.length) <= a
  <2>1. BlocksFor(me.length) \in Nat
    BY <1>4, BlocksForIs
  <2>. QED BY <1>1, <1>3, <1>8, <2>1
<1>10. \A i \in 1 .. me.length : Place(p, i) = Place(c, i)
  BY <1>1, <1>4, <1>9, RowPrefix
<1>. HIDE DEF p, old
<1>11. \A i \in 1 .. me.length : \/ left[i] = Any
                                 \/ i \in (1 .. Len(old)) \cap call.kept /\ left[i] = old[i]
  BY <1>2 DEF Kept
<1>12. left \in Seq(Int) /\ Len(left) = me.length
  <2>1. \A i \in 1 .. Len(old) : old[i] \in Int
    BY <1>2
  <2>2. Any \in Int
    BY DEF Any
  <2>3. \A i \in 1 .. me.length : left[i] \in Int
    BY <1>11, <2>1, <2>2
  <2>4. left = [i \in 1 .. me.length |-> left[i]]
    BY DEF Kept
  <2>. HIDE DEF left
  <2>5. left \in [1 .. me.length -> Int]
    BY <2>3, <2>4
  <2>. QED BY <1>4, <2>5
<1>. HIDE DEF left
<1>13. ASSUME NEW i \in 1 .. me.length PROVE left[i] = Any \/ data[Place(p, i)] = left[i]
  <2>1. CASE left[i] = Any
    BY <2>1
  <2>2. CASE i \in (1 .. Len(old)) \cap call.kept /\ left[i] = old[i]
    <3>1. Steady(data, todo, Place(c, i), old[i])
      BY <1>2, <2>2
    <3>. QED BY <1>10, <2>2, <3>1 DEF Steady
  <2>. QED BY <1>11, <2>1, <2>2
<1>14. Lies(fat, data, me.start, p, a, left)
  BY <1>7, <1>9, <1>12, <1>13 DEF Lies
<1>15. Holds(fat, data, me, left)
  BY <1>12, <1>14 DEF Holds
<1>. QED BY <1>15 DEF me, left, old

\* An empty file holds nothing.
LEMMA HoldsNothing ==
    ASSUME NEW e, e.length = 0, EndsAt(fat, e.start)
    PROVE  Holds(fat, data, e, <<>>)
<1>1. PICK p, n : Follows(fat, e.start, p, n)
  BY DEF EndsAt
<1>2. n \in Nat /\ <<>> \in Seq(Int) /\ Len(<<>>) = 0 /\ 1 .. 0 = {}
  BY <1>1 DEF Follows
<1>3. BlocksFor(0) <= n
  <2>1. 0 <= n * BlockSize
    <3>1. n * BlockSize \in Nat
      BY <1>2, FilesAssumption
    <3>. QED BY <3>1
  <2>. QED BY <1>2, <2>1, BlocksForIs
<1>4. Lies(fat, data, e.start, p, n, <<>>)
  BY <1>1, <1>2, <1>3 DEF Lies
<1>. QED BY <1>2, <1>4 DEF Holds

\* Where nothing is found there is no file of the name.
LEMMA FoundNone ==
    ASSUME NEW name
    PROVE  /\ Found(name) = {} => \A t \in Slots : Taken(t) => slots[t].name # name
           /\ \A s \in Found(name) : s \in Slots /\ Taken(s) /\ slots[s].name = name
<1>. DEFINE T == {t \in Slots : Taken(t) /\ slots[t].name = name}
<1>1. T \subseteq Nat /\ Found(name) = Least(T)
  BY FilesCounted DEF Found
<1>2. Least(T) \subseteq T /\ (Least(T) = {} => T = {})
  <2>. HIDE DEF T
  <2>. QED BY <1>1, LeastOf
<1>. QED BY <1>1, <1>2

\* What LeftOf is.
LEMMA LeftIs ==
    ASSUME NEW name, name = call.name
    PROVE  /\ Found(name) = {} => LeftOf(name) = Absent
           /\ \A s : Found(name) = {s} /\ ~Sound(slots[s]) => LeftOf(name) = Unknown
           /\ \A s : Found(name) = {s} /\ Sound(slots[s])
                       => LeftOf(name) = Kept(slots[s].length, content[name])
<1>1. Found(name) = {} => LeftOf(name) = Absent
  BY DEF LeftOf
<1>2. ASSUME NEW s, Found(name) = {s}
      PROVE  LeftOf(name) = IF ~Sound(slots[s]) THEN Unknown ELSE Kept(slots[s].length, content[name])
  <2>1. Found(name) # {} /\ (CHOOSE t \in Found(name) : TRUE) = s
    BY <1>2
  <2>. QED BY <2>1, Zenon DEF LeftOf, Kept
<1>. QED BY <1>1, <1>2

\* What is known of the other files when a call ends.
LEMMA RestKnown ==
    ASSUME Types, BusyKnown, NEW name \in Files, name # call.name
    PROVE  Known(name, content[name])
<1>1. ASSUME NEW s, NEW b, CreateKnown(s, b) PROVE Known(name, content[name])
  <2>1. Apart(fat, slots, listed, s, {b}, cuts) /\ CreateStage(s, b) /\ s \in Slots
    BY <1>1 DEF CreateKnown, CreateStage
  <2>2. Taken(s) => s \in Others(slots, listed, 0)
    BY <2>1, FilesCounted DEF Taken, Others, Types
  <2>3. Taken(s) => slots[s].name = call.name
    <3>1. Taken(s) => slots[s] = NewEntry(call.name, b)
      BY <2>1, <2>2, CreatePoint
    <3>2. NewEntry(call.name, b).name = call.name
      BY DEF NewEntry
    <3>. QED BY <3>1, <3>2
  <2>. QED BY <1>1, <2>1, <2>3, OthersKnown DEF CreateKnown
<1>2. ASSUME NEW b, NoRoomKnown(b) PROVE Known(name, content[name])
  <2>1. Apart(fat, slots, listed, 0, {b}, cuts) /\ 0 \notin Slots
    BY <1>2, FilesCounted DEF NoRoomKnown, NoRoom
  <2>. QED BY <1>2, <2>1, OthersKnown DEF NoRoomKnown
<1>3. ASSUME NEW s, NEW c, NEW n, FileKnown(s, c, n) PROVE Known(name, content[name])
  <2>1. Apart(fat, slots, listed, s, Members(c, n), cuts) /\ slots[s].name = call.name
    BY <1>3 DEF FileKnown, FileStage
  <2>. QED BY <1>3, <2>1, OthersKnown DEF FileKnown
<1>. QED BY <1>1, <1>2, <1>3 DEF BusyKnown

\* A call that has made its writes has its result.
LEMMA ResultKnown ==
    ASSUME Types, BusyKnown, todo = <<>>
    PROVE  Known(call.name, call.result)
<1>1. ASSUME NEW s, NEW b, CreateKnown(s, b) PROVE Known(call.name, call.result)
  <2>1. /\ Apart(fat, slots, listed, s, {b}, cuts) /\ CreateStage(s, b) /\ s \in Slots
        /\ NewName(slots, listed, s, call.name) /\ s \in Nat \ {0} /\ b \in DataBlocks /\ listed \in Nat
    BY <1>1, FilesCounted DEF CreateKnown, CreateStage, Types
  <2>2. s <= listed /\ slots[s] = NewEntry(call.name, b)
    BY <2>1, CreatingEnds DEF CreateStage
  <2>3. s \in Others(slots, listed, 0)
    BY <2>1, <2>2, DataAreBlocks DEF Others, NewEntry
  <2>4. Keeps(fat, slots[s], {})
    BY <2>1, <2>3, CreatePoint
  <2>5. Taken(s) /\ slots[s].name = call.name /\ slots[s].length = 0
    BY <2>2, <2>3, <2>4, KeepsSound DEF Taken, NewEntry, Others
  <2>6. Holds(fat, data, slots[s], <<>>)
    BY <2>4, <2>5, HoldsNothing DEF Keeps
  <2>. QED BY <1>1, <2>1, <2>5, <2>6, MineKnown DEF CreateKnown
<1>2. ASSUME NEW b, NoRoomKnown(b) PROVE Known(call.name, call.result)
  <2>1. Apart(fat, slots, listed, 0, {b}, cuts) /\ 0 \notin Slots
    BY <1>2, FilesCounted DEF NoRoomKnown, NoRoom
  <2>. QED BY <1>2, <2>1, MineKnown DEF NoRoomKnown
<1>3. ASSUME NEW s, NEW c, NEW n, FileKnown(s, c, n) PROVE Known(call.name, call.result)
  <2>1. /\ Apart(fat, slots, listed, s, Members(c, n), cuts) /\ slots[s].name = call.name
        /\ NewName(slots, listed, s, call.name)
    BY <1>3 DEF FileKnown, FileStage
  <2>2. CASE call.op = "remove"
    <3>1. call.result = Absent /\ slots[s].start = FREE
      BY <1>3, <2>2 DEF FileKnown, Handled, Ending
    <3>. QED BY <2>1, <3>1, MineKnown DEF Taken
  <2>3. CASE call.op # "remove"
    <3>1. s \in Slots /\ Taken(s) /\ Holds(fat, data, slots[s], call.result)
      BY <1>3, <2>3, FileEnds
    <3>. QED BY <2>1, <3>1, MineKnown
  <2>. QED BY <2>2, <2>3
<1>. QED BY <1>1, <1>2, <1>3 DEF BusyKnown

\* One that is cut off leaves what LeftOf says.
LEMMA LeftKnown ==
    ASSUME Types, BusyKnown
    PROVE  \/ Known(call.name, LeftOf(call.name))
           \/ LeftOf(call.name) = Unknown /\ ~Undamaged
<1>. DEFINE name == call.name
<1>0. CASE Found(name) = {}
  <2>1. LeftOf(name) = Absent
    BY <1>0, LeftIs
  <2>2. \A t \in Slots : Taken(t) => slots[t].name # name
    BY <1>0, FoundNone
  <2>. QED BY <2>1, <2>2 DEF Known
<1>1. ASSUME NEW s, NEW W, Apart(fat, slots, listed, s, W, cuts), NewName(slots, listed, s, name),
             Found(name) # {}
      PROVE  Found(name) = {s} /\ s \in Slots /\ Taken(s) /\ slots[s].name = name
  <2>1. \A t \in Slots : Taken(t) /\ t # s => t \in Others(slots, listed, s)
    BY <1>1, TakenOthers
  <2>2. \A t \in Found(name) : t \in Slots /\ Taken(t) /\ slots[t].name = name
    BY FoundNone
  <2>3. \A t \in Found(name) : t = s
    BY <1>1, <2>1, <2>2 DEF NewName
  <2>. HIDE DEF name
  <2>. QED BY <1>1, <2>2, <2>3
<1>2. ASSUME NEW s, NEW b, CreateKnown(s, b), Found(name) # {} PROVE Known(name, LeftOf(name))
  <2>1. /\ Apart(fat, slots, listed, s, {b}, cuts) /\ CreateStage(s, b)
        /\ NewName(slots, listed, s, name) /\ listed \in Nat
    BY <1>2, FilesCounted DEF CreateKnown, CreateStage, Types
  <2>2. Found(name) = {s} /\ s \in Slots /\ Taken(s) /\ slots[s].name = name
    BY <1>1, <1>2, <2>1
  <2>3. s \in Others(slots, listed, 0)
    BY <2>1, <2>2, FilesCounted DEF Taken, Others
  <2>4. Keeps(fat, slots[s], {}) /\ slots[s] = NewEntry(name, b)
    BY <2>1, <2>3, CreatePoint
  <2>5. slots[s].length = 0 /\ Sound(slots[s])
    BY <2>4, KeepsSound DEF NewEntry
  <2>6. LeftOf(name) = Kept(0, content[name])
    BY <2>2, <2>5, LeftIs
  <2>7. Kept(0, content[name]) = <<>>
    <3>. DEFINE x == Kept(0, content[name])
    <3>1. x = [i \in 1 .. 0 |-> x[i]]
      BY DEF Kept
    <3>. HIDE DEF x
    <3>2. x \in [1 .. 0 -> {}]
      BY <3>1
    <3>3. x \in Seq({}) /\ Len(x) = 0
      BY <3>2
    <3>4. x = <<>>
      BY <3>3, EmptySeq
    <3>. QED BY <3>4 DEF x
  <2>8. Holds(fat, data, slots[s], <<>>)
    BY <2>4, <2>5, HoldsNothing DEF Keeps
  <2>. QED BY <2>1, <2>2, <2>6, <2>7, <2>8, MineKnown
<1>3. ASSUME NEW b, NoRoomKnown(b), Found(name) # {} PROVE FALSE
  <2>1. /\ Apart(fat, slots, listed, 0, {b}, cuts) /\ NewName(slots, listed, 0, name)
        /\ 0 \notin Slots
    BY <1>3, FilesCounted DEF NoRoomKnown, NoRoom
  <2>. QED BY <1>1, <1>3, <2>1
<1>4. ASSUME NEW s, NEW c, NEW n, FileKnown(s, c, n), Found(name) # {}
      PROVE  Known(name, LeftOf(name)) \/ (LeftOf(name) = Unknown /\ ~Undamaged)
  <2>1. /\ Apart(fat, slots, listed, s, Members(c, n), cuts)
        /\ NewName(slots, listed, s, name) /\ s \in 1 .. listed
    BY <1>4 DEF FileKnown, FileStage
  <2>2. Found(name) = {s} /\ s \in Slots /\ Taken(s) /\ slots[s].name = name
    BY <1>1, <1>4, <2>1
  <2>3. CASE ~Sound(slots[s])
    BY <2>1, <2>2, <2>3, LeftIs DEF Undamaged
  <2>4. CASE Sound(slots[s])
    <3>1. LeftOf(name) = Kept(slots[s].length, content[name])
      BY <2>2, <2>4, LeftIs
    <3>2. Holds(fat, data, slots[s], LeftOf(name))
      BY <1>4, <2>2, <2>4, <3>1, FileCut
    <3>. QED BY <2>1, <2>2, <3>2, MineKnown
  <2>. QED BY <2>3, <2>4
<1>5. CASE Found(name) # {}
  BY <1>2, <1>3, <1>4, <1>5 DEF BusyKnown
<1>. QED BY <1>0, <1>5

\* The contents after a call: its file's new content, and the others'.
LEMMA EndKnown ==
    ASSUME KInv, ~Idle, NEW held, content' = [content EXCEPT ![call.name] = held],
           Known(call.name, held) \/ (held = Unknown /\ ~Undamaged),
           UNCHANGED <<fat, slots, listed, data>>
    PROVE  IdleKnown' /\ content' = [name \in Files |-> content'[name]]
<1>1. Types /\ BusyKnown /\ call.name \in Files /\ content = [name \in Files |-> content[name]]
  BY DEF KInv, IInv, BusyKnown
<1>2. content' = [name \in Files |-> content'[name]] /\ content'[call.name] = held
      /\ \A name \in Files : name # call.name => content'[name] = content[name]
  BY <1>1
<1>3. Undamaged' => Undamaged
  BY DEF Undamaged, Sound
<1>4. ASSUME NEW name \in Files, Known(name, content'[name])
      PROVE  Known(name, content[name])'
  <2>. DEFINE now == content'[name]
  <2>1. Known(name, now) /\ content'[name] = now
    BY <1>4
  <2>. HIDE DEF now
  <2>. QED BY <2>1, KnownStays
<1>5. ASSUME NEW name \in Files
      PROVE  Known(name, content'[name]) \/ (content'[name] = Unknown /\ ~Undamaged')
  <2>1. CASE name = call.name
    BY <1>2, <1>3, <2>1
  <2>2. CASE name # call.name
    BY <1>1, <1>2, <2>2, RestKnown
  <2>. QED BY <2>1, <2>2
<1>6. \A name \in Files :
          Known(name, content[name])' \/ (content'[name] = Unknown /\ ~Undamaged')
  BY <1>4, <1>5
<1>. QED BY <1>2, <1>6 DEF IdleKnown

\* A call returns.
LEMMA KnownReturn ==
    ASSUME KInv, Return PROVE KInv'
<1>1. /\ ~Idle /\ todo = <<>> /\ content' = [content EXCEPT ![call.name] = call.result]
      /\ UNCHANGED <<fat, slots, listed, data>> /\ Idle'
  BY DEF Return, Idle
<1>2. Known(call.name, call.result)
  BY <1>1, ResultKnown DEF KInv, IInv
<1>3. IInv'
  BY ReturnStep DEF KInv
<1>4. IdleKnown' /\ content' = [name \in Files |-> content'[name]]
  BY <1>1, <1>2, EndKnown
<1>. QED BY <1>1, <1>3, <1>4 DEF KInv

\* A call is cut off.
LEMMA KnownPowerCut ==
    ASSUME KInv, PowerCut PROVE KInv'
<1>1. /\ ~Idle /\ content' = [content EXCEPT ![call.name] = LeftOf(call.name)]
      /\ UNCHANGED <<fat, slots, listed, data>> /\ Idle'
  BY DEF PowerCut, Idle
<1>2. Known(call.name, LeftOf(call.name)) \/ (LeftOf(call.name) = Unknown /\ ~Undamaged)
  BY <1>1, LeftKnown DEF KInv, IInv
<1>3. IInv'
  BY PowerCutStep DEF KInv
<1>4. IdleKnown' /\ content' = [name \in Files |-> content'[name]]
  BY <1>1, <1>2, EndKnown
<1>. QED BY <1>1, <1>3, <1>4 DEF KInv

\* A new file system holds no files.
LEMMA KnownInit ==
    ASSUME Init PROVE KInv
<1>1. IInv
  BY InitIInv
<1>2. Idle /\ content = [name \in Files |-> Absent] /\ listed = 0
  BY DEF Init, Idle
<1>3. \A t \in Slots : ~Taken(t)
  BY <1>2, FilesCounted DEF Taken
<1>4. IdleKnown
  BY <1>2, <1>3 DEF IdleKnown, Known
<1>. QED BY <1>1, <1>2, <1>4 DEF KInv

-----------------------------------------------------------------------------
(* What is known when a call begins.                                       *)

\* All files hold what their callers think, those at s and of the name mine aside.
LEMMA ToldAtRest ==
    ASSUME Types, Resting, Undamaged, IdleKnown, NEW s, NEW mine,
           s \in Others(slots, listed, 0) => slots[s].name = mine
    PROVE  Told(fat, data, slots, listed, s, content, mine)
<1>1. /\ \A t \in Slots : Taken(t) /\ t # 0 => t \in Others(slots, listed, 0)
      /\ \A t \in Others(slots, listed, 0) : t \in Slots /\ Taken(t)
      /\ \A t \in Others(slots, listed, 0) : slots[t].name \in Files
  BY TakenOthers DEF Resting, Apart, Keeps
<1>2. \A t \in Slots : t # 0
  BY FilesCounted
<1>3. \A name \in Files : Known(name, content[name])
  BY DEF IdleKnown
<1>4. /\ \A t \in Others(slots, listed, s) : t \in Others(slots, listed, 0)
      /\ \A t \in Others(slots, listed, 0) : t # s => t \in Others(slots, listed, s)
  BY <1>1, <1>2 DEF Others
<1>5. ASSUME NEW t \in Others(slots, listed, s)
      PROVE  Holds(fat, data, slots[t], content[slots[t].name])
  <2>1. t \in Slots /\ Taken(t) /\ slots[t].name \in Files
    BY <1>1, <1>4
  <2>. QED BY <1>3, <2>1 DEF Known
<1>6. ASSUME NEW name \in Files \ {mine}, \A t \in Others(slots, listed, s) : slots[t].name # name
      PROVE  content[name] = Absent
  <2>1. \A t \in Slots : Taken(t) => slots[t].name # name
    BY <1>1, <1>2, <1>4, <1>6
  <2>. QED BY <1>3, <2>1 DEF Known
<1>. QED BY <1>5, <1>6 DEF Told

\* So does a file that is found.
LEMMA HeldByFound ==
    ASSUME Types, Resting, Undamaged, IdleKnown, NEW name \in Files, NEW s \in Found(name)
    PROVE  Holds(fat, data, slots[s], content[name])
<1>1. s \in Others(slots, listed, 0) /\ slots[s].name = name
  BY FoundFile
<1>2. Told(fat, data, slots, listed, 0, content, "")
  BY FilesCounted, ToldAtRest DEF Others, Types
<1>. QED BY <1>1, <1>2 DEF Told

\* A call on an existing file sets out.
LEMMA FileKnownSetsOut ==
    ASSUME Types, Resting, Undamaged, IdleKnown, NEW name \in Files, NEW s \in Found(name), NEW c, NEW n,
           Arranged(c, n, s, todo'), UNCHANGED <<fat, slots, listed, data, content, cuts>>,
           call'.name = name,
           Handled(fat, data, c, n, s, slots[s], todo', content[name], call'.kept, call'.op, call'.result)
    PROVE  Types' /\ FileKnown(s, c, n)'
<1>1. Types' /\ FileStage(s, c, n)'
  BY FileSetsOut
<1>2. slots[s].name = name
  BY FoundFile
<1>3. Told(fat, data, slots, listed, s, content, name)
  BY <1>2, ToldAtRest
<1>4. Told(fat', data', slots', listed', s, content', call'.name)
  BY <1>3
<1>5. Handled(fat', data', c, n, s, slots'[s], todo', content'[call'.name], call'.kept, call'.op, call'.result)
  OBVIOUS
<1>. QED BY <1>1, <1>2, <1>4, <1>5 DEF FileKnown

\* Writes that put no data.
LEMMA NoDataStays ==
    ASSUME NEW writes, \A w \in Among(writes) : w.to # "data"
    PROVE  /\ \A c, n : DataStays(c, n, writes)
           /\ \A a, v : Agreeing(writes, a, v)
BY DEF DataStays, Agreeing, Covers

\* unlink begins.
LEMMA RemoveKnown ==
    ASSUME Types, Resting, Undamaged, IdleKnown, NEW c, c.name \in Files, NEW plan \in RemovePlans(c),
           todo' = plan.writes, UNCHANGED <<fat, slots, listed, data, content, cuts>>,
           call' = [op |-> c.op, name |-> c.name, result |-> plan.result, kept |-> plan.kept],
           c.op = "remove"
    PROVE  Types' /\ \E s, d, n : FileKnown(s, d, n)'
<1>1. PICK s \in Found(c.name) :
          plan = [writes |-> ForgetWrites(slots[s].start) \o <<Save(s, [slots[s] EXCEPT !.start = FREE])>>,
                  result |-> Absent, kept |-> Positions]
  BY DEF RemovePlans
<1>. DEFINE old == content[c.name]
            x == ForgetWrites(slots[s].start)
            w == Save(s, [slots[s] EXCEPT !.start = FREE])
            y == <<w>>
<1>2. /\ todo' = x \o y
      /\ call'.name = c.name /\ call'.op = "remove" /\ call'.result = Absent
  BY <1>1
<1>3. Holds(fat, data, slots[s], old)
  BY HeldByFound
<1>4. PICK p, n : Lies(fat, data, slots[s].start, p, n, old)
  BY <1>3 DEF Holds
<1>5. /\ Follows(fat, slots[s].start, p, n) /\ BlocksFor(Len(old)) <= n /\ old \in Seq(Int)
      /\ \A i \in 1 .. Len(old) : old[i] = Any \/ data[Place(p, i)] = old[i]
  BY <1>3, <1>4 DEF Holds, Lies
<1>6. Arranged(p, n, s, todo')
  BY <1>1, <1>5, RemovingStart
<1>7. w.to = "slot" /\ w.slot = s /\ w.entry.start = FREE
  <2>1. slots[s] \in Entry
    BY FoundInOrder
  <2>. QED BY <2>1 DEF Save, Entry
<1>8. Series(x) /\ Series(y) /\ Len(y) = 1 /\ y[1] = w
  <2>1. <<w>> \in Seq({w}) /\ Len(<<w>>) = 1 /\ <<w>>[1] = w
    OBVIOUS
  <2>2. ChainLength(fat, slots[s].start) \in Nat
    <3>1. ChainLength(fat, slots[s].start) = n
      BY <1>5, FollowedChain
    <3>. QED BY <1>5, <3>1 DEF Follows
  <2>. QED BY <2>1, <2>2, ForgetSeries DEF Series
<1>9. \A v \in Among(x) : v.to = "fat"
  <2>1. x = [i \in 1 .. n |-> Mark(p[i], FREE)]
    BY <1>5, ForgottenRow
  <2>2. Len(x) = n
    BY <1>5, <2>1 DEF Follows
  <2>. HIDE DEF x
  <2>3. \A i \in 1 .. n : x[i].to = "fat"
    BY <2>1 DEF Mark
  <2>. QED BY <2>2, <2>3 DEF Among
<1>. HIDE DEF x
<1>10. Among(y) = {w}
  BY AmongOne
<1>. HIDE DEF w, y
<1>11. \A v \in Among(todo') : v.to # "data"
  BY <1>2, <1>7, <1>8, <1>9, <1>10, AmongBoth
<1>12. Ending(s, slots[s], todo')
  <2>1. PICK A : x \in Seq(A)
    BY <1>8 DEF Series
  <2>2. PICK B : y \in Seq(B)
    BY <1>8 DEF Series
  <2>3. /\ Len(todo') = Len(x) + Len(y) /\ Len(x) \in Nat
        /\ \A i \in 1 .. Len(y) : todo'[Len(x) + i] = y[i]
    BY <1>2, <2>1, <2>2, Joint
  <2>4. Len(todo') = Len(x) + 1 /\ todo'[Len(todo')] = w /\ todo' # <<>>
    BY <1>8, <2>3
  <2>. QED BY <1>7, <2>4 DEF Ending
<1>13. Handled(fat, data, p, n, s, slots[s], todo', old, call'.kept, call'.op, call'.result)
  <2>1. DataStays(p, n, todo') /\ \A a, v : Agreeing(todo', a, v)
    BY <1>11, NoDataStays
  <2>2. \A i \in 1 .. Len(old) : Steady(data, todo', Place(p, i), old[i])
    BY <1>5, <2>1 DEF Steady
  <2>. HIDE DEF old
  <2>. QED BY <1>2, <1>5, <1>12, <2>1, <2>2 DEF Handled
<1>. QED BY <1>2, <1>6, <1>13, FileKnownSetsOut

-----------------------------------------------------------------------------
(* The pieces of data a call sets out with.                                *)

\* The position of a byte of a file, by the blocks of its chain.
LEMMA PositionIs ==
    ASSUME NEW table \in [Blocks -> Links], NEW start, NEW p, NEW n, Follows(table, start, p, n),
           NEW i \in Nat, i >= 1, i <= n * BlockSize
    PROVE  Position(table, start, i - 1) = Place(p, i)
<1>. DEFINE k == (i - 1) \div BlockSize
<1>1. Row(p, n)
  BY RowOf
<1>2. k + 1 \in 1 .. n
  BY <1>1, Placed
<1>3. k \in Nat /\ n \in Nat
  <2>1. i - 1 \in Nat
    OBVIOUS
  <2>2. n \in Nat
    BY DEF Follows
  <2>. QED BY <2>1, <2>2, Divided
<1>. HIDE DEF k
<1>4. k < n
  BY <1>2, <1>3
<1>5. Hop(table, start, k) = p[k + 1]
  BY <1>3, <1>4, FollowedHop
<1>. QED BY <1>5 DEF Position, Place, k

\* A write of the bytes of a row from position lo on to hi, in one block.
Spans(w, c, n, lo, hi) ==
    \E k \in 1 .. n :
        /\ w.to = "data" /\ lo \in Nat /\ hi \in Nat
        /\ (k - 1) * BlockSize <= lo /\ hi <= k * BlockSize
        /\ w.address = c[k] * BlockSize + (lo - (k - 1) * BlockSize)
        /\ DOMAIN w.bytes = 1 .. hi - lo

\* It stays in that block and covers those bytes.
LEMMA SpansThose ==
    ASSUME NEW w, NEW c, NEW n, Row(c, n), NEW lo, NEW hi, Spans(w, c, n, lo, hi)
    PROVE  /\ \E k \in 1 .. n : \A a \in Addresses : Covers(w, a) => Within(c[k], a)
           /\ \A i \in Nat : i >= 1 /\ i <= n * BlockSize =>
                  /\ Covers(w, Place(c, i)) <=> (lo < i /\ i <= hi)
                  /\ lo < i /\ i <= hi => Gives(w, Place(c, i)) = w.bytes[i - lo]
<1>1. PICK k \in 1 .. n :
          /\ w.to = "data" /\ lo \in Nat /\ hi \in Nat
          /\ (k - 1) * BlockSize <= lo /\ hi <= k * BlockSize
          /\ w.address = c[k] * BlockSize + (lo - (k - 1) * BlockSize)
          /\ DOMAIN w.bytes = 1 .. hi - lo
  BY DEF Spans
<1>2. n \in Nat /\ k \in Nat /\ k - 1 \in Nat /\ c[k] \in DataBlocks /\ c[k] \in Int /\ BlockSize \in Nat
  BY BlockAssumption, FilesAssumption DEF Row, DataBlocks, RootBlock
<1>. DEFINE b == c[k] * BlockSize
            z == (k - 1) * BlockSize
            e == k * BlockSize
<1>3. b \in Int /\ z \in Int /\ e \in Int /\ z + BlockSize = e
  <2>1. b \in Int /\ z \in Int /\ e \in Int
    BY <1>2, Ordered
  <2>2. z + BlockSize = e
    <3>1. \A x \in Nat : (k - 1) * x + x = k * x
      BY <1>2, Z3
    <3>. QED BY <1>2, <3>1
  <2>. QED BY <2>1, <2>2
<1>4. z <= lo /\ hi <= e /\ w.address = b + (lo - z) /\ DOMAIN w.bytes = 1 .. hi - lo
      /\ lo \in Nat /\ hi \in Nat
  BY <1>1
<1>5. \A a : Within(c[k], a) <=> (a \in Int /\ b <= a /\ a < b + BlockSize)
  BY DEF Within
<1>6. \A a : Covers(w, a) <=> a - w.address + 1 \in DOMAIN w.bytes
  BY <1>1 DEF Covers
<1>. HIDE DEF b, z, e
<1>7. ASSUME NEW a \in Addresses, Covers(w, a) PROVE Within(c[k], a)
  <2>1. a \in Int
    BY <1>2, BlockAssumption, Ordered DEF Addresses
  <2>2. a - w.address + 1 \in 1 .. hi - lo
    BY <1>4, <1>6, <1>7
  <2>3. b <= a /\ a < b + BlockSize
    BY <1>2, <1>3, <1>4, <2>1, <2>2
  <2>. QED BY <1>5, <2>1, <2>3
<1>8. ASSUME NEW i \in Nat, i >= 1, i <= n * BlockSize
      PROVE  /\ Covers(w, Place(c, i)) <=> (lo < i /\ i <= hi)
             /\ lo < i /\ i <= hi => Gives(w, Place(c, i)) = w.bytes[i - lo]
  <2>. DEFINE j == (i - 1) \div BlockSize
              y == (i - 1) % BlockSize
              a == Place(c, i)
              d == c[j + 1] * BlockSize
              v == j * BlockSize
  <2>1. /\ j + 1 \in 1 .. n /\ c[j + 1] \in DataBlocks
        /\ Within(c[j + 1], a) /\ a \in Addresses
        /\ y \in Nat /\ y < BlockSize
        /\ i - 1 = v + y
        /\ a = d + y
    BY <1>8, Placed
  <2>2. d \in Int /\ v \in Int /\ j \in Nat
    <3>1. j \in Nat /\ c[j + 1] \in Int
      BY <1>8, <2>1, Divided, BlockAssumption DEF DataBlocks, RootBlock
    <3>. QED BY <3>1, Ordered
  <2>3. (j + 1 = k) => d = b /\ v = z
    <3>1. j + 1 = k => j = k - 1
      BY <1>2, <2>2
    <3>. QED BY <3>1 DEF b, z
  <2>4. j + 1 # k => v >= e \/ v + BlockSize <= z
    <3>1. j + 1 # k => j >= k \/ j < k - 1
      BY <1>2, <2>2
    <3>2. j >= k => v >= e
      <4>1. k < j => e + BlockSize <= v
        BY <1>2, <2>2, Ordered DEF e
      <4>2. k = j => e = v
        BY DEF e
      <4>3. j >= k => k < j \/ k = j
        BY <1>2, <2>2
      <4>. HIDE DEF v, j
      <4>. QED BY <1>2, <1>3, <2>2, <4>1, <4>2, <4>3
    <3>3. j < k - 1 => v + BlockSize <= z
      BY <1>2, <2>2, Ordered DEF z
    <3>. QED BY <3>1, <3>2, <3>3
  <2>5. Covers(w, a) => Within(c[k], a)
    BY <1>7, <2>1
  <2>6. Covers(w, a) => j + 1 = k
    <3>1. Covers(w, a) => c[j + 1] = c[k]
      BY <1>2, <2>1, <2>5, OneWithin
    <3>. QED BY <2>1, <3>1 DEF Row
  <2>7. Covers(w, a) <=> a - w.address + 1 \in 1 .. hi - lo
    BY <1>4, <1>6
  <2>8. Gives(w, a) = w.bytes[a - w.address + 1]
    BY DEF Gives
  <2>. HIDE DEF j, y, a, d, v
  <2>9. CASE j + 1 = k
    <3>1. a - w.address + 1 = i - lo
      BY <1>3, <1>4, <1>8, <2>1, <2>2, <2>3, <2>9
    <3>2. i - lo \in 1 .. hi - lo <=> (lo < i /\ i <= hi)
      BY <1>4, <1>8
    <3>. QED BY <2>7, <2>8, <3>1, <3>2 DEF a
  <2>10. CASE j + 1 # k
    <3>1. ~(lo < i /\ i <= hi)
      BY <1>2, <1>3, <1>4, <1>8, <2>1, <2>2, <2>4, <2>10
    <3>. QED BY <2>6, <2>10, <3>1 DEF a
  <2>. QED BY <2>9, <2>10
<1>. QED BY <1>7, <1>8

-----------------------------------------------------------------------------
(* What resize sets out with.                                              *)

\* The mark of the end of the chain comes last.
LEMMA MarkedLast ==
    ASSUME NEW table, NEW c, NEW m, NEW k \in 1 .. m, NEW need, k >= need,
           NEW y, Series(y), NEW x, x = y \o <<Mark(c[k], FINAL)>>
    PROVE  LastMark(table, c, m, x, need)
<1>. DEFINE w == Mark(c[k], FINAL)
            z == <<w>>
<1>1. z \in Seq({w}) /\ Len(z) = 1 /\ z[1] = w
  OBVIOUS
<1>2. x = y \o z
  OBVIOUS
<1>3. PICK A : y \in Seq(A)
  BY DEF Series
<1>. HIDE DEF z, w
<1>4. /\ Len(x) = Len(y) + Len(z) /\ Len(y) \in Nat
      /\ \A i \in 1 .. Len(z) : x[Len(y) + i] = z[i]
  BY <1>1, <1>2, <1>3, Joint
<1>5. Len(x) \in 1 .. Len(x) /\ x[Len(x)] = w /\ Len(x) \in Nat
  BY <1>1, <1>4
<1>6. \A i \in Len(x) + 1 .. Len(x) : x[i].to # "fat"
  BY <1>5
<1>. QED BY <1>5, <1>6 DEF LastMark, w

\* So it does when others follow that are no marks.
LEMMA LastMarkBefore ==
    ASSUME NEW table, NEW c, NEW m, NEW need, NEW x, NEW y, LastMark(table, c, m, x, need),
           Series(x), Series(y), \A w \in Among(y) : w.to # "fat"
    PROVE  LastMark(table, c, m, x \o y, need)
<1>1. PICK A : x \in Seq(A)
  BY DEF Series
<1>2. PICK B : y \in Seq(B)
  BY DEF Series
<1>. DEFINE z == x \o y
<1>3. z = x \o y
  OBVIOUS
<1>4. Among(z) = Among(x) \union Among(y)
  BY AmongBoth
<1>. HIDE DEF z
<1>5. /\ Len(z) = Len(x) + Len(y) /\ Len(x) \in Nat /\ Len(y) \in Nat
      /\ \A i \in 1 .. Len(x) : z[i] = x[i]
      /\ \A i \in 1 .. Len(y) : z[Len(x) + i] = y[i]
  BY <1>1, <1>2, <1>3, Joint
<1>6. PICK k \in 1 .. m :
          /\ k >= need
          /\ \/ table[c[k]] = FINAL /\ \A w \in Among(x) : w.to # "fat"
             \/ \E j \in 1 .. Len(x) :
                   /\ x[j] = Mark(c[k], FINAL)
                   /\ \A i \in j + 1 .. Len(x) : x[i].to # "fat"
  BY DEF LastMark
<1>7. CASE table[c[k]] = FINAL /\ \A w \in Among(x) : w.to # "fat"
  <2>1. \A w \in Among(z) : w.to # "fat"
    BY <1>4, <1>7
  <2>. QED BY <1>6, <1>7, <2>1 DEF LastMark, z
<1>8. ASSUME NEW j \in 1 .. Len(x), x[j] = Mark(c[k], FINAL),
             \A i \in j + 1 .. Len(x) : x[i].to # "fat"
      PROVE  LastMark(table, c, m, z, need)
  <2>1. ASSUME NEW i \in j + 1 .. Len(z) PROVE z[i].to # "fat"
    <3>1. CASE i <= Len(x)
      <4>1. i \in j + 1 .. Len(x) /\ i \in 1 .. Len(x)
        BY <1>5, <1>8, <2>1, <3>1
      <4>. QED BY <1>5, <1>8, <4>1
    <3>2. CASE ~(i <= Len(x))
      <4>1. i - Len(x) \in 1 .. Len(y) /\ Len(x) + (i - Len(x)) = i
        BY <1>5, <1>8, <2>1, <3>2
      <4>2. z[i] = y[i - Len(x)] /\ y[i - Len(x)] \in Among(y)
        BY <1>5, <4>1 DEF Among
      <4>. QED BY <4>2
    <3>. QED BY <3>1, <3>2
  <2>2. j \in 1 .. Len(z) /\ z[j] = Mark(c[k], FINAL)
    BY <1>5, <1>8
  <2>. QED BY <1>6, <2>1, <2>2 DEF LastMark
<1>. QED BY <1>6, <1>7, <1>8 DEF z

\* Writes to the table and of zeroes that leave the blocks for size bytes.
Sized(x, c, m, s, size) ==
    /\ Series(x)
    /\ \A w \in Among(x) : w.to = "fat" \/ w \in Among(ZeroOutFree(slots[s], size))
    /\ LastMark(fat, c, m, x, BlocksFor(size))
    /\ BlocksFor(size) <= m

\* Those of resize are followed by the entry with its new length, if it was not that already.
Resizing(writes, c, m, s, size) ==
    \/ slots[s].length = size /\ Sized(writes, c, m, s, size)
    \/ \E x : Sized(x, c, m, s, size) /\ writes = x \o <<Save(s, [slots[s] EXCEPT !.length = size])>>

\* zeroOutFree writes data.
LEMMA ZeroPuts ==
    ASSUME NEW e, NEW size
    PROVE  Series(ZeroOutFree(e, size)) /\ \A w \in Among(ZeroOutFree(e, size)) : w.to = "data"
<1>. DEFINE zero == ZeroOutFree(e, size)
<1>1. Series(zero) /\ \A i \in 1 .. Len(zero) : zero[i].to = "data"
  BY ZeroSeries
<1>. HIDE DEF zero
<1>2. \A w \in Among(zero) : w.to = "data"
  BY <1>1 DEF Among
<1>. QED BY <1>1, <1>2 DEF zero

\* They are so when it keeps the chain or takes blocks off it.
LEMMA RetainsSized ==
    ASSUME Types, NEW s, NEW p, NEW n, Follows(fat, slots[s].start, p, n),
           BlocksFor(slots[s].length) <= n, NEW size \in Nat, NEW r, Retains(s, size, n, r)
    PROVE  Resizing(r.writes, p, n, s, size)
<1>. DEFINE start == slots[s].start
            saved == <<Save(s, [slots[s] EXCEPT !.length = size])>>
            new == BlocksFor(size)
            zero == ZeroOutFree(slots[s], size)
            freed == [i \in 1 .. n - new |-> Mark(Hop(fat, start, new + i - 1), FREE)]
            last == <<Mark(Hop(fat, start, new - 1), FINAL)>>
            forgotten == ForgetWrites(start)
<1>1. \/ slots[s].length = size /\ r.writes = <<>>
      \/ size = 0 /\ r.writes = (forgotten \o <<Mark(start, FINAL)>>) \o saved
      \/ new = n /\ r.writes = zero \o saved
      \/ size # 0 /\ new < n /\ r.writes = ((zero \o freed) \o last) \o saved
  BY Zenon DEF Retains
<1>2. n \in Nat \ {0} /\ new \in Nat /\ (size > 0 => new >= 1) /\ start = p[1]
      /\ n \in 1 .. n /\ 1 \in 1 .. n /\ fat[p[n]] = FINAL
  BY BlocksForPositive DEF Follows
<1>3. Series(zero) /\ \A w \in Among(zero) : w.to = "data"
  BY ZeroPuts
<1>4. CASE slots[s].length = size /\ r.writes = <<>>
  <2>1. LastMark(fat, p, n, <<>>, new)
    BY <1>2, <1>4, AmongNone DEF LastMark
  <2>2. Series(<<>>)
    <3>1. <<>> \in Seq({})
      OBVIOUS
    <3>. QED BY <3>1 DEF Series
  <2>. QED BY <1>4, <2>1, <2>2, AmongNone DEF Resizing, Sized
<1>5. CASE size = 0 /\ r.writes = (forgotten \o <<Mark(start, FINAL)>>) \o saved
  <2>. DEFINE mark == Mark(p[1], FINAL)
              one == <<mark>>
              x == forgotten \o one
  <2>1. ChainLength(fat, start) = n
    BY FollowedChain
  <2>2. Series(forgotten)
    BY <1>2, <2>1, ForgetSeries
  <2>3. Series(one) /\ Among(one) = {mark} /\ mark.to = "fat"
    <3>1. one \in Seq({mark})
      OBVIOUS
    <3>2. mark.to = "fat"
      BY DEF Mark
    <3>. QED BY <3>1, <3>2, AmongOne DEF Series
  <2>4. \A w \in Among(forgotten) : w.to = "fat"
    <3>1. forgotten = [i \in 1 .. n |-> Mark(p[i], FREE)]
      BY ForgottenRow
    <3>2. Len(forgotten) = n
      BY <1>2, <3>1
    <3>. HIDE DEF forgotten
    <3>3. \A i \in 1 .. n : forgotten[i].to = "fat"
      BY <3>1 DEF Mark
    <3>. QED BY <3>2, <3>3 DEF Among
  <2>5. new <= 1 /\ new <= n
    <3>1. new <= 0
      <4>1. BlocksFor(0) <= 0
        BY BlocksForIs, FilesAssumption
      <4>. QED BY <1>5, <4>1
    <3>. QED BY <1>2, <3>1
  <2>6. r.writes = x \o saved
    BY <1>2, <1>5
  <2>. HIDE DEF forgotten, new, one
  <2>7. Series(x) /\ Among(x) = Among(forgotten) \union Among(one)
    BY <2>2, <2>3, AmongBoth, JointSeries
  <2>8. LastMark(fat, p, n, x, new)
    <3>1. 1 \in 1 .. n /\ 1 >= new
      BY <1>2, <2>5
    <3>. QED BY <2>2, <3>1, MarkedLast DEF one
  <2>. HIDE DEF x, mark
  <2>9. Sized(x, p, n, s, size)
    BY <2>3, <2>4, <2>5, <2>7, <2>8 DEF Sized, new
  <2>. QED BY <2>6, <2>9 DEF Resizing
<1>6. CASE new = n /\ r.writes = zero \o saved
  <2>1. LastMark(fat, p, n, zero, new)
    <3>. HIDE DEF new, zero
    <3>. QED BY <1>2, <1>3, <1>6 DEF LastMark
  <2>2. Sized(zero, p, n, s, size)
    BY <1>2, <1>3, <1>6, <2>1 DEF Sized
  <2>. QED BY <1>6, <2>2 DEF Resizing
<1>7. CASE size # 0 /\ new < n /\ r.writes = ((zero \o freed) \o last) \o saved
  <2>. DEFINE y == zero \o freed
              x == y \o last
              mark == Mark(p[new], FINAL)
              h == n - new
  <2>1. new \in 1 .. n /\ new - 1 \in Nat /\ new - 1 < n /\ (new - 1) + 1 = new
    <3>1. size > 0 /\ new < n
      BY <1>7
    <3>. HIDE DEF new
    <3>. QED BY <1>2, <3>1
  <2>2. last = <<mark>>
    <3>1. fat \in [Blocks -> Links]
      BY DEF Types
    <3>2. Hop(fat, start, new - 1) = p[new]
      BY <2>1, <3>1, FollowedHop
    <3>. QED BY <3>2
  <2>3. Series(freed) /\ \A w \in Among(freed) : w.to = "fat"
    <3>1. freed = [i \in 1 .. h |-> freed[i]] /\ h \in Nat /\ \A i \in 1 .. h : freed[i].to = "fat"
      BY <1>2, <1>7 DEF Mark
    <3>. HIDE DEF freed, h
    <3>2. freed \in Seq({freed[i] : i \in 1 .. h}) /\ Len(freed) = h
      BY <3>1, RunOfWrites
    <3>. QED BY <3>1, <3>2 DEF Series, Among
  <2>4. Series(last) /\ Among(last) = {mark} /\ mark.to = "fat"
    <3>1. <<mark>> \in Seq({mark})
      OBVIOUS
    <3>2. mark.to = "fat"
      BY DEF Mark
    <3>. QED BY <2>2, <3>1, <3>2, AmongOne DEF Series
  <2>. HIDE DEF freed, last, new, h, mark, zero
  <2>5. Series(y) /\ Among(y) = Among(zero) \union Among(freed)
    BY <1>3, <2>3, AmongBoth, JointSeries
  <2>. HIDE DEF y
  <2>6. Series(x) /\ Among(x) = Among(y) \union Among(last)
    BY <2>4, <2>5, AmongBoth, JointSeries
  <2>7. LastMark(fat, p, n, x, new)
    <3>1. x = y \o <<Mark(p[new], FINAL)>> /\ new >= new
      BY <2>1, <2>2 DEF mark
    <3>. QED BY <2>1, <2>5, <3>1, MarkedLast
  <2>8. r.writes = x \o saved
    BY <1>7 DEF y
  <2>. HIDE DEF x
  <2>9. Sized(x, p, n, s, size)
    <3>1. new <= n
      BY <1>2, <1>7
    <3>. QED BY <2>3, <2>4, <2>5, <2>6, <2>7, <3>1 DEF Sized, new, zero
  <2>. QED BY <2>8, <2>9 DEF Resizing
<1>. HIDE DEF forgotten, new, zero, freed, last, saved
<1>. QED BY <1>1, <1>4, <1>5, <1>6, <1>7

\* And when it takes blocks.
LEMMA TakesSized ==
    ASSUME NEW s, NEW p, NEW n \in Nat, NEW size \in Nat, NEW count \in Nat \ {0},
           BlocksFor(size) = n + count, NEW taken, NEW tail, NEW r, Takes(s, size, count, r, tail, taken),
           NEW c, Behind(c, p, n, taken, count)
    PROVE  Resizing(r.writes, c, n + count, s, size)
<1>. DEFINE x == LinkWrites(tail, taken, count)
            h == 2 * count
            m == n + count
<1>1. h \in Nat /\ h \in 1 .. h /\ m \in Nat /\ m \in 1 .. m /\ h % 2 # 1 /\ (h + 1) \div 2 = count
      /\ count \in 1 .. count
  OBVIOUS
<1>2. x = [k \in 1 .. h |-> x[k]] /\ \A k \in 1 .. h : x[k].to = "fat"
  BY DEF LinkWrites, Mark
<1>3. x[h] = Mark(taken[count], FINAL)
  <2>1. x[h] = IF h % 2 = 1 THEN Mark(IF (h + 1) \div 2 = 1 THEN tail ELSE taken[(h + 1) \div 2 - 1],
                                      taken[(h + 1) \div 2])
               ELSE Mark(taken[(h + 1) \div 2], FINAL)
    BY <1>1 DEF LinkWrites
  <2>. HIDE DEF x, h
  <2>. QED BY <1>1, <2>1
<1>4. c[m] = taken[count]
  BY <1>1 DEF Behind
<1>5. r.writes = x \o <<Save(s, [slots[s] EXCEPT !.length = size])>>
  BY DEF Takes
<1>. HIDE DEF x, h, m
<1>6. x \in Seq({x[k] : k \in 1 .. h}) /\ Len(x) = h
  BY <1>1, <1>2, RunOfWrites
<1>7. \A w \in Among(x) : w.to = "fat"
  BY <1>2, <1>6 DEF Among
<1>8. LastMark(fat, c, m, x, m)
  <2>1. \A i \in h + 1 .. h : x[i].to # "fat"
    BY <1>1
  <2>. QED BY <1>1, <1>3, <1>4, <1>6, <2>1 DEF LastMark
<1>9. BlocksFor(size) = m /\ m <= m
  BY <1>1 DEF m
<1>10. Sized(x, c, m, s, size)
  BY <1>6, <1>7, <1>8, <1>9 DEF Sized, Series
<1>. QED BY <1>5, <1>10 DEF Resizing, m

\* Always.
LEMMA ResizesSized ==
    ASSUME Types, NEW s, NEW p, NEW n, Follows(fat, slots[s].start, p, n),
           BlocksFor(slots[s].length) <= n, NEW size \in Nat, NEW r,
           NEW c, NEW m, Resizes(c, m, p, n, s, size, r)
    PROVE  Resizing(r.writes, c, m, s, size)
<1>. DEFINE new == BlocksFor(size)
            count == new - n
<1>1. n \in Nat /\ new \in Nat
  BY BlocksForPositive DEF Follows
<1>2. CASE c = p /\ m = n /\ Retains(s, size, n, r)
  BY <1>2, RetainsSized
<1>3. ASSUME new > n, m = new, NEW taken, Takes(s, size, new - n, r, p[n], taken),
             Behind(c, p, n, taken, new - n)
      PROVE  Resizing(r.writes, c, m, s, size)
  <2>1. count \in Nat \ {0} /\ BlocksFor(size) = n + count /\ m = n + count
    BY <1>1, <1>3
  <2>2. Takes(s, size, count, r, p[n], taken) /\ Behind(c, p, n, taken, count)
    BY <1>3
  <2>. HIDE DEF count, new
  <2>. QED BY <1>1, <2>1, <2>2, TakesSized
<1>. QED BY <1>2, <1>3 DEF Resizes

-----------------------------------------------------------------------------
(* What calls that resize a file set out with.                             *)

\* Writes that leave the file at s the row's blocks for size bytes; those of data are zeroes
\* or among the pieces q.
Outset(writes, q, c, m, s, size) ==
    /\ BlocksFor(size) <= m
    /\ \A w \in Among(writes) : w.to = "slot" => w.entry.start # FREE /\ w.entry.length = size
    /\ slots[s].length = size \/ \E w \in Among(writes) : w.to = "slot"
    /\ LastMark(fat, c, m, writes, BlocksFor(size))
    /\ \A w \in Among(writes) : w.to = "data" => w \in Among(ZeroOutFree(slots[s], size)) \/ w \in Among(q)
    /\ \A w \in Among(q) : w \in Among(writes)

\* Those of resize are, with more behind them.
LEMMA ResizingOutset ==
    ASSUME NEW s, slots[s] \in Entry, slots[s].start # FREE, NEW size \in Nat, NEW c, NEW m,
           NEW x, Series(x), Resizing(x, c, m, s, size),
           NEW q, Series(q),
           \A w \in Among(q) : \/ w.to = "data"
                               \/ w.to = "slot" /\ w.entry.start # FREE /\ w.entry.length = size
    PROVE  Outset(x \o q, q, c, m, s, size)
<1>. DEFINE saved == Save(s, [slots[s] EXCEPT !.length = size])
            one == <<saved>>
            zero == Among(ZeroOutFree(slots[s], size))
<1>1. saved.to = "slot" /\ saved.entry.start # FREE /\ saved.entry.length = size
  BY DEF Save, Entry
<1>2. Series(one) /\ Among(one) = {saved}
  <2>1. one \in Seq({saved})
    OBVIOUS
  <2>. QED BY <2>1, AmongOne DEF Series
<1>3. Among(x \o q) = Among(x) \union Among(q)
  BY AmongBoth
<1>4. \A w \in zero : w.to = "data"
  BY ZeroPuts
<1>5. \A w \in Among(q) : w.to # "fat"
  OBVIOUS
<1>. HIDE DEF zero, saved, one
<1>6. ASSUME slots[s].length = size, Sized(x, c, m, s, size)
      PROVE  Outset(x \o q, q, c, m, s, size)
  <2>1. \A w \in Among(x) : w.to = "fat" \/ w \in zero
    BY <1>6 DEF Sized, zero
  <2>2. LastMark(fat, c, m, x \o q, BlocksFor(size)) /\ BlocksFor(size) <= m
    BY <1>5, <1>6, LastMarkBefore DEF Sized
  <2>. QED BY <1>3, <1>4, <1>6, <2>1, <2>2 DEF Outset, zero
<1>7. ASSUME NEW y, Sized(y, c, m, s, size), x = y \o one
      PROVE  Outset(x \o q, q, c, m, s, size)
  <2>1. Series(y) /\ \A w \in Among(y) : w.to = "fat" \/ w \in zero
    BY <1>7 DEF Sized, zero
  <2>2. Among(x) = Among(y) \union {saved}
    BY <1>2, <1>7, <2>1, AmongBoth
  <2>3. LastMark(fat, c, m, x, BlocksFor(size)) /\ BlocksFor(size) <= m
    BY <1>1, <1>2, <1>7, LastMarkBefore DEF Sized
  <2>4. LastMark(fat, c, m, x \o q, BlocksFor(size))
    BY <1>5, <2>3, LastMarkBefore
  <2>5. saved \in Among(x \o q)
    BY <1>3, <2>2
  <2>6. \A w \in Among(x \o q) : w \in Among(q) \/ w = saved \/ w.to = "fat" \/ w \in zero
    BY <1>3, <2>1, <2>2
  <2>. QED BY <1>1, <1>3, <1>4, <2>3, <2>4, <2>5, <2>6 DEF Outset, zero
<1>. QED BY <1>6, <1>7 DEF Resizing, one, saved

\* A write of data that spares the bytes kept of old and puts those of res.
Puts(w, c, m, old, kept, res) ==
    \E lo, hi : /\ Spans(w, c, m, lo, hi)
                /\ \A i \in (1 .. Len(old)) \cap kept : ~(lo < i /\ i <= hi)
                /\ \A i \in 1 .. Len(res) : lo < i /\ i <= hi => w.bytes[i - lo] = res[i]

\* Some write puts the byte at a position.
Reached(writes, c, m, i) ==
    \E w \in Among(writes) : \E lo, hi : Spans(w, c, m, lo, hi) /\ lo < i /\ i <= hi

\* Calls that set out so do what they are to do.
LEMMA OutsetHandled ==
    ASSUME NEW c, NEW m, Row(c, m), NEW old \in Seq(Int), BlocksFor(Len(old)) <= m,
           \A i \in 1 .. Len(old) : old[i] = Any \/ data[Place(c, i)] = old[i],
           NEW s, slots[s].start # FREE, slots[s].length = Len(old),
           NEW writes, NEW q, NEW res \in Seq(Int), Outset(writes, q, c, m, s, Len(res)),
           NEW kept, NEW op, op # "remove",
           \A w \in Among(writes) : w.to = "data" => Puts(w, c, m, old, kept, res),
           \A i \in 1 .. Len(res) :
              res[i] = Any \/ (i <= Len(old) /\ res[i] = old[i]) \/ Reached(writes, c, m, i)
    PROVE  Handled(fat, data, c, m, s, slots[s], writes, old, kept, op, res)
<1>0. m \in Nat /\ Len(old) \in Nat /\ Len(res) \in Nat /\ BlocksFor(Len(res)) <= m
  BY DEF Row, Outset
<1>1. DataStays(c, m, writes)
  <2>1. SUFFICES ASSUME NEW w \in Among(writes), w.to = "data"
                 PROVE  \E k \in 1 .. m : \A a \in Addresses : Covers(w, a) => Within(c[k], a)
    BY DEF DataStays
  <2>2. PICK lo, hi : Spans(w, c, m, lo, hi)
    BY <2>1 DEF Puts
  <2>. QED BY <2>2, SpansThose
<1>2. /\ \A i \in 1 .. Len(old) : i \in Nat /\ i >= 1 /\ i <= m * BlockSize
      /\ \A i \in 1 .. Len(res) : i \in Nat /\ i >= 1 /\ i <= m * BlockSize
  BY <1>0, PlaceInRow
<1>3. ASSUME NEW i \in (1 .. Len(old)) \cap kept PROVE Steady(data, writes, Place(c, i), old[i])
  <2>1. ASSUME NEW w \in Among(writes), Covers(w, Place(c, i)) PROVE FALSE
    <3>1. PICK lo, hi : Spans(w, c, m, lo, hi) /\ ~(lo < i /\ i <= hi)
      BY <2>1 DEF Puts, Covers
    <3>. QED BY <1>2, <2>1, <3>1, SpansThose
  <2>. QED BY <2>1 DEF Steady, Agreeing
<1>4. ASSUME NEW i \in 1 .. Len(res) PROVE Coming(data, writes, Place(c, i), res[i])
  <2>1. ASSUME NEW w \in Among(writes), Covers(w, Place(c, i)) PROVE Gives(w, Place(c, i)) = res[i]
    <3>1. PICK lo, hi : /\ Spans(w, c, m, lo, hi)
                        /\ lo < i /\ i <= hi => w.bytes[i - lo] = res[i]
      BY <2>1 DEF Puts, Covers
    <3>. QED BY <1>2, <2>1, <3>1, SpansThose
  <2>2. Agreeing(writes, Place(c, i), res[i])
    BY <2>1 DEF Agreeing
  <2>3. CASE res[i] = Any
    BY <2>3 DEF Coming
  <2>4. CASE i <= Len(old) /\ res[i] = old[i]
    <3>1. i \in 1 .. Len(old)
      BY <1>0, <2>4
    <3>2. res[i] = Any \/ data[Place(c, i)] = res[i]
      BY <2>4, <3>1
    <3>. QED BY <2>2, <3>2 DEF Coming
  <2>5. CASE Reached(writes, c, m, i)
    <3>1. PICK w \in Among(writes) : \E lo, hi : Spans(w, c, m, lo, hi) /\ lo < i /\ i <= hi
      BY <2>5 DEF Reached
    <3>2. Covers(w, Place(c, i))
      BY <1>2, <3>1, SpansThose
    <3>. QED BY <2>2, <3>1, <3>2 DEF Coming
  <2>. QED BY <2>3, <2>4, <2>5
<1>5. Promised(fat, data, c, m, slots[s], writes, res)
  BY <1>0, <1>4 DEF Promised, Outset
<1>. QED BY <1>1, <1>3, <1>5 DEF Handled

\* The row begins with the chain of the file.
LEMMA RowBegins ==
    ASSUME NEW c, NEW m, Row(c, m), NEW p, NEW n, Row(p, n), NEW s, NEW size \in Nat, NEW r,
           Resizes(c, m, p, n, s, size, r)
    PROVE  /\ n \in 1 .. m /\ \A i \in 1 .. n : c[i] = p[i]
           /\ \A len \in Nat : BlocksFor(len) <= n => \A i \in 1 .. len : Place(c, i) = Place(p, i)
<1>1. m \in Nat /\ n \in Nat \ {0}
  BY DEF Row
<1>2. n \in 1 .. m /\ \A i \in 1 .. n : c[i] = p[i]
  BY <1>1 DEF Resizes, Behind
<1>3. p = [i \in 1 .. n |-> c[i]]
  BY <1>2 DEF Row
<1>. QED BY <1>2, <1>3, RowPrefix

\* What zeroOutFree writes, as far as callers let it: the file from its new end on.
LEMMA ZeroSpans ==
    ASSUME Types, NEW s, NEW p, NEW n, Follows(fat, slots[s].start, p, n),
           slots[s].length \in Nat, NEW size \in Nat, BlocksFor(slots[s].length) <= n,
           \/ size % BlockSize = 0 \/ slots[s].length <= size
           \/ BlocksFor(slots[s].length) = BlocksFor(size),
           NEW c, NEW m, Row(c, m), n \in 1 .. m, \A i \in 1 .. n : c[i] = p[i],
           NEW w \in Among(ZeroOutFree(slots[s], size))
    PROVE  Spans(w, c, m, size, slots[s].length)
<1>. DEFINE len == slots[s].length
            put == Put(Position(fat, slots[s].start, size - 1) + 1, [i \in 1 .. len - size |-> 0])
            j == (size - 1) \div BlockSize
            y == (size - 1) % BlockSize
<1>1. size % BlockSize # 0 /\ len > size /\ w = put
  <2>1. ZeroOutFree(slots[s], size) = IF size % BlockSize = 0 \/ len <= size THEN <<>> ELSE <<put>>
    BY DEF ZeroOutFree
  <2>. HIDE DEF put
  <2>2. ~(size % BlockSize = 0 \/ len <= size) /\ w \in Among(<<put>>)
    BY <2>1, AmongNone
  <2>. QED BY <2>2, AmongOne
<1>2. BlocksFor(len) = BlocksFor(size)
  BY <1>1
<1>3. BlockSize \in Nat /\ BlockSize > 0 /\ n \in Nat /\ m \in Int /\ fat \in [Blocks -> Links] /\ Row(p, n)
  <2>1. Row(p, n)
    BY RowOf
  <2>. QED BY <2>1, FilesAssumption DEF Types, Row
<1>4. size - 1 \in Nat /\ size >= 1
  <2>1. 0 % BlockSize = 0
    BY <1>3
  <2>2. size # 0
    BY <1>1, <2>1
  <2>. QED BY <2>2
<1>5. j \in Nat /\ y \in Nat /\ y < BlockSize /\ size - 1 = j * BlockSize + y
  BY <1>4, Divided
<1>. HIDE DEF j, y
<1>. DEFINE v == j * BlockSize
            e == (j + 1) * BlockSize
<1>6. v \in Int /\ e \in Int /\ e = v + BlockSize
  <2>1. v \in Int /\ e \in Int
    BY <1>5, Ordered
  <2>2. \A b \in Nat : (j + 1) * b = j * b + b
    BY <1>5, Z3
  <2>. QED BY <1>3, <2>1, <2>2
<1>7. BlocksFor(size) \in Nat /\ (BlocksFor(size) <= j <=> size <= v) /\ (BlocksFor(size) <= j + 1 <=> size <= e)
  BY <1>5, BlocksForIs
<1>8. BlocksFor(len) <= j + 1 <=> len <= e
  BY <1>5, BlocksForIs
<1>. HIDE DEF v, e
<1>9. size <= e /\ ~(size <= v)
  BY <1>3, <1>4, <1>5, <1>6 DEF v
<1>10. BlocksFor(size) = j + 1
  BY <1>5, <1>7, <1>9
<1>11. j + 1 \in 1 .. m /\ j + 1 \in 1 .. n /\ len <= e
  BY <1>2, <1>3, <1>5, <1>8, <1>10
<1>12. Position(fat, slots[s].start, size - 1) = Place(p, size)
  <2>1. size <= n * BlockSize
    BY <1>2, <1>3, BlocksForIs
  <2>. QED BY <1>3, <1>4, <2>1, PositionIs
<1>13. Place(p, size) = p[j + 1] * BlockSize + y
  BY DEF Place, j, y
<1>14. p[j + 1] * BlockSize \in Int /\ c[j + 1] = p[j + 1]
  <2>1. p[j + 1] \in Int
    BY <1>11, BlockAssumption DEF Follows, DataBlocks, RootBlock
  <2>. QED BY <1>11, <2>1, Ordered
<1>15. w.to = "data" /\ w.address = c[j + 1] * BlockSize + y + 1 /\ DOMAIN w.bytes = 1 .. len - size
  BY <1>1, <1>12, <1>13, <1>14 DEF Put
<1>16. w.address = c[j + 1] * BlockSize + (size - v)
  <2>. DEFINE b == c[j + 1] * BlockSize
  <2>1. b \in Int
    BY <1>14
  <2>2. w.address = b + y + 1
    BY <1>15
  <2>3. size = v + y + 1
    BY <1>5 DEF v
  <2>. HIDE DEF b
  <2>4. w.address = b + (size - v)
    BY <1>5, <1>6, <2>1, <2>2, <2>3
  <2>. QED BY <2>4 DEF b
<1>17. (j + 1) - 1 = j /\ v <= size
  BY <1>5, <1>6, <1>9
<1>18. w.to = "data" /\ DOMAIN w.bytes = 1 .. len - size
  BY <1>15
<1>. HIDE DEF len
<1>19. Spans(w, c, m, size, len)
  <2>1. ((j + 1) - 1) * BlockSize = v
    BY <1>17 DEF v
  <2>2. len \in Nat
    BY DEF len
  <2>. QED BY <1>11, <1>16, <1>17, <1>18, <2>1, <2>2 DEF Spans, e
<1>. QED BY <1>19 DEF len

\* The bytes of a file that grows or is cut.
LEMMA GrownIs ==
    ASSUME NEW old \in Seq(Int), NEW size \in Nat
    PROVE  /\ Grown(old, size) \in Seq(Int) /\ Len(Grown(old, size)) = size
           /\ \A i \in 1 .. size : Grown(old, size)[i] = IF i <= Len(old) THEN old[i] ELSE Any
<1>. DEFINE g == Grown(old, size)
<1>1. \A i \in 1 .. size : g[i] = IF i <= Len(old) THEN old[i] ELSE Any
  BY DEF Grown
<1>2. g = [i \in 1 .. size |-> g[i]]
  BY DEF Grown
<1>. HIDE DEF g
<1>3. \A i \in 1 .. size : g[i] \in Int
  BY <1>1 DEF Any
<1>4. g \in [1 .. size -> Int]
  BY <1>2, <1>3
<1>. QED BY <1>1, <1>4 DEF g

\* No more writes.
LEMMA WithNothing ==
    ASSUME NEW x, Series(x) PROVE x \o <<>> = x /\ Series(<<>>)
<1>1. PICK S : x \in Seq(S)
  BY DEF Series
<1>2. <<>> \in Seq({})
  OBVIOUS
<1>. QED BY <1>1, <1>2, ConcatEmptySeq DEF Series

\* truncate begins.
LEMMA TruncateKnown ==
    ASSUME Types, Resting, Undamaged, IdleKnown, NEW c, c.name \in Files, c.op = "truncate", c.size \in Nat,
           Disciplined(c), NEW plan \in TruncatePlans(c), todo' = plan.writes,
           call' = [op |-> c.op, name |-> c.name, result |-> plan.result, kept |-> plan.kept],
           UNCHANGED <<fat, slots, listed, data, content, cuts>>
    PROVE  Types' /\ \E s, d, n : FileKnown(s, d, n)'
<1>. DEFINE old == content[c.name]
            size == c.size
            res == Grown(old, size)
            kept == 1 .. size
<1>1. PICK s \in Found(c.name) : \E r \in Resized(s, size) :
          plan = [writes |-> r.writes, result |-> res, kept |-> kept]
  BY DEF TruncatePlans
<1>2. PICK r \in Resized(s, size) : plan = [writes |-> r.writes, result |-> res, kept |-> kept]
  BY <1>1
<1>3. /\ todo' = r.writes /\ call'.op = "truncate" /\ call'.name = c.name
      /\ call'.result = res /\ call'.kept = kept
  BY <1>2
<1>4. Holds(fat, data, slots[s], old)
  BY HeldByFound
<1>5. PICK p, n : Lies(fat, data, slots[s].start, p, n, old)
  BY <1>4 DEF Holds
<1>6. /\ Follows(fat, slots[s].start, p, n) /\ BlocksFor(Len(old)) <= n /\ old \in Seq(Int)
      /\ slots[s].length = Len(old) /\ Len(old) \in Nat
      /\ \A i \in 1 .. Len(old) : old[i] = Any \/ data[Place(p, i)] = old[i]
  BY <1>4, <1>5 DEF Holds, Lies
<1>7. slots[s] \in Entry /\ slots[s].start # FREE
  <2>1. s \in Others(slots, listed, 0)
    BY FoundFile
  <2>. QED BY <2>1, FoundInOrder DEF Others
<1>8. Series(<<>>) /\ QuietFrom(1, s, slots[s], <<>>) /\ Among(<<>>) = {}
  <2>1. <<>> \in Seq({}) /\ Len(<<>>) = 0
    OBVIOUS
  <2>. QED BY <2>1, AmongNone DEF Series, QuietFrom
<1>. HIDE DEF old, size, res, kept
<1>9. size \in Nat
  BY DEF size
<1>10. Series(r.writes) /\ \E d, m : Arranged(d, m, s, r.writes \o <<>>) /\ Resizes(d, m, p, n, s, size, r)
  BY <1>2, <1>6, <1>7, <1>8, <1>9, ResizeSetsOut
<1>11. r.writes \o <<>> = r.writes
  BY <1>10, WithNothing
<1>12. PICK d, m : Arranged(d, m, s, todo') /\ Resizes(d, m, p, n, s, size, r)
  BY <1>3, <1>10, <1>11
<1>13. Row(d, m) /\ Row(p, n) /\ m \in Nat
  <2>1. Row(p, n)
    BY <1>6, RowOf
  <2>. QED BY <1>12, <2>1 DEF Arranged, Row
<1>14. /\ n \in 1 .. m /\ \A i \in 1 .. n : d[i] = p[i]
       /\ \A i \in 1 .. Len(old) : Place(d, i) = Place(p, i)
  BY <1>6, <1>9, <1>12, <1>13, RowBegins
<1>15. BlocksFor(Len(old)) <= m
  <2>1. BlocksFor(Len(old)) \in Nat
    BY <1>6, BlocksForPositive
  <2>. QED BY <1>6, <1>13, <1>14, <2>1
<1>16. Resizing(r.writes, d, m, s, size)
  BY <1>6, <1>9, <1>12, ResizesSized
<1>17. Outset(todo', <<>>, d, m, s, size)
  <2>1. Outset(r.writes \o <<>>, <<>>, d, m, s, size)
    BY <1>7, <1>8, <1>9, <1>10, <1>16, ResizingOutset
  <2>. QED BY <1>3, <1>11, <2>1
<1>18. res \in Seq(Int) /\ Len(res) = size
       /\ \A i \in 1 .. size : res[i] = IF i <= Len(old) THEN old[i] ELSE Any
  BY <1>6, <1>9, GrownIs DEF res
<1>19. \/ size % BlockSize = 0 \/ slots[s].length <= size
       \/ BlocksFor(slots[s].length) = BlocksFor(size)
  BY DEF Disciplined, size
<1>20. ASSUME NEW w \in Among(todo'), w.to = "data" PROVE Puts(w, d, m, old, kept, res)
  <2>1. w \in Among(ZeroOutFree(slots[s], size))
    BY <1>8, <1>17, <1>20 DEF Outset
  <2>2. Spans(w, d, m, size, Len(old))
    <3>1. slots[s].length \in Nat /\ BlocksFor(slots[s].length) <= n /\ slots[s].length = Len(old)
      BY <1>6
    <3>2. Spans(w, d, m, size, slots[s].length)
      BY <1>6, <1>9, <1>13, <1>14, <1>19, <2>1, <3>1, ZeroSpans
    <3>. QED BY <3>1, <3>2
  <2>3. /\ \A i \in (1 .. Len(old)) \cap kept : ~(size < i /\ i <= Len(old))
        /\ \A i \in 1 .. Len(res) : ~(size < i /\ i <= Len(old))
    BY <1>9, <1>18 DEF kept
  <2>. QED BY <2>2, <2>3 DEF Puts
<1>21. Handled(fat, data, d, m, s, slots[s], todo', old, kept, "truncate", res)
  <2>1. \A i \in 1 .. Len(old) : old[i] = Any \/ data[Place(d, i)] = old[i]
    BY <1>6, <1>14
  <2>2. \A i \in 1 .. Len(res) : res[i] = Any \/ (i <= Len(old) /\ res[i] = old[i])
    BY <1>18
  <2>3. Outset(todo', <<>>, d, m, s, Len(res))
    BY <1>17, <1>18
  <2>. QED BY <1>6, <1>7, <1>13, <1>15, <1>18, <1>20, <2>1, <2>2, <2>3, OutsetHandled
<1>. QED BY <1>3, <1>12, <1>21, FileKnownSetsOut DEF old

-----------------------------------------------------------------------------
(* What write sets out with.                                               *)

\* The chain from start is the beginning of a row, with that many blocks at least.
Leads(table, start, c, m, need) ==
    \E g, k : Follows(table, start, g, k) /\ k \in 1 .. m /\ need <= k /\ \A i \in 1 .. k : g[i] = c[i]

\* That which resize leaves of a file that is not empty is.
LEMMA ResizedFollows ==
    ASSUME Types, NEW s, NEW p, NEW n, Follows(fat, slots[s].start, p, n),
           BlocksFor(slots[s].length) <= n, NEW size \in Nat \ {0}, NEW r,
           NEW c, NEW m, Row(c, m), Resizes(c, m, p, n, s, size, r)
    PROVE  r.fat \in [Blocks -> Links] /\ Leads(r.fat, slots[s].start, c, m, BlocksFor(size))
<1>. DEFINE start == slots[s].start
            new == BlocksFor(size)
            Leaves == /\ r.fat \in [Blocks -> Links]
                      /\ \E g, k : Follows(r.fat, start, g, k) /\ k \in 1 .. m /\ new <= k
                                   /\ \A i \in 1 .. k : g[i] = c[i]
<1>1. /\ n \in Nat \ {0} /\ new \in Nat /\ new >= 1 /\ fat \in [Blocks -> Links] /\ start = p[1]
      /\ p \in [1 .. n -> DataBlocks] /\ fat[p[n]] = FINAL /\ m \in Nat
      /\ \A i \in 1 .. n - 1 : fat[p[i]] = p[i + 1]
      /\ \A i, j \in 1 .. n : p[i] = p[j] => i = j
  <2>1. n \in Nat \ {0} /\ size \in Nat /\ size > 0
    BY DEF Follows
  <2>2. new \in Nat /\ new >= 1
    BY <2>1, BlocksForPositive
  <2>. HIDE DEF new
  <2>. QED BY <2>1, <2>2 DEF Follows, Types, Row
<1>2. Chain(fat, start) = {p[i] : i \in 1 .. n}
  BY FollowedChain
<1>3. DataBlocks \subseteq Blocks /\ FINAL \in Links /\ FREE \in Links /\ DataBlocks \subseteq Links
  BY DataAreBlocks DEF Links
<1>4. ASSUME r.fat = fat, c = p, m = n, new <= n PROVE Leaves
  BY <1>1, <1>4
<1>5. ASSUME c = p, m = n, new < n, r.fat = Shrink(fat, start, new) PROVE Leaves
  <2>. DEFINE kept == {Hop(fat, start, i) : i \in 0 .. new - 1}
              g == [i \in 1 .. new |-> p[i]]
  <2>1. \A i \in 1 .. new : Hop(fat, start, i - 1) = p[i]
    <3>1. SUFFICES ASSUME NEW i \in 1 .. new PROVE Hop(fat, start, i - 1) = p[i]
      OBVIOUS
    <3>. HIDE DEF new
    <3>2. i - 1 \in Nat /\ i - 1 < n /\ (i - 1) + 1 = i
      BY <1>1, <1>5
    <3>. QED BY <1>1, <3>2, FollowedHop
  <2>2. r.fat = [b \in Blocks |->
                    IF b \notin Chain(fat, start) THEN fat[b]
                    ELSE IF b = Hop(fat, start, new - 1) THEN FINAL
                    ELSE IF b \in kept THEN fat[b] ELSE FREE]
    BY <1>5 DEF Shrink
  <2>. HIDE DEF kept
  <2>3. r.fat \in [Blocks -> Links]
    BY <1>1, <1>3, <2>2
  <2>4. new \in 1 .. new /\ \A i \in 1 .. new : i \in 1 .. n
    <3>. HIDE DEF new
    <3>. QED BY <1>1, <1>5
  <2>5. ASSUME NEW i \in 1 .. new - 1 PROVE r.fat[p[i]] = p[i + 1]
    <3>1. i \in 1 .. new /\ i \in 1 .. n - 1 /\ i # new /\ i - 1 \in 0 .. new - 1
      <4>. HIDE DEF new
      <4>. QED BY <1>1, <1>5
    <3>2. p[i] \in kept
      BY <2>1, <3>1 DEF kept
    <3>3. p[i] # p[new]
      BY <1>1, <2>4, <3>1
    <3>4. p[i] \in Blocks /\ p[i] \in Chain(fat, start)
      BY <1>1, <1>2, <1>3, <2>4, <3>1
    <3>. QED BY <1>1, <2>1, <2>2, <2>4, <3>1, <3>2, <3>3, <3>4
  <2>6. r.fat[p[new]] = FINAL
    <3>1. p[new] \in Blocks /\ p[new] \in Chain(fat, start)
      BY <1>1, <1>2, <1>3, <2>4
    <3>. QED BY <2>1, <2>2, <2>4, <3>1
  <2>7. Follows(r.fat, start, g, new)
    <3>. HIDE DEF new
    <3>1. new \in Nat \ {0} /\ 1 \in 1 .. new /\ \A i \in 1 .. new - 1 : i \in 1 .. new /\ i + 1 \in 1 .. new
      BY <1>1
    <3>2. g \in [1 .. new -> DataBlocks]
      BY <1>1, <2>4
    <3>. QED BY <1>1, <2>4, <2>5, <2>6, <3>1, <3>2 DEF Follows
  <2>8. new \in 1 .. m
    BY <1>5, <2>4
  <2>9. \A i \in 1 .. new : g[i] = c[i]
    BY <1>5
  <2>. HIDE DEF g, new
  <2>10. new <= new
    BY <1>1
  <2>. QED BY <2>3, <2>7, <2>8, <2>9, <2>10
<1>6. ASSUME m = new, NEW count \in Nat \ {0}, new = n + count, NEW taken \in LowestFree(fat, count),
             r.fat = Extend(fat, p[n], taken, count), Behind(c, p, n, taken, count)
      PROVE  Leaves
  <2>1. /\ taken \in [1 .. count -> FreeBlocks(fat)]
        /\ \A i, j \in 1 .. count : i < j => taken[i] < taken[j]
    BY DEF LowestFree
  <2>2. \A i \in 1 .. count : taken[i] \in Blocks /\ fat[taken[i]] = FREE
    BY <2>1 DEF FreeBlocks
  <2>3. \A i, j \in 1 .. count : taken[i] = taken[j] => i = j
    <3>1. \A i \in 1 .. count : taken[i] \in Int
      BY <2>2, BlockAssumption DEF Blocks
    <3>2. SUFFICES ASSUME NEW i \in 1 .. count, NEW j \in 1 .. count, i < j, taken[i] = taken[j] PROVE FALSE
      OBVIOUS
    <3>3. taken[i] < taken[j]
      BY <2>1, <3>2
    <3>. QED BY <3>1, <3>2, <3>3
  <2>4. \A i \in 1 .. n : fat[p[i]] # FREE
    <3>1. \A b \in Chain(fat, start) : fat[b] # FREE
      BY FollowedTaken
    <3>. QED BY <1>2, <3>1
  <2>5. \A i \in 1 .. n, j \in 1 .. count : p[i] # taken[j]
    BY <2>2, <2>4
  <2>. DEFINE after(b) == CHOOSE i \in 1 .. count - 1 : taken[i] = b
  <2>6. r.fat = [b \in Blocks |->
                    IF b = p[n] THEN taken[1]
                    ELSE IF b = taken[count] THEN FINAL
                    ELSE IF \E i \in 1 .. count - 1 : taken[i] = b THEN taken[1 + after(b)]
                    ELSE fat[b]]
    BY <1>6 DEF Extend
  <2>7. \A i \in 1 .. count - 1 : i \in 1 .. count /\ i + 1 \in 1 .. count /\ i # count /\ after(taken[i]) = i
    <3>1. SUFFICES ASSUME NEW i \in 1 .. count - 1
                   PROVE i \in 1 .. count /\ i + 1 \in 1 .. count /\ i # count /\ after(taken[i]) = i
      OBVIOUS
    <3>2. \A j \in 1 .. count - 1 : j \in 1 .. count
      OBVIOUS
    <3>3. after(taken[i]) \in 1 .. count - 1 /\ taken[after(taken[i])] = taken[i]
      <4>1. \E j \in 1 .. count - 1 : taken[j] = taken[i]
        OBVIOUS
      <4>. QED BY <4>1
    <3>. QED BY <2>3, <3>2, <3>3
  <2>. HIDE DEF after
  <2>8. n \in 1 .. n /\ count \in 1 .. count /\ 1 \in 1 .. count
    BY <1>1
  <2>9. \A b \in FreeBlocks(fat) : b \in DataBlocks
    <3>1. SUFFICES ASSUME NEW b \in Blocks, fat[b] = FREE PROVE b \in DataBlocks
      BY DEF FreeBlocks
    <3>2. b \notin 0 .. FatBlocks
      BY <3>1 DEF Types
    <3>. QED BY <3>2, BlockAssumption DEF DataBlocks, Blocks, RootBlock
  <2>10. r.fat[p[n]] = taken[1] /\ r.fat[taken[count]] = FINAL
    <3>1. p[n] \in Blocks /\ taken[count] \in Blocks /\ p[n] # taken[count]
      BY <1>1, <1>3, <2>2, <2>5, <2>8
    <3>. QED BY <2>6, <3>1
  <2>11. ASSUME NEW i \in 1 .. count - 1 PROVE r.fat[taken[i]] = taken[i + 1]
    <3>1. taken[i] \in Blocks /\ taken[i] # p[n] /\ taken[i] # taken[count]
      BY <2>2, <2>3, <2>5, <2>7, <2>8
    <3>2. r.fat[taken[i]] = taken[1 + after(taken[i])]
      BY <2>6, <3>1
    <3>3. 1 + i = i + 1 /\ after(taken[i]) = i
      BY <2>7
    <3>. QED BY <3>2, <3>3
  <2>12. ASSUME NEW i \in 1 .. n - 1 PROVE r.fat[p[i]] = p[i + 1]
    <3>1. i \in 1 .. n /\ i # n /\ p[i] \in Blocks /\ fat[p[i]] = p[i + 1]
      BY <1>1, <1>3
    <3>2. p[i] # p[n] /\ \A j \in 1 .. count : p[i] # taken[j]
      BY <1>1, <2>5, <2>8, <3>1
    <3>. QED BY <2>6, <2>7, <2>8, <3>1, <3>2
  <2>13. /\ \A i \in 1 .. n : c[i] = p[i]
         /\ \A i \in 1 .. count : c[n + i] = taken[i]
    BY <1>6 DEF Behind
  <2>14. ASSUME NEW i \in 1 .. m - 1 PROVE r.fat[c[i]] = c[i + 1]
    <3>0. m = n + count
      BY <1>6
    <3>1. CASE i < n
      <4>1. i \in 1 .. n - 1 /\ i \in 1 .. n /\ i + 1 \in 1 .. n
        BY <1>1, <3>1
      <4>. QED BY <2>12, <2>13, <4>1
    <3>2. CASE i = n
      <4>1. c[i + 1] = taken[1]
        BY <2>8, <2>13, <3>2
      <4>. QED BY <2>8, <2>10, <2>13, <3>2, <4>1
    <3>3. CASE i > n
      <4>1. i - n \in 1 .. count - 1 /\ n + (i - n) = i /\ n + ((i - n) + 1) = i + 1
        BY <1>1, <3>0, <3>3
      <4>2. c[i] = taken[i - n] /\ c[i + 1] = taken[(i - n) + 1]
        BY <2>7, <2>13, <4>1
      <4>. QED BY <2>11, <4>1, <4>2
    <3>. QED BY <1>1, <3>1, <3>2, <3>3
  <2>15. r.fat[c[m]] = FINAL
    BY <1>6, <2>8, <2>10, <2>13
  <2>16. c[1] = start
    BY <1>1, <2>8, <2>13
  <2>17. Follows(r.fat, start, c, m)
    <3>. HIDE DEF new, start
    <3>. QED BY <1>1, <2>14, <2>15, <2>16 DEF Follows, Row
  <2>18. r.fat \in [Blocks -> Links]
    <3>1. \A i \in 1 .. count : taken[i] \in Links
      BY <1>3, <2>1, <2>9
    <3>2. ASSUME NEW b \in Blocks, \E i \in 1 .. count - 1 : taken[i] = b PROVE taken[1 + after(b)] \in Links
      <4>1. PICK i \in 1 .. count - 1 : taken[i] = b
        BY <3>2
      <4>2. 1 + after(b) = i + 1 /\ i + 1 \in 1 .. count
        BY <2>7, <4>1
      <4>. QED BY <3>1, <4>2
    <3>. QED BY <1>1, <1>3, <2>6, <2>8, <3>1, <3>2
  <2>19. m \in 1 .. m /\ new <= m
    BY <1>1, <1>6
  <2>. HIDE DEF new
  <2>. QED BY <2>17, <2>18, <2>19
<1>7. \/ r.fat = fat /\ c = p /\ m = n /\ new <= n
      \/ c = p /\ m = n /\ new < n /\ r.fat = Shrink(fat, start, new)
      \/ /\ new > n /\ m = new
         /\ \E taken \in LowestFree(fat, new - n) :
               r.fat = Extend(fat, p[n], taken, new - n) /\ Behind(c, p, n, taken, new - n)
  <2>1. CASE c = p /\ m = n /\ Retains(s, size, n, r)
    <3>1. \/ slots[s].length = size /\ r.fat = fat
          \/ new = n /\ r.fat = fat
          \/ new < n /\ r.fat = Shrink(fat, start, new)
      BY <2>1, Zenon DEF Retains
    <3>2. slots[s].length = size => new <= n
      OBVIOUS
    <3>. HIDE DEF new
    <3>. QED BY <1>1, <2>1, <3>1, <3>2
  <2>2. ASSUME new > n, m = new, NEW taken \in LowestFree(fat, new - n),
               Takes(s, size, new - n, r, p[n], taken), Behind(c, p, n, taken, new - n)
        PROVE  r.fat = Extend(fat, p[n], taken, new - n)
    BY <2>2 DEF Takes
  <2>. HIDE DEF new
  <2>. QED BY <2>1, <2>2 DEF Resizes, new
<1>8. ASSUME new > n, m = new, NEW taken \in LowestFree(fat, new - n),
             r.fat = Extend(fat, p[n], taken, new - n), Behind(c, p, n, taken, new - n)
      PROVE  Leaves
  <2>. DEFINE count == new - n
  <2>1. count \in Nat \ {0} /\ new = n + count
    <3>. HIDE DEF new
    <3>. QED BY <1>1, <1>8
  <2>2. taken \in LowestFree(fat, count) /\ r.fat = Extend(fat, p[n], taken, count) /\ Behind(c, p, n, taken, count)
    BY <1>8
  <2>. HIDE DEF count, Leaves, new
  <2>. QED BY <1>6, <1>8, <2>1, <2>2
<1>9. Leaves
  <2>. HIDE DEF Leaves, new
  <2>. QED BY <1>4, <1>5, <1>7, <1>8
<1>. QED BY <1>9 DEF Leads

\* Where the part of a block that a range touches begins and ends.
PieceFrom(offset, k) == IF k = offset \div BlockSize THEN offset ELSE k * BlockSize
PieceUntil(end, k) == IF k = (end - 1) \div BlockSize THEN end ELSE (k + 1) * BlockSize

\* It is in the range and in the block.
LEMMA PieceBounds ==
    ASSUME NEW offset \in Nat, NEW end \in Nat, offset < end, NEW k \in Int,
           offset \div BlockSize <= k, k <= (end - 1) \div BlockSize
    PROVE  /\ k \in Nat /\ PieceFrom(offset, k) \in Nat /\ PieceUntil(end, k) \in Nat
           /\ offset <= PieceFrom(offset, k) /\ PieceFrom(offset, k) < PieceUntil(end, k)
           /\ PieceUntil(end, k) <= end
           /\ k * BlockSize <= PieceFrom(offset, k) /\ PieceFrom(offset, k) < (k + 1) * BlockSize
           /\ PieceUntil(end, k) <= (k + 1) * BlockSize
           /\ k * BlockSize \in Int /\ (k + 1) * BlockSize = k * BlockSize + BlockSize
<1>. DEFINE from == PieceFrom(offset, k)
            until == PieceUntil(end, k)
<1>. DEFINE f == offset \div BlockSize
            x == offset % BlockSize
            l == (end - 1) \div BlockSize
            y == (end - 1) % BlockSize
<1>1. BlockSize \in Nat /\ BlockSize > 0 /\ end - 1 \in Nat
  <2>1. end - 1 \in Nat
    OBVIOUS
  <2>. QED BY <2>1, FilesAssumption
<1>2. f \in Nat /\ x \in Nat /\ x < BlockSize /\ offset = f * BlockSize + x
  BY Divided
<1>3. l \in Nat /\ y \in Nat /\ y < BlockSize /\ end - 1 = l * BlockSize + y
  BY <1>1, Divided
<1>4. f <= k /\ k <= l /\ (from = IF k = f THEN offset ELSE k * BlockSize)
      /\ (until = IF k = l THEN end ELSE (k + 1) * BlockSize)
  BY DEF PieceFrom, PieceUntil
<1>. HIDE DEF f, x, l, y, from, until
<1>. DEFINE u == f * BlockSize
            v == l * BlockSize
            z == k * BlockSize
            e == (k + 1) * BlockSize
<1>5. u \in Int /\ v \in Int /\ z \in Int /\ e \in Int
  BY <1>2, <1>3, Ordered
<1>6. e = z + BlockSize
  <2>1. \A b \in Nat : (k + 1) * b = k * b + b
    BY Z3
  <2>. QED BY <1>1, <2>1
<1>7. (f < k => u + BlockSize <= z) /\ (k < l => z + BlockSize <= v)
  BY <1>2, <1>3, Ordered
<1>8. (f = k => u = z) /\ (k = l => z = v)
  OBVIOUS
<1>9. k \in Nat
  BY <1>2, <1>4
<1>10. z >= 0
  <2>1. 0 * BlockSize = 0
    BY <1>1
  <2>2. 0 < k => 0 * BlockSize + BlockSize <= z
    BY Ordered
  <2>3. k = 0 => z = 0
    BY <2>1
  <2>. HIDE DEF z
  <2>. QED BY <1>1, <1>5, <1>9, <2>1, <2>2, <2>3
<1>11. (from = IF k = f THEN offset ELSE z) /\ (until = IF k = l THEN end ELSE e)
       /\ offset = u + x /\ end - 1 = v + y
  BY <1>2, <1>3, <1>4
<1>. HIDE DEF u, v, z, e
<1>12. /\ from \in Nat /\ until \in Nat
       /\ offset <= from /\ from < until /\ until <= end
       /\ z <= from /\ from < e /\ until <= e
  <2>1. CASE k = f /\ k = l
    BY <1>1, <1>2, <1>3, <1>5, <1>6, <1>8, <1>11, <2>1
  <2>2. CASE k = f /\ k < l
    BY <1>1, <1>2, <1>3, <1>5, <1>6, <1>7, <1>8, <1>11, <2>2
  <2>3. CASE f < k /\ k = l
    BY <1>1, <1>2, <1>3, <1>5, <1>6, <1>7, <1>8, <1>10, <1>11, <2>3
  <2>4. CASE f < k /\ k < l
    BY <1>1, <1>2, <1>3, <1>5, <1>6, <1>7, <1>10, <1>11, <2>4
  <2>. QED BY <1>2, <1>3, <1>4, <2>1, <2>2, <2>3, <2>4
<1>. QED BY <1>5, <1>6, <1>9, <1>12 DEF z, e, from, until

\* The block a position of the range is in.
LEMMA PieceAt ==
    ASSUME NEW offset \in Nat, NEW end \in Nat, NEW i \in Nat, offset < i, i <= end
    PROVE  LET k == (i - 1) \div BlockSize
           IN  /\ k \in Nat /\ offset \div BlockSize <= k /\ k <= (end - 1) \div BlockSize
               /\ k * BlockSize < i /\ i <= (k + 1) * BlockSize
<1>. DEFINE f == offset \div BlockSize
            x == offset % BlockSize
            l == (end - 1) \div BlockSize
            y == (end - 1) % BlockSize
            k == (i - 1) \div BlockSize
            z == (i - 1) % BlockSize
<1>1. BlockSize \in Nat /\ BlockSize > 0 /\ end - 1 \in Nat /\ i - 1 \in Nat
  BY FilesAssumption
<1>2. f \in Nat /\ x \in Nat /\ x < BlockSize /\ offset = f * BlockSize + x
  BY Divided
<1>3. l \in Nat /\ y \in Nat /\ y < BlockSize /\ end - 1 = l * BlockSize + y
  BY <1>1, Divided
<1>4. k \in Nat /\ z \in Nat /\ z < BlockSize /\ i - 1 = k * BlockSize + z
  BY <1>1, Divided
<1>. HIDE DEF f, x, l, y, k, z
<1>5. f * BlockSize \in Int /\ l * BlockSize \in Int /\ k * BlockSize \in Int
      /\ (k < f => k * BlockSize + BlockSize <= f * BlockSize)
      /\ (l < k => l * BlockSize + BlockSize <= k * BlockSize)
  BY <1>2, <1>3, <1>4, Ordered
<1>6. (k + 1) * BlockSize = k * BlockSize + BlockSize
  <2>1. \A b \in Nat : (k + 1) * b = k * b + b
    BY <1>4, Z3
  <2>. QED BY <1>1, <2>1
<1>. DEFINE u == f * BlockSize
            v == l * BlockSize
            w == k * BlockSize
            e == (k + 1) * BlockSize
<1>7. /\ u \in Int /\ v \in Int /\ w \in Int /\ e = w + BlockSize
      /\ (k < f => w + BlockSize <= u) /\ (l < k => v + BlockSize <= w)
      /\ offset = u + x /\ end - 1 = v + y /\ i - 1 = w + z
  BY <1>2, <1>3, <1>4, <1>5, <1>6
<1>. HIDE DEF u, v, w, e
<1>8. ~(k < f) /\ ~(l < k) /\ w < i /\ i <= e
  BY <1>1, <1>2, <1>3, <1>4, <1>7
<1>9. f <= k /\ k <= l
  BY <1>2, <1>3, <1>4, <1>8
<1>. QED BY <1>4, <1>8, <1>9 DEF f, l, k, w, e

\* A write of some of the bytes that go to a range of a file.
Fills(w, c, m, offset, bytes) ==
    \E lo, hi : /\ Spans(w, c, m, lo, hi) /\ offset <= lo /\ hi <= offset + Len(bytes)
                /\ \A i \in Nat : lo < i /\ i <= hi => w.bytes[i - lo] = bytes[i - offset]

\* The part of some bytes, which start at offset, that goes to positions lo to hi.
Part(part, bytes, offset, lo, hi) ==
    /\ DOMAIN part = 1 .. hi - lo
    /\ \A i \in Nat : lo < i /\ i <= hi => part[i - lo] = bytes[i - offset]

\* SubSeq takes it.
LEMMA PartOf ==
    ASSUME NEW bytes \in Seq(Nat), NEW offset \in Nat, NEW lo \in Nat, NEW hi \in Nat,
           offset <= lo, lo < hi, hi <= offset + Len(bytes)
    PROVE  Part(SubSeq(bytes, lo - offset + 1, hi - offset), bytes, offset, lo, hi)
<1>. DEFINE a == lo - offset + 1
            b == hi - offset
            part == SubSeq(bytes, a, b)
<1>1. a \in 1 .. Len(bytes) /\ b \in a .. Len(bytes) /\ b - a + 1 = hi - lo /\ Len(bytes) \in Nat
  OBVIOUS
<1>2. ASSUME NEW i \in Nat, lo < i, i <= hi PROVE i - lo \in 1 .. b - a + 1 /\ a + (i - lo) - 1 = i - offset
  BY <1>2
<1>. HIDE DEF a, b
<1>3. part \in Seq(Nat) /\ Len(part) = b - a + 1 /\ \A j \in 1 .. b - a + 1 : part[j] = bytes[a + j - 1]
  <2>1. a \in Int /\ b \in Int /\ a <= b /\ \A i \in a .. b : bytes[i] \in Nat
    BY <1>1
  <2>2. /\ part \in Seq(Nat) /\ Len(part) = IF a <= b THEN b - a + 1 ELSE 0
        /\ \A j \in 1 .. b - a + 1 : part[j] = bytes[a + j - 1]
    BY <2>1, SubSeqProperties
  <2>. QED BY <2>1, <2>2, Zenon
<1>. HIDE DEF part
<1>4. DOMAIN part = 1 .. hi - lo
  BY <1>1, <1>3
<1>5. \A i \in Nat : lo < i /\ i <= hi => part[i - lo] = bytes[i - offset]
  BY <1>2, <1>3
<1>6. Part(part, bytes, offset, lo, hi)
  BY <1>4, <1>5 DEF Part
<1>. QED BY <1>6 DEF part, a, b

\* One of the writes of write itself.
Piece(table, start, offset, bytes, k) ==
    Put(Position(table, start, PieceFrom(offset, k)),
        SubSeq(bytes, PieceFrom(offset, k) - offset + 1, PieceUntil(offset + Len(bytes), k) - offset))

\* It puts its part of the bytes.
LEMMA PieceFills ==
    ASSUME NEW table \in [Blocks -> Links], NEW start, NEW g, NEW n, Follows(table, start, g, n),
           NEW c, NEW m, Row(c, m), n \in 1 .. m, \A i \in 1 .. n : g[i] = c[i],
           NEW offset \in Nat, NEW bytes \in Seq(Nat), NEW size \in Nat, bytes # <<>>,
           offset + Len(bytes) <= size, BlocksFor(size) <= n,
           NEW k \in Int, offset \div BlockSize <= k, k <= (offset + Len(bytes) - 1) \div BlockSize
    PROVE  /\ Piece(table, start, offset, bytes, k).to = "data"
           /\ Spans(Piece(table, start, offset, bytes, k), c, m,
                    PieceFrom(offset, k), PieceUntil(offset + Len(bytes), k))
           /\ Fills(Piece(table, start, offset, bytes, k), c, m, offset, bytes)
<1>. DEFINE end == offset + Len(bytes)
            from == PieceFrom(offset, k)
            until == PieceUntil(end, k)
            w == Piece(table, start, offset, bytes, k)
            z == k * BlockSize
            e == (k + 1) * BlockSize
            y == from - z
<1>0. end \in Nat /\ offset < end /\ end <= size /\ k <= (end - 1) \div BlockSize /\ end = offset + Len(bytes)
  <2>1. Len(bytes) \in Nat /\ Len(bytes) # 0
    BY EmptySeq
  <2>. QED BY <2>1
<1>00. w = Put(Position(table, start, from), SubSeq(bytes, from - offset + 1, until - offset))
  BY DEF Piece
<1>. HIDE DEF end, w
<1>1. /\ k \in Nat /\ from \in Nat /\ until \in Nat
      /\ offset <= from /\ from < until /\ until <= end
      /\ z <= from /\ from < e /\ until <= e
      /\ z \in Int /\ e = z + BlockSize
  BY <1>0, PieceBounds
<1>. HIDE DEF z, e, from, until
<1>2. /\ DOMAIN w.bytes = 1 .. until - from
      /\ \A i \in Nat : from < i /\ i <= until => w.bytes[i - from] = bytes[i - offset]
      /\ w.to = "data" /\ w.address = Position(table, start, from)
  <2>. DEFINE part == SubSeq(bytes, from - offset + 1, until - offset)
  <2>1. until <= offset + Len(bytes)
    BY <1>0, <1>1
  <2>2. Part(part, bytes, offset, from, until)
    BY <1>1, <2>1, PartOf
  <2>3. w.to = "data" /\ w.address = Position(table, start, from) /\ w.bytes = part
    BY <1>00 DEF Put
  <2>. HIDE DEF part
  <2>. QED BY <2>2, <2>3 DEF Part
<1>3. BlockSize \in Nat /\ BlockSize > 0 /\ n \in Nat /\ m \in Nat /\ Row(g, n)
  <2>1. Row(g, n)
    BY RowOf
  <2>. QED BY <2>1, FilesAssumption DEF Row
<1>4. y \in Nat /\ y < BlockSize /\ from = z + y
  BY <1>1, <1>3
<1>. HIDE DEF y
<1>5. from \div BlockSize = k /\ from % BlockSize = y
  BY <1>1, <1>4, DividedAs DEF z
<1>6. from + 1 <= n * BlockSize /\ n * BlockSize \in Int
  <2>1. size <= n * BlockSize
    BY <1>3, BlocksForIs
  <2>2. n * BlockSize \in Int
    BY <1>3, Ordered
  <2>3. from + 1 <= size
    BY <1>0, <1>1
  <2>. DEFINE h == n * BlockSize
  <2>. HIDE DEF h
  <2>4. size <= h /\ h \in Int
    BY <2>1, <2>2 DEF h
  <2>5. from + 1 <= h
    BY <1>1, <2>3, <2>4
  <2>. QED BY <2>4, <2>5 DEF h
<1>7. Position(table, start, from) = Place(g, from + 1) /\ (from + 1) - 1 = from
  <2>1. from + 1 \in Nat /\ from + 1 >= 1 /\ (from + 1) - 1 = from
    BY <1>1
  <2>2. Position(table, start, (from + 1) - 1) = Place(g, from + 1)
    BY <1>6, <2>1, PositionIs
  <2>. QED BY <2>1, <2>2
<1>8. Place(g, from + 1) = g[k + 1] * BlockSize + y
  BY <1>5, <1>7 DEF Place
<1>9. k + 1 \in 1 .. n /\ k + 1 \in 1 .. m /\ g[k + 1] = c[k + 1]
  <2>1. k < n
    <3>. DEFINE h == n * BlockSize
    <3>1. n < k => h + BlockSize <= z
      BY <1>1, <1>3, Ordered DEF z
    <3>2. n = k => h = z
      BY DEF z
    <3>3. from + 1 <= h /\ h \in Int
      BY <1>6
    <3>. HIDE DEF h
    <3>4. ~(n < k) /\ ~(n = k)
      BY <1>1, <1>3, <3>1, <3>2, <3>3
    <3>. QED BY <1>1, <1>3, <3>4
  <2>. QED BY <1>1, <1>3, <2>1
<1>10. w.address = c[k + 1] * BlockSize + (from - z) /\ (k + 1) - 1 = k
  <2>1. (k + 1) - 1 = k
    BY <1>1
  <2>. QED BY <1>2, <1>7, <1>8, <1>9, <2>1 DEF y
<1>11. Spans(w, c, m, from, until)
  <2>1. ((k + 1) - 1) * BlockSize = z
    BY <1>10 DEF z
  <2>2. z <= from /\ until <= (k + 1) * BlockSize /\ from \in Nat /\ until \in Nat
    BY <1>1 DEF e
  <2>. QED BY <1>2, <1>9, <1>10, <2>1, <2>2 DEF Spans
<1>12. Fills(w, c, m, offset, bytes)
  BY <1>1, <1>2, <1>11 DEF Fills, end
<1>. QED BY <1>2, <1>11, <1>12 DEF w, from, until, end

\* Together they fill the range.
LEMMA PiecesFill ==
    ASSUME NEW table \in [Blocks -> Links], NEW start, NEW c, NEW m, Row(c, m),
           NEW offset \in Nat, NEW bytes \in Seq(Nat), bytes # <<>>, NEW size \in Nat,
           offset + Len(bytes) <= size, Leads(table, start, c, m, BlocksFor(size))
    PROVE  LET pieces == Pieces(table, start, offset, bytes)
           IN  /\ Series(pieces)
               /\ \A w \in Among(pieces) : w.to = "data" /\ Fills(w, c, m, offset, bytes)
               /\ \A i \in Nat : offset < i /\ i <= offset + Len(bytes) => Reached(pieces, c, m, i)
<1>. DEFINE end == offset + Len(bytes)
            first == offset \div BlockSize
            last == (offset + Len(bytes) - 1) \div BlockSize
            piece(k) == Piece(table, start, offset, bytes, k)
            P == Pieces(table, start, offset, bytes)
            h == last - first + 1
<1>1. end \in Nat /\ offset < end /\ end - 1 \in Nat
  <2>1. Len(bytes) \in Nat /\ Len(bytes) # 0
    BY EmptySeq
  <2>. QED BY <2>1
<1>2. first \in Nat /\ last \in Nat
  <2>. DEFINE x == offset + Len(bytes) - 1
  <2>1. x \in Nat
    BY <1>1
  <2>. HIDE DEF x
  <2>2. x \div BlockSize \in Nat
    BY <2>1, Divided
  <2>. QED BY <2>2, Divided DEF x
<1>3. P = [i \in 1 .. h |-> piece(first + i - 1)]
  BY DEF Pieces, Piece, PieceFrom, PieceUntil
<1>4. ASSUME NEW k \in Int, first <= k, k <= last
      PROVE  /\ piece(k).to = "data" /\ Fills(piece(k), c, m, offset, bytes)
             /\ Spans(piece(k), c, m, PieceFrom(offset, k), PieceUntil(end, k))
  <2>1. PICK g, n : /\ Follows(table, start, g, n) /\ n \in 1 .. m /\ BlocksFor(size) <= n
                    /\ \A i \in 1 .. n : g[i] = c[i]
    BY DEF Leads
  <2>2. Follows(table, start, g, n) /\ n \in 1 .. m /\ BlocksFor(size) <= n
    BY <2>1
  <2>3. \A i \in 1 .. n : g[i] = c[i]
    BY <2>1
  <2>4. /\ Piece(table, start, offset, bytes, k).to = "data"
        /\ Spans(Piece(table, start, offset, bytes, k), c, m,
                 PieceFrom(offset, k), PieceUntil(offset + Len(bytes), k))
        /\ Fills(Piece(table, start, offset, bytes, k), c, m, offset, bytes)
    BY <1>4, <2>2, <2>3, PieceFills
  <2>. QED BY <2>4
<1>5. ASSUME NEW i \in Nat, offset < i, i <= end
      PROVE  \E k \in Int : first <= k /\ k <= last /\ PieceFrom(offset, k) < i /\ i <= PieceUntil(end, k)
  <2>. DEFINE k == (i - 1) \div BlockSize
              l == (end - 1) \div BlockSize
  <2>0. l = last
    OBVIOUS
  <2>. HIDE DEF end
  <2>1. /\ k \in Nat /\ first <= k /\ k <= l
        /\ k * BlockSize < i /\ i <= (k + 1) * BlockSize
    BY <1>1, <1>5, PieceAt
  <2>. HIDE DEF k, last
  <2>2. PieceFrom(offset, k) < i /\ i <= PieceUntil(end, k)
    BY <1>5, <2>1 DEF PieceFrom, PieceUntil
  <2>. HIDE DEF first, l
  <2>. QED BY <2>0, <2>1, <2>2
<1>. HIDE DEF piece, P, first, last, end
<1>6. h \in Int /\ P \in Seq({P[i] : i \in 1 .. h}) /\ (h \in Nat => Len(P) = h)
  <2>1. h \in Int /\ P = [i \in 1 .. h |-> P[i]]
    BY <1>2, <1>3
  <2>. HIDE DEF h
  <2>. QED BY <2>1, RunOfWrites
<1>7. first <= last
  <2>1. end <= end
    BY <1>1
  <2>2. PICK k \in Int : first <= k /\ k <= last
    BY <1>1, <1>5, <2>1
  <2>. QED BY <1>2, <2>2
<1>8. Len(P) = h
  BY <1>2, <1>6, <1>7
<1>9. ASSUME NEW w \in Among(P) PROVE w.to = "data" /\ Fills(w, c, m, offset, bytes)
  <2>1. PICK i \in 1 .. h : w = P[i]
    BY <1>8 DEF Among
  <2>. DEFINE k == first + i - 1
  <2>2. k \in Int /\ first <= k /\ k <= last
    BY <1>2
  <2>3. w = piece(k)
    BY <1>3, <2>1
  <2>. HIDE DEF k, h
  <2>. QED BY <1>4, <2>2, <2>3
<1>10. ASSUME NEW i \in Nat, offset < i, i <= end PROVE Reached(P, c, m, i)
  <2>1. PICK k \in Int : first <= k /\ k <= last /\ PieceFrom(offset, k) < i /\ i <= PieceUntil(end, k)
    BY <1>5, <1>10
  <2>. DEFINE j == k - first + 1
  <2>2. j \in 1 .. h /\ first + j - 1 = k
    BY <1>2, <2>1
  <2>3. P[j] = piece(k) /\ P[j] \in Among(P)
    <3>. HIDE DEF j, h
    <3>1. P[j] = piece(first + j - 1)
      BY <1>3, <2>2
    <3>. QED BY <1>8, <2>2, <3>1 DEF Among
  <2>4. Spans(P[j], c, m, PieceFrom(offset, k), PieceUntil(end, k))
    BY <1>4, <2>1, <2>3
  <2>. HIDE DEF j
  <2>. QED BY <2>1, <2>3, <2>4 DEF Reached
<1>11. Series(P)
  BY <1>6 DEF Series
<1>. QED BY <1>9, <1>10, <1>11 DEF P, end

\* The bytes of a file that is written to.
LEMMA OverwrittenIs ==
    ASSUME NEW old \in Seq(Int), NEW offset \in Nat, NEW bytes \in Seq(Nat), offset + Len(bytes) <= Len(old)
    PROVE  /\ Overwritten(old, offset, bytes) \in Seq(Int)
           /\ Len(Overwritten(old, offset, bytes)) = Len(old)
           /\ \A i \in 1 .. Len(old) :
                 Overwritten(old, offset, bytes)[i] =
                     IF offset < i /\ i <= offset + Len(bytes) THEN bytes[i - offset] ELSE old[i]
<1>. DEFINE g == Overwritten(old, offset, bytes)
            end == offset + Len(bytes)
<1>1. Len(bytes) \in Nat /\ end \in Nat /\ Len(old) \in Nat /\ DOMAIN old = 1 .. Len(old)
  OBVIOUS
<1>2. g = [i \in 1 .. Len(old) |-> IF i \in offset + 1 .. end THEN bytes[i - offset] ELSE old[i]]
  BY <1>1 DEF Overwritten
<1>3. \A i \in 1 .. Len(old) : i \in offset + 1 .. end <=> (offset < i /\ i <= end)
  BY <1>1
<1>4. \A i \in 1 .. Len(old) : i \in offset + 1 .. end => bytes[i - offset] \in Int
  BY <1>1
<1>. HIDE DEF g, end
<1>5. g \in [1 .. Len(old) -> Int]
  BY <1>1, <1>2, <1>4
<1>6. g \in Seq(Int) /\ Len(g) = Len(old)
  BY <1>1, <1>5
<1>7. \A i \in 1 .. Len(old) : g[i] = IF offset < i /\ i <= end THEN bytes[i - offset] ELSE old[i]
  BY <1>2, <1>3
<1>. QED BY <1>6, <1>7 DEF g, end

\* write begins.
LEMMA WriteKnown ==
    ASSUME Types, Resting, Undamaged, IdleKnown, NEW c, c.name \in Files, c.op = "write",
           c.offset \in Nat, c.bytes \in Seq(Nat), c.bytes # <<>>,
           NEW plan \in WritePlans(c), todo' = plan.writes,
           call' = [op |-> c.op, name |-> c.name, result |-> plan.result, kept |-> plan.kept],
           UNCHANGED <<fat, slots, listed, data, content, cuts>>
    PROVE  Types' /\ \E s, d, n : FileKnown(s, d, n)'
<1>. DEFINE old == content[c.name]
            offset == c.offset
            bytes == c.bytes
            end == offset + Len(bytes)
            sizeAt(s) == IF slots[s].length < end THEN end ELSE slots[s].length
            kept == Positions \ (offset + 1 .. end)
            resAt(s) == Overwritten(Grown(old, sizeAt(s)), offset, bytes)
            pieces(r, s) == Pieces(r.fat, slots[s].start, offset, bytes)
            savedAt(s) == <<Save(s, [slots[s] EXCEPT !.length = sizeAt(s)])>>
<1>1. PICK s \in Found(c.name) :
          \E r \in Resized(s, sizeAt(s)) :
              plan = [writes |-> (r.writes \o pieces(r, s)) \o savedAt(s), result |-> resAt(s), kept |-> kept]
  <2>. DEFINE Plan(s, r) == [writes |-> (r.writes \o pieces(r, s)) \o savedAt(s),
                             result |-> resAt(s), kept |-> kept]
  <2>1. WritePlans(c) = UNION {{Plan(s, r) : r \in Resized(s, sizeAt(s))} : s \in Found(c.name)}
    BY DEF WritePlans
  <2>. HIDE DEF Plan, pieces, savedAt, sizeAt, end, resAt, kept
  <2>2. PICK s \in Found(c.name) : \E r \in Resized(s, sizeAt(s)) : plan = Plan(s, r)
    BY <2>1, Zenon
  <2>. QED BY <2>2, Zenon DEF Plan
<1>. DEFINE size == sizeAt(s)
            res == resAt(s)
            w == Save(s, [slots[s] EXCEPT !.length = size])
            saved == <<w>>
<1>2. PICK r \in Resized(s, size) :
          plan = [writes |-> (r.writes \o pieces(r, s)) \o savedAt(s), result |-> res, kept |-> kept]
  BY <1>1
<1>. DEFINE P == Pieces(r.fat, slots[s].start, offset, bytes)
<1>3. /\ todo' = (r.writes \o P) \o saved /\ call'.op = "write" /\ call'.name = c.name
      /\ call'.result = res /\ call'.kept = kept
  <2>. DEFINE all == (r.writes \o P) \o saved
  <2>1. plan = [writes |-> all, result |-> res, kept |-> kept]
    BY <1>2
  <2>. HIDE DEF all, res, kept
  <2>2. todo' = all
    BY <2>1
  <2>3. call'.op = "write" /\ call'.name = c.name /\ call'.result = res /\ call'.kept = kept
    BY <2>1
  <2>. QED BY <2>2, <2>3 DEF all
<1>4. Holds(fat, data, slots[s], old)
  BY HeldByFound
<1>5. PICK p, n : Lies(fat, data, slots[s].start, p, n, old)
  BY <1>4 DEF Holds
<1>6. /\ Follows(fat, slots[s].start, p, n) /\ BlocksFor(Len(old)) <= n /\ old \in Seq(Int)
      /\ slots[s].length = Len(old) /\ Len(old) \in Nat
      /\ \A i \in 1 .. Len(old) : old[i] = Any \/ data[Place(p, i)] = old[i]
  BY <1>4, <1>5 DEF Holds, Lies
<1>7. slots[s] \in Entry /\ slots[s].start # FREE
  <2>1. s \in Others(slots, listed, 0)
    BY FoundFile
  <2>. QED BY <2>1, FoundInOrder DEF Others
<1>8. /\ offset \in Nat /\ bytes \in Seq(Nat) /\ bytes # <<>> /\ Len(bytes) \in Nat
      /\ end \in Nat /\ end = offset + Len(bytes) /\ offset < end
  <2>1. Len(bytes) \in Nat /\ Len(bytes) # 0
    BY EmptySeq
  <2>. QED BY <2>1
<1>9. size \in Nat \ {0} /\ end <= size /\ Len(old) <= size
  <2>. HIDE DEF end, old, offset
  <2>. QED BY <1>6, <1>8
<1>10. w.to = "slot" /\ w.entry.start # FREE /\ w.entry.length = size /\ Quiet(w, s, slots[s])
  <2>. HIDE DEF size
  <2>. QED BY <1>7, <1>9 DEF Save, Entry, Quiet
<1>11. res = Overwritten(Grown(old, size), offset, bytes)
  OBVIOUS
<1>. HIDE DEF old, size, res, kept, w, offset, bytes
<1>12. Series(saved) /\ QuietFrom(1, s, slots[s], saved) /\ Among(saved) = {w}
  BY <1>10, OneSeries, AmongOne
<1>. HIDE DEF end, saved
\* The row of blocks it works on.
<1>13. Series(P) /\ QuietFrom(1, s, slots[s], P)
  <2>. DEFINE h == (offset + Len(bytes) - 1) \div BlockSize - offset \div BlockSize + 1
  <2>1. h \in Int
    BY <1>8, FilesAssumption
  <2>2. P = [i \in 1 .. h |-> P[i]] /\ \A i \in 1 .. h : P[i].to = "data"
    BY DEF Pieces, Put
  <2>. HIDE DEF P, h
  <2>. DEFINE T == {P[i] : i \in 1 .. h}
  <2>3. P \in Seq(T)
    BY <2>1, <2>2, RunOfWrites
  <2>4. DOMAIN P = 1 .. h
    BY <2>2
  <2>. HIDE DEF T
  <2>5. DOMAIN P = 1 .. Len(P)
    BY <2>3, LenProperties
  <2>. QED BY <2>2, <2>3, <2>4, <2>5 DEF Series, QuietFrom, Quiet
<1>. HIDE DEF P
<1>. DEFINE q == P \o saved
<1>14. Series(q) /\ QuietFrom(1, s, slots[s], q) /\ Among(q) = Among(P) \union {w}
  BY <1>12, <1>13, QuietSeries, AmongBoth
<1>. HIDE DEF q
<1>15. Series(r.writes) /\ \E d, m : Arranged(d, m, s, r.writes \o q) /\ Resizes(d, m, p, n, s, size, r)
  BY <1>2, <1>6, <1>7, <1>9, <1>14, ResizeSetsOut
<1>16. todo' = r.writes \o q
  <2>. DEFINE x == r.writes
  <2>. HIDE DEF x
  <2>1. Series(x)
    BY <1>15 DEF x
  <2>2. (x \o P) \o saved = x \o (P \o saved)
    BY <1>12, <1>13, <2>1, JointSeries
  <2>. QED BY <1>3, <2>2, Zenon DEF q, x
<1>17. PICK d, m : Arranged(d, m, s, todo') /\ Resizes(d, m, p, n, s, size, r)
  BY <1>15, <1>16
<1>18. Row(d, m) /\ Row(p, n) /\ m \in Nat
  <2>1. Row(p, n)
    BY <1>6, RowOf
  <2>. QED BY <1>17, <2>1 DEF Arranged, Row
<1>19. /\ n \in 1 .. m /\ \A i \in 1 .. n : d[i] = p[i]
       /\ \A i \in 1 .. Len(old) : Place(d, i) = Place(p, i)
  BY <1>6, <1>9, <1>17, <1>18, RowBegins
<1>20. BlocksFor(Len(old)) <= m
  <2>1. BlocksFor(Len(old)) \in Nat
    BY <1>6, BlocksForPositive
  <2>. QED BY <1>6, <1>18, <1>19, <2>1
<1>21. BlocksFor(slots[s].length) <= n
  BY <1>6
\* What it puts there.
<1>22. /\ \A v \in Among(P) : v.to = "data" /\ Fills(v, d, m, offset, bytes)
       /\ \A i \in Nat : offset < i /\ i <= end => Reached(P, d, m, i)
  <2>1. r.fat \in [Blocks -> Links] /\ Leads(r.fat, slots[s].start, d, m, BlocksFor(size))
    BY <1>6, <1>9, <1>17, <1>18, <1>21, ResizedFollows
  <2>2. offset + Len(bytes) <= size /\ size \in Nat
    BY <1>8, <1>9
  <2>3. /\ \A v \in Among(P) : v.to = "data" /\ Fills(v, d, m, offset, bytes)
        /\ \A i \in Nat : offset < i /\ i <= offset + Len(bytes) => Reached(P, d, m, i)
    BY <1>8, <1>18, <2>1, <2>2, PiecesFill DEF P
  <2>. QED BY <1>8, <2>3
<1>23. Resizing(r.writes, d, m, s, size)
  BY <1>6, <1>9, <1>17, <1>21, ResizesSized
<1>24. Outset(todo', q, d, m, s, size)
  <2>1. \A v \in Among(q) : \/ v.to = "data"
                            \/ v.to = "slot" /\ v.entry.start # FREE /\ v.entry.length = size
    BY <1>10, <1>14, <1>22
  <2>. QED BY <1>7, <1>9, <1>14, <1>15, <1>16, <1>23, <2>1, ResizingOutset
<1>25. /\ res \in Seq(Int) /\ Len(res) = size
       /\ \A i \in 1 .. size : res[i] = IF offset < i /\ i <= end THEN bytes[i - offset]
                                        ELSE IF i <= Len(old) THEN old[i] ELSE Any
  <2>. DEFINE g == Grown(old, size)
  <2>1. /\ g \in Seq(Int) /\ Len(g) = size
        /\ \A i \in 1 .. size : g[i] = IF i <= Len(old) THEN old[i] ELSE Any
    BY <1>6, <1>9, GrownIs
  <2>. HIDE DEF g
  <2>2. offset + Len(bytes) <= Len(g)
    BY <1>8, <1>9, <2>1
  <2>3. /\ Overwritten(g, offset, bytes) \in Seq(Int) /\ Len(Overwritten(g, offset, bytes)) = Len(g)
        /\ \A i \in 1 .. Len(g) : Overwritten(g, offset, bytes)[i] =
               IF offset < i /\ i <= offset + Len(bytes) THEN bytes[i - offset] ELSE g[i]
    BY <1>8, <2>1, <2>2, OverwrittenIs
  <2>4. res = Overwritten(g, offset, bytes)
    BY <1>11 DEF g
  <2>. QED BY <1>8, <2>1, <2>3, <2>4
<1>26. ASSUME NEW v \in Among(todo'), v.to = "data" PROVE Puts(v, d, m, old, kept, res)
  <2>1. v \in Among(P)
    <3>1. v \in Among(ZeroOutFree(slots[s], size)) \/ v \in Among(q)
      BY <1>24, <1>26 DEF Outset
    <3>2. ZeroOutFree(slots[s], size) = <<>>
      BY <1>6, <1>9 DEF ZeroOutFree
    <3>. QED BY <1>10, <1>14, <1>26, <3>1, <3>2, AmongNone
  <2>2. PICK lo, hi : /\ Spans(v, d, m, lo, hi) /\ offset <= lo /\ hi <= offset + Len(bytes)
                      /\ \A i \in Nat : lo < i /\ i <= hi => v.bytes[i - lo] = bytes[i - offset]
    BY <1>22, <2>1 DEF Fills
  <2>3. lo \in Nat /\ hi \in Nat
    BY <2>2 DEF Spans
  <2>4. \A i \in (1 .. Len(old)) \cap kept : ~(lo < i /\ i <= hi)
    <3>1. SUFFICES ASSUME NEW i \in (1 .. Len(old)) \cap kept, lo < i, i <= hi PROVE FALSE
      OBVIOUS
    <3>2. i \in offset + 1 .. end
      BY <1>6, <1>8, <2>2, <2>3, <3>1
    <3>. QED BY <3>1, <3>2 DEF kept
  <2>5. \A i \in 1 .. Len(res) : lo < i /\ i <= hi => v.bytes[i - lo] = res[i]
    <3>1. SUFFICES ASSUME NEW i \in 1 .. size, lo < i, i <= hi PROVE v.bytes[i - lo] = res[i]
      BY <1>25
    <3>2. i \in Nat /\ offset < i /\ i <= end
      BY <1>8, <1>9, <2>2, <2>3, <3>1
    <3>. QED BY <1>25, <2>2, <3>1, <3>2
  <2>. QED BY <2>2, <2>4, <2>5 DEF Puts
<1>27. ASSUME NEW i \in 1 .. Len(res)
       PROVE  res[i] = Any \/ (i <= Len(old) /\ res[i] = old[i]) \/ Reached(todo', d, m, i)
  <2>1. CASE offset < i /\ i <= end
    <3>1. i \in Nat
      BY <1>9, <1>25
    <3>2. Reached(P, d, m, i)
      BY <1>22, <2>1, <3>1
    <3>3. \A v \in Among(P) : v \in Among(todo')
      BY <1>14, <1>24 DEF Outset
    <3>. QED BY <3>2, <3>3 DEF Reached
  <2>2. CASE ~(offset < i /\ i <= end)
    BY <1>25, <2>2
  <2>. QED BY <2>1, <2>2
<1>28. Handled(fat, data, d, m, s, slots[s], todo', old, kept, "write", res)
  <2>1. \A i \in 1 .. Len(old) : old[i] = Any \/ data[Place(d, i)] = old[i]
    BY <1>6, <1>19
  <2>2. Outset(todo', q, d, m, s, Len(res))
    BY <1>24, <1>25
  <2>. QED BY <1>6, <1>7, <1>18, <1>20, <1>25, <1>26, <1>27, <2>1, <2>2, OutsetHandled
<1>. QED BY <1>3, <1>17, <1>28, FileKnownSetsOut DEF old

-----------------------------------------------------------------------------
(* What is known all the time.                                             *)

\* create begins.
LEMMA CreateKnownBegins ==
    ASSUME Types, Resting, Undamaged, IdleKnown, NEW c, c.name \in Files, NEW plan \in CreatePlans(c),
           todo' = plan.writes, UNCHANGED <<fat, slots, listed, data, content, cuts>>,
           call' = [op |-> c.op, name |-> c.name, result |-> plan.result, kept |-> plan.kept]
    PROVE  Types' /\ ((\E s, b : CreateKnown(s, b)') \/ (\E b : NoRoomKnown(b)'))
<1>1. call'.name = c.name /\ call'.result = plan.result
  OBVIOUS
<1>2. Types' /\ \/ \E s, b : CreateStage(s, b)' /\ Unused(s) /\ plan.result = <<>>
                \/ \E b : NoRoom(b)' /\ plan.result = Absent
  BY <1>1, CreateBegins
<1>3. ASSUME NEW s, NEW b, CreateStage(s, b)', Unused(s), plan.result = <<>>
      PROVE  CreateKnown(s, b)'
  <2>1. Told(fat, data, slots, listed, s, content, c.name)
    BY <1>3, ToldAtRest DEF Unused
  <2>2. Told(fat', data', slots', listed', s, content', call'.name)
    BY <1>1, <2>1
  <2>. QED BY <1>1, <1>3, <2>2 DEF CreateKnown
<1>4. ASSUME NEW b, NoRoom(b)', plan.result = Absent
      PROVE  NoRoomKnown(b)'
  <2>1. 0 \notin Others(slots, listed, 0)
    BY DEF Others
  <2>2. Told(fat, data, slots, listed, 0, content, c.name)
    BY <2>1, ToldAtRest
  <2>3. Told(fat', data', slots', listed', 0, content', call'.name)
    BY <1>1, <2>2
  <2>4. Found(c.name) = {}
    BY DEF CreatePlans
  <2>5. NewName(slots, listed, 0, c.name)
    BY <2>4, NotFound DEF NewName
  <2>6. NewName(slots', listed', 0, call'.name)
    BY <1>1, <2>5
  <2>. QED BY <1>1, <1>4, <2>3, <2>6 DEF NoRoomKnown
<1>. QED BY <1>2, <1>3, <1>4

\* A call begins.
LEMMA KnownBegin ==
    ASSUME KInv, NEW c \in Calls, Begin(c) PROVE KInv'
<1>1. /\ Idle /\ Undamaged /\ Types /\ Resting /\ IdleKnown
      /\ UNCHANGED <<fat, slots, listed, data, content, cuts>>
  BY DEF KInv, IInv, Begin
<1>2. PICK plan \in Plans(c) :
          /\ todo' = plan.writes
          /\ call' = [op |-> c.op, name |-> c.name, result |-> plan.result, kept |-> plan.kept]
  BY DEF Begin
<1>3. IInv'
  BY BeginStep DEF KInv
<1>4. call'.op = c.op /\ call'.name = c.name /\ c.name \in Files
  BY <1>2, FilesAssumption
<1>5. ~Idle'
  <2>1. c.op # "none"
    BY FilesAssumption
  <2>. QED BY <1>4, <2>1 DEF Idle, NoCall
<1>6. CASE c.op = "create"
  <2>1. plan \in CreatePlans(c)
    BY <1>6 DEF Plans
  <2>2. (\E s, b : CreateKnown(s, b)') \/ (\E b : NoRoomKnown(b)')
    BY <1>1, <1>2, <1>4, <2>1, CreateKnownBegins
  <2>3. BusyKnown'
    BY <1>4, <1>6, <2>2 DEF BusyKnown
  <2>. QED BY <1>1, <1>3, <1>5, <2>3 DEF KInv
<1>7. ASSUME c.op # "create", \E s, d, n : FileKnown(s, d, n)' PROVE KInv'
  <2>1. BusyKnown'
    BY <1>4, <1>7 DEF BusyKnown
  <2>. QED BY <1>1, <1>3, <1>5, <2>1 DEF KInv
<1>8. CASE c.op = "remove"
  <2>1. plan \in RemovePlans(c)
    BY <1>8 DEF Plans
  <2>2. \E s, d, n : FileKnown(s, d, n)'
    BY <1>1, <1>2, <1>4, <1>8, <2>1, RemoveKnown
  <2>. QED BY <1>7, <1>8, <2>2
<1>9. CASE c.op = "truncate"
  <2>1. plan \in TruncatePlans(c) /\ c.size \in Nat /\ Disciplined(c)
    BY <1>9, FilesAssumption DEF Plans, Begin
  <2>2. \E s, d, n : FileKnown(s, d, n)'
    BY <1>1, <1>2, <1>4, <1>9, <2>1, TruncateKnown
  <2>. QED BY <1>7, <1>9, <2>2
<1>10. CASE c.op = "write"
  <2>1. plan \in WritePlans(c) /\ c.offset \in Nat /\ c.bytes \in Seq(Nat) /\ c.bytes # <<>>
    BY <1>10, FilesAssumption DEF Plans
  <2>2. \E s, d, n : FileKnown(s, d, n)'
    BY <1>1, <1>2, <1>4, <1>10, <2>1, WriteKnown
  <2>. QED BY <1>7, <1>10, <2>2
<1>. QED BY <1>6, <1>8, <1>9, <1>10, FilesAssumption

\* What is known depends on the variables only.
LEMMA KnownUnchanged ==
    ASSUME KInv, UNCHANGED vars PROVE KInv'
<1>1. IInv'
  BY DEF KInv, vars, IInv, Idle, Types, Resting, Busy, Disjoint, Undamaged, Sound, Taken,
         CreateStage, NoRoom, FileStage
<1>2. Idle' = Idle /\ content' = content
  BY DEF vars, Idle
<1>3. IdleKnown => IdleKnown'
  BY DEF vars, IdleKnown, Known, Taken, Undamaged, Sound
<1>4. BusyKnown => BusyKnown'
  BY DEF vars, BusyKnown, CreateKnown, NoRoomKnown, FileKnown, CreateStage, NoRoom, FileStage
<1>. QED BY <1>1, <1>2, <1>3, <1>4 DEF KInv

\* The invariant holds on.
LEMMA StaysKnown == Spec => []KInv
<1>1. Init => KInv
  BY KnownInit
<1>2. KInv /\ [Next]_vars => KInv'
  <2>1. SUFFICES ASSUME KInv, [Next]_vars PROVE KInv'
    OBVIOUS
  <2>2. CASE UNCHANGED vars
    BY <2>1, <2>2, KnownUnchanged
  <2>3. ASSUME NEW c \in Calls, Begin(c) PROVE KInv'
    BY <2>1, <2>3, KnownBegin
  <2>4. CASE Write
    BY <2>1, <2>4, KnownWrite
  <2>5. CASE Return
    BY <2>1, <2>5, KnownReturn
  <2>6. CASE PowerCut
    BY <2>1, <2>6, KnownPowerCut
  <2>. QED BY <2>1, <2>2, <2>3, <2>4, <2>5, <2>6 DEF Next
<1>. QED BY <1>1, <1>2, PTL DEF Spec

-----------------------------------------------------------------------------
(* What read returns.                                                      *)

\* The blocks of a chain from one of them on.
LEMMA FollowsFrom ==
    ASSUME NEW table, NEW start, NEW p, NEW n, Follows(table, start, p, n), NEW q \in Nat, q < n
    PROVE  Follows(table, p[q + 1], [i \in 1 .. n - q |-> p[q + i]], n - q)
<1>. DEFINE g == [i \in 1 .. n - q |-> p[q + i]]
            m == n - q
<1>1. n \in Nat \ {0} /\ m \in Nat \ {0} /\ q + m = n
  BY DEF Follows
<1>2. /\ \A i \in 1 .. m : q + i \in 1 .. n /\ i \in Int
      /\ \A i \in 1 .. m - 1 : i \in 1 .. m /\ i + 1 \in 1 .. m /\ q + i \in 1 .. n - 1
                               /\ (q + i) + 1 = q + (i + 1)
      /\ 1 \in 1 .. m /\ m \in 1 .. m
  BY <1>1
<1>3. \A i \in 1 .. m : g[i] = p[q + i]
  OBVIOUS
<1>4. g \in [1 .. m -> DataBlocks]
  BY <1>2 DEF Follows
<1>. HIDE DEF g, m
<1>5. g[1] = p[q + 1] /\ table[g[m]] = FINAL
  BY <1>1, <1>2, <1>3 DEF Follows
<1>6. ASSUME NEW i \in 1 .. m - 1 PROVE table[g[i]] = g[i + 1]
  <2>1. table[p[q + i]] = p[(q + i) + 1]
    BY <1>2 DEF Follows
  <2>. QED BY <1>2, <1>3, <2>1
<1>7. ASSUME NEW i \in 1 .. m, NEW j \in 1 .. m, g[i] = g[j] PROVE i = j
  <2>1. q + i = q + j
    BY <1>2, <1>3, <1>7 DEF Follows
  <2>. QED BY <1>2, <2>1
<1>8. Follows(table, p[q + 1], g, m)
  BY <1>1, <1>4, <1>5, <1>6, <1>7 DEF Follows
<1>. QED BY <1>8 DEF g, m

\* A read of the file with the chain p that starts with a block or stays within one.
Reads(e, p, n, offset, size) ==
    /\ Follows(fat, e.start, p, n)
    /\ offset \in Nat /\ size \in Nat /\ offset + size <= n * BlockSize
    /\ Readable(offset, size)

\* The address of each of its bytes.
LEMMA ReadsPlace ==
    ASSUME fat \in [Blocks -> Links], NEW e, NEW p, NEW n, NEW offset, NEW size,
           Reads(e, p, n, offset, size), NEW j \in 1 .. size
    PROVE  ReadAddress(e, offset, size, j - 1) = Place(p, offset + j)
<1>. DEFINE q == offset \div BlockSize
            y == offset % BlockSize
            first == Hop(fat, e.start, q)
            m == n - q
            g == [i \in 1 .. m |-> p[q + i]]
<1>. /\ Follows(fat, e.start, p, n) /\ Readable(offset, size)
     /\ offset \in Nat /\ size \in Nat /\ offset + size <= n * BlockSize
  BY DEF Reads
<1>0. BlockSize \in Nat /\ BlockSize > 0 /\ n \in Nat /\ j \in Nat /\ j >= 1 /\ j <= size
  BY FilesAssumption DEF Follows
<1>1. q \in Nat /\ y \in Nat /\ y < BlockSize /\ offset = q * BlockSize + y
  BY Divided
<1>2. ReadAddress(e, offset, size, j - 1) = Position(fat, first, y + (j - 1))
  BY DEF ReadAddress, Readable
<1>. HIDE DEF q, y
<1>3. n * BlockSize \in Int /\ q * BlockSize \in Int
  BY <1>0, <1>1, Ordered
<1>4. q < n
  <2>1. n < q => n * BlockSize + BlockSize <= q * BlockSize
    BY <1>0, <1>1, Ordered
  <2>2. ~(n < q) /\ n # q
    BY <1>0, <1>1, <1>3, <2>1
  <2>. QED BY <1>0, <1>1, <2>2
<1>5. first = p[q + 1]
  BY <1>1, <1>4, FollowedHop
<1>6. Follows(fat, first, g, m)
  BY <1>1, <1>4, <1>5, FollowsFrom
<1>7. m \in Nat /\ y + j \in Nat /\ y + j >= 1 /\ y + j <= m * BlockSize /\ (y + j) - 1 = y + (j - 1)
  <2>1. \A b \in Nat : (n - q) * b = n * b - q * b
    BY <1>0, <1>1, Z3
  <2>2. m * BlockSize = n * BlockSize - q * BlockSize
    BY <1>0, <2>1
  <2>3. m \in Nat
    BY <1>0, <1>1, <1>4
  <2>. HIDE DEF m
  <2>. QED BY <1>0, <1>1, <1>3, <2>2, <2>3
<1>. DEFINE z == y + (j - 1)
            k == z \div BlockSize
            r == z % BlockSize
<1>8. Position(fat, first, z) = Place(g, y + j)
  <2>. HIDE DEF m, g, first
  <2>. QED BY <1>6, <1>7, PositionIs
<1>9. k + 1 \in 1 .. m
  <2>1. Row(g, m)
    BY <1>6, RowOf
  <2>. HIDE DEF m, g, first
  <2>2. ((y + j) - 1) \div BlockSize + 1 \in 1 .. m
    BY <1>7, <2>1, Placed
  <2>. QED BY <1>7, <2>2
<1>10. Place(g, y + j) = p[q + (k + 1)] * BlockSize + r
  <2>1. Place(g, y + j) = g[k + 1] * BlockSize + r
    <3>. HIDE DEF m, g, first
    <3>. QED BY <1>7 DEF Place
  <2>2. g[k + 1] = p[q + (k + 1)]
    <3>. HIDE DEF k, m
    <3>. QED BY <1>9
  <2>. QED BY <2>1, <2>2
<1>11. z \in Nat /\ (offset + j) - 1 = q * BlockSize + z
  BY <1>0, <1>1, <1>3
<1>12. k \in Nat /\ r \in Nat /\ r < BlockSize /\ z = k * BlockSize + r
  <2>. HIDE DEF z
  <2>. QED BY <1>11, Divided
<1>. HIDE DEF z, k, r, m, g, first
<1>13. (offset + j) - 1 = (q + k) * BlockSize + r
  <2>1. \A b \in Nat : (q + k) * b = q * b + k * b
    BY <1>1, <1>12, Z3
  <2>2. (q + k) * BlockSize = q * BlockSize + k * BlockSize
    BY <1>0, <2>1
  <2>3. k * BlockSize \in Int
    BY <1>12, Ordered
  <2>. QED BY <1>3, <1>11, <1>12, <2>2, <2>3
<1>14. ((offset + j) - 1) \div BlockSize = q + k /\ ((offset + j) - 1) % BlockSize = r
  BY <1>1, <1>12, <1>13, DividedAs
<1>15. Place(p, offset + j) = p[(q + k) + 1] * BlockSize + r
  BY <1>14 DEF Place
<1>16. (q + k) + 1 = q + (k + 1)
  BY <1>1, <1>12
<1>17. ReadAddress(e, offset, size, j - 1) = Position(fat, first, z)
  BY <1>2 DEF z
<1>. QED BY <1>8, <1>10, <1>15, <1>16, <1>17

\* Read returns what the file holds.
LEMMA ReadsHeld ==
    ASSUME fat \in [Blocks -> Links], NEW e, NEW old, Holds(fat, data, e, old),
           NEW offset \in Nat, NEW size \in Nat, offset + size <= e.length,
           Readable(offset, size), NEW j \in 1 .. size, old[offset + j] # Any
    PROVE  Read(e, offset, size)[j] = old[offset + j]
<1>1. PICK p, n : Lies(fat, data, e.start, p, n, old)
  BY DEF Holds
<1>2. old \in Seq(Int) /\ e.length = Len(old) /\ Len(old) \in Nat
  BY DEF Holds
<1>3. Follows(fat, e.start, p, n) /\ BlocksFor(Len(old)) <= n /\ n \in Nat
  BY <1>1 DEF Lies, Follows
<1>4. offset + size <= n * BlockSize
  <2>1. Len(old) <= n * BlockSize /\ n * BlockSize \in Int
    BY <1>2, <1>3, BlocksForIs, Ordered
  <2>. QED BY <1>2, <2>1
<1>5. ReadAddress(e, offset, size, j - 1) = Place(p, offset + j)
  <2>1. Reads(e, p, n, offset, size)
    BY <1>3, <1>4 DEF Reads
  <2>. QED BY <2>1, ReadsPlace
<1>6. offset + j \in 1 .. Len(old) /\ ~(e.length <= offset)
  BY <1>2
<1>7. data[Place(p, offset + j)] = old[offset + j]
  BY <1>1, <1>6 DEF Lies
<1>8. Read(e, offset, size)[j] = data[ReadAddress(e, offset, size, j - 1)]
  BY <1>6 DEF Read
<1>. QED BY <1>5, <1>7, <1>8

\* The file of a name is read back.
ReadBack(name) ==
    /\ Cardinality({s \in DOMAIN Readdir : Readdir[s] = name}) =
           IF content[name] = Absent THEN 0 ELSE 1
    /\ \A s \in Found(name) :
          /\ slots[s].length = Len(content[name])
          /\ \A offset \in 0 .. slots[s].length - 1 :
                \A size \in 1 .. slots[s].length - offset :
                    Readable(offset, size) =>
                        \A j \in 1 .. size :
                            LET byte == content[name][offset + j]
                            IN  byte = Any \/ Read(slots[s], offset, size)[j] = byte

\* That is so if it is what it is thought to be.
LEMMA KnownIsRead ==
    ASSUME Types, NEW name \in Files, Known(name, content[name])
    PROVE  ReadBack(name)
<1>. DEFINE listing == {s \in DOMAIN Readdir : Readdir[s] = name}
            T == {t \in Slots : Taken(t) /\ slots[t].name = name}
<1>1. listing = T
  BY DEF Readdir
<1>2. \A s \in Found(name) : s \in T
  BY FoundNone
<1>3. fat \in [Blocks -> Links]
  BY DEF Types
<1>4. CASE content[name] = Absent /\ \A t \in Slots : Taken(t) => slots[t].name # name
  <2>1. T = {}
    BY <1>4
  <2>2. Cardinality(listing) = 0
    BY <1>1, <2>1, FS_EmptySet
  <2>3. Found(name) = {}
    BY <1>2, <2>1
  <2>. QED BY <1>4, <2>2, <2>3 DEF ReadBack
<1>5. ASSUME NEW t \in Slots, Taken(t), slots[t].name = name,
             \A u \in Slots : Taken(u) /\ slots[u].name = name => u = t,
             Holds(fat, data, slots[t], content[name])
      PROVE  ReadBack(name)
  <2>1. T = {t}
    BY <1>5
  <2>2. Cardinality(listing) = 1
    BY <1>1, <2>1, FS_Singleton
  <2>3. content[name] \in Seq(Int) /\ slots[t].length = Len(content[name])
    BY <1>5 DEF Holds
  <2>4. content[name] # Absent /\ slots[t].length \in Nat
    BY <2>3, ContentAssumption
  <2>5. ASSUME NEW offset \in 0 .. slots[t].length - 1, NEW size \in 1 .. slots[t].length - offset,
               Readable(offset, size), NEW j \in 1 .. size, content[name][offset + j] # Any
        PROVE  Read(slots[t], offset, size)[j] = content[name][offset + j]
    <3>1. offset \in Nat /\ size \in Nat /\ offset + size <= slots[t].length
      BY <2>4
    <3>. QED BY <1>3, <1>5, <2>5, <3>1, ReadsHeld
  <2>6. \A s \in Found(name) : s = t
    BY <1>2, <2>1
  <2>7. ASSUME NEW s \in Found(name)
        PROVE  /\ slots[s].length = Len(content[name])
               /\ \A offset \in 0 .. slots[s].length - 1 :
                     \A size \in 1 .. slots[s].length - offset :
                         Readable(offset, size) =>
                             \A j \in 1 .. size :
                                 LET byte == content[name][offset + j]
                                 IN  byte = Any \/ Read(slots[s], offset, size)[j] = byte
    <3>1. s = t
      BY <2>6
    <3>. QED BY <2>3, <2>5, <3>1, Zenon
  <2>. QED BY <2>2, <2>4, <2>7 DEF ReadBack
<1>. QED BY <1>4, <1>5 DEF Known

\* Whatever a file was last given is what read returns, and readdir lists it once, while
\* the other file is written, resized, removed, or cut off in the middle of any of these.
THEOREM FilesAreReadBack == Spec => []FilesReadBack
<1>1. KInv => FilesReadBack
  <2>1. SUFFICES ASSUME KInv, NEW name \in Files, content[name] # Unknown, Idle \/ call.name # name
                 PROVE  ReadBack(name)
    BY DEF FilesReadBack, ReadBack
  <2>2. Types
    BY <2>1 DEF KInv, IInv
  <2>3. Known(name, content[name])
    <3>1. CASE Idle
      BY <2>1, <3>1 DEF KInv, IdleKnown
    <3>2. CASE ~Idle
      BY <2>1, <2>2, <3>2, RestKnown DEF KInv
    <3>. QED BY <3>1, <3>2
  <2>. QED BY <2>2, <2>3, KnownIsRead
<1>. QED BY <1>1, StaysKnown, PTL
=============================================================================
