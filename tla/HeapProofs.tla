----------------------------- MODULE HeapProofs -----------------------------
(***************************************************************************)
(* Theorems about Heap, for every size of header, every alignment, every   *)
(* start and every set of sizes.                                           *)
(***************************************************************************)
EXTENDS HeapProperties, NatSetInduction, SequenceTheorems

LEMMA Behind ==
    ASSUME NEW a \in Nat, NEW b \in Nat, NEW h \in Nat, NEW n \in Nat, NEW m \in Nat,
           n <= m, a + h + m <= b
    PROVE  a + h + n <= b + h
OBVIOUS

-----------------------------------------------------------------------------
(* Lists of blocks.                                                         *)

\* Blocks in the order of their addresses, all in front of an address.
Ordered(list, high) ==
    /\ \A i, j \in 1 .. Len(list) : i < j => After(list[i]) <= list[j].at
    /\ \A i \in 1 .. Len(list) : After(list[i]) < high

Unmerged(list) ==
    \A i \in 1 .. Len(list) : i + 1 \in 1 .. Len(list) => ~(list[i].free /\ list[i + 1].free)

\* What merge has made of the first n blocks of a list.
Merged(list, high, m, n) ==
    /\ m \in Seq(Block)
    /\ Ordered(m, high)
    /\ \A i \in 1 .. Len(m), k \in n + 1 .. Len(list) : After(m[i]) <= list[k].at
    /\ \A i \in 1 .. Len(m) : \E k \in 1 .. n : m[i].at = list[k].at /\ (m[i].free \/ m[i] = list[k])
    /\ \A k \in 1 .. n : ~list[k].free => \E i \in 1 .. Len(m) : m[i] = list[k]
    /\ Unmerged(m)

LEMMA AfterType ==
    ASSUME NEW block \in Block
    PROVE  /\ block.at \in Nat /\ block.size \in Nat /\ block.free \in BOOLEAN
           /\ After(block) \in Nat /\ block.at < After(block)
BY HeapAssumption DEF After, Block

LEMMA GrownType ==
    ASSUME NEW block \in Block, NEW other \in Block
    PROVE  [block EXCEPT !.size = @ + HeaderSize + other.size] \in Block
<1>1. HeaderSize \in Nat /\ block.size \in Nat /\ other.size \in Nat
  BY HeapAssumption DEF Block
<1>. QED BY <1>1 DEF Block

LEMMA Grown ==
    ASSUME NEW block \in Block, NEW other \in Block, After(block) <= other.at
    PROVE  LET grown == [block EXCEPT !.size = @ + HeaderSize + other.size]
           IN  /\ grown \in Block
               /\ grown.at = block.at /\ grown.free = block.free
               /\ After(grown) <= After(other)
<1>. DEFINE grown == [block EXCEPT !.size = @ + HeaderSize + other.size]
<1>1. grown.at = block.at /\ grown.free = block.free /\ grown.size = block.size + HeaderSize + other.size
  BY DEF Block
<1>2. HeaderSize \in Nat /\ block.size \in Nat /\ other.size \in Nat
  BY HeapAssumption DEF Block
<1>3. grown \in Block
  BY GrownType
<1>4. After(grown) <= After(other)
  <2>. HIDE DEF grown
  <2>. QED BY <1>1, <1>2, AfterType DEF After
<1>. QED BY <1>1, <1>3, <1>4

LEMMA AbsorbStep ==
    ASSUME NEW list \in Seq(Block), NEW high \in Nat, Ordered(list, high),
           NEW n \in Nat, n + 1 \in 1 .. Len(list), NEW m, Merged(list, high, m, n)
    PROVE  Merged(list, high, Absorb(m, list[n + 1]), n + 1)
<1>. DEFINE b == list[n + 1]
            L == Len(m)
            r == Absorb(m, b)
<1>1. /\ Len(list) \in Nat
      /\ b \in Block
      /\ \A k \in 1 .. Len(list) : list[k] \in Block
  BY ElementOfSeq
<1>2. m \in Seq(Block) /\ L \in Nat
  BY LenProperties DEF Merged
<1>8. \A i \in 1 .. L : m[i] \in Block /\ m[i].at \in Nat /\ After(m[i]) \in Nat
                        /\ m[i].at < After(m[i])
  BY <1>2, ElementOfSeq, AfterType
<1>9. /\ \A i, j \in 1 .. L : i < j => After(m[i]) <= m[j].at
      /\ \A i \in 1 .. L : After(m[i]) < high
      /\ \A i \in 1 .. L, k \in n + 1 .. Len(list) : After(m[i]) <= list[k].at
  BY DEF Merged, Ordered
<1>10. /\ \A i \in 1 .. L : \E k \in 1 .. n : m[i].at = list[k].at /\ (m[i].free \/ m[i] = list[k])
       /\ \A k \in 1 .. n : ~list[k].free => \E i \in 1 .. L : m[i] = list[k]
  BY DEF Merged
<1>11. \A i \in 1 .. L : i + 1 \in 1 .. L => ~(m[i].free /\ m[i + 1].free)
  BY DEF Merged, Unmerged
<1>3. After(b) \in Nat /\ b.at \in Nat /\ b.at < After(b) /\ After(b) < high
  BY <1>1, AfterType DEF Ordered
<1>4. \A k \in n + 2 .. Len(list) : After(b) <= list[k].at
  BY <1>1 DEF Ordered
<1>5. \A i \in 1 .. L : After(m[i]) <= b.at
  BY <1>1, <1>9
<1>. HIDE DEF b, L
<1>6. CASE m # <<>> /\ m[L].free /\ b.free
  <2>. DEFINE c == [m[L] EXCEPT !.size = @ + HeaderSize + b.size]
  <2>1. L \in 1 .. L
    BY <1>2, <1>6, EmptySeq DEF L
  <2>2. c \in Block /\ c.at = m[L].at /\ c.free /\ After(c) <= After(b)
    BY <1>1, <1>5, <1>6, <1>8, <2>1, Grown DEF b
  <2>3. After(c) \in Nat
    BY <2>2, AfterType
  <2>4. r = [m EXCEPT ![L] = c]
    BY <1>6 DEF Absorb, L
  <2>. HIDE DEF c, r
  <2>5. /\ r \in Seq(Block) /\ Len(r) = L
        /\ \A i \in 1 .. L : r[i] = IF i = L THEN c ELSE m[i]
    BY <1>2, <2>1, <2>2, <2>4, ExceptSeq DEF L
  <2>6. Ordered(r, high)
    <3>1. ASSUME NEW i \in 1 .. L, NEW j \in 1 .. L, i < j PROVE After(r[i]) <= r[j].at
      <4>1. i # L
        BY <1>2, <3>1
      <4>2. r[i] = m[i] /\ r[j].at = m[j].at
        BY <2>2, <2>5, <4>1
      <4>. QED BY <3>1, <4>2, <1>9
    <3>2. ASSUME NEW i \in 1 .. L PROVE After(r[i]) < high
      <4>1. CASE i = L
        BY <1>3, <2>2, <2>3, <2>5, <4>1
      <4>2. CASE i # L
        BY <2>5, <4>2, <1>9
      <4>. QED BY <4>1, <4>2
    <3>. QED BY <2>5, <3>1, <3>2 DEF Ordered
  <2>7. \A i \in 1 .. L, k \in n + 2 .. Len(list) : After(r[i]) <= list[k].at
    <3>1. ASSUME NEW i \in 1 .. L, NEW k \in n + 2 .. Len(list) PROVE After(r[i]) <= list[k].at
      <4>0. k \in n + 1 .. Len(list) /\ k \in 1 .. Len(list)
        <5>1. Len(list) \in Nat
          BY <1>1
        <5>. QED BY <5>1
      <4>1. k \in n + 1 .. Len(list) /\ list[k].at \in Nat
        BY <1>1, <4>0, AfterType
      <4>2. CASE i = L
        BY <1>3, <1>4, <2>2, <2>3, <2>5, <4>1, <4>2
      <4>3. CASE i # L
        BY <1>9, <2>5, <4>1, <4>3
      <4>. QED BY <4>2, <4>3
    <3>. QED BY <3>1
  <2>8. \A i \in 1 .. L : \E k \in 1 .. n + 1 : r[i].at = list[k].at /\ (r[i].free \/ r[i] = list[k])
    <3>1. ASSUME NEW i \in 1 .. L
          PROVE  \E k \in 1 .. n + 1 : r[i].at = list[k].at /\ (r[i].free \/ r[i] = list[k])
      <4>1. PICK k \in 1 .. n : m[i].at = list[k].at /\ (m[i].free \/ m[i] = list[k])
        BY <1>10
      <4>. QED BY <2>2, <2>5, <4>1
    <3>. QED BY <3>1
  <2>9. \A k \in 1 .. n + 1 : ~list[k].free => \E i \in 1 .. L : r[i] = list[k]
    <3>1. ASSUME NEW k \in 1 .. n + 1, ~list[k].free PROVE \E i \in 1 .. L : r[i] = list[k]
      <4>1. k \in 1 .. n
        BY <1>6, <3>1 DEF b
      <4>2. PICK i \in 1 .. L : m[i] = list[k]
        BY <1>10, <3>1, <4>1
      <4>3. i # L
        BY <1>6, <3>1, <4>2
      <4>. QED BY <2>5, <4>2, <4>3
    <3>. QED BY <3>1
  <2>10. Unmerged(r)
    BY <1>6, <1>11, <2>2, <2>5 DEF Unmerged
  <2>. QED BY <2>5, <2>6, <2>7, <2>8, <2>9, <2>10 DEF Merged, r, b
<1>7. CASE ~(m # <<>> /\ m[L].free /\ b.free)
  <2>1. r = Append(m, b)
    BY <1>7 DEF Absorb, L
  <2>. HIDE DEF r
  <2>2. /\ r \in Seq(Block) /\ Len(r) = L + 1
        /\ \A i \in 1 .. L + 1 : r[i] = IF i = L + 1 THEN b ELSE m[i]
    BY <1>1, <1>2, <2>1, AppendProperties DEF L
  <2>3. Ordered(r, high)
    <3>1. ASSUME NEW i \in 1 .. L + 1, NEW j \in 1 .. L + 1, i < j PROVE After(r[i]) <= r[j].at
      <4>1. i \in 1 .. L /\ r[i] = m[i]
        BY <1>2, <2>2, <3>1
      <4>2. CASE j = L + 1
        BY <1>5, <2>2, <4>1, <4>2
      <4>3. CASE j # L + 1
        BY <1>2, <2>2, <3>1, <4>1, <4>3, <1>9
      <4>. QED BY <4>2, <4>3
    <3>2. ASSUME NEW i \in 1 .. L + 1 PROVE After(r[i]) < high
      BY <1>2, <1>3, <2>2, <1>9
    <3>. QED BY <2>2, <3>1, <3>2 DEF Ordered
  <2>4. \A i \in 1 .. L + 1, k \in n + 2 .. Len(list) : After(r[i]) <= list[k].at
    <3>1. ASSUME NEW i \in 1 .. L + 1, NEW k \in n + 2 .. Len(list) PROVE After(r[i]) <= list[k].at
      <4>1. k \in n + 1 .. Len(list)
        BY <1>1
      <4>2. i # L + 1 => i \in 1 .. L
        BY <1>2
      <4>. QED BY <1>4, <1>9, <2>2, <4>1, <4>2
    <3>. QED BY <3>1
  <2>5. \A i \in 1 .. L + 1 : \E k \in 1 .. n + 1 :
            r[i].at = list[k].at /\ (r[i].free \/ r[i] = list[k])
    <3>1. ASSUME NEW i \in 1 .. L
          PROVE  \E k \in 1 .. n + 1 : r[i].at = list[k].at /\ (r[i].free \/ r[i] = list[k])
      <4>1. PICK k \in 1 .. n : m[i].at = list[k].at /\ (m[i].free \/ m[i] = list[k])
        BY <1>10
      <4>. QED BY <1>2, <2>2, <4>1
    <3>2. n + 1 \in 1 .. n + 1 /\ r[L + 1] = list[n + 1]
      BY <1>2, <2>2 DEF b
    <3>3. \A i \in 1 .. L + 1 : i \in 1 .. L \/ i = L + 1
      BY <1>2
    <3>. QED BY <3>1, <3>2, <3>3
  <2>6. \A k \in 1 .. n + 1 : ~list[k].free => \E i \in 1 .. L + 1 : r[i] = list[k]
    <3>1. ASSUME NEW k \in 1 .. n, ~list[k].free PROVE \E i \in 1 .. L + 1 : r[i] = list[k]
      <4>1. PICK i \in 1 .. L : m[i] = list[k]
        BY <1>10, <3>1
      <4>. QED BY <1>2, <2>2, <4>1
    <3>2. L + 1 \in 1 .. L + 1 /\ r[L + 1] = list[n + 1]
      BY <1>2, <2>2 DEF b
    <3>. QED BY <3>1, <3>2
  <2>7. Unmerged(r)
    <3>1. m # <<>> <=> L # 0
      BY <1>2, EmptySeq DEF L
    <3>2. ASSUME NEW i \in 1 .. L + 1, i + 1 \in 1 .. L + 1 PROVE ~(r[i].free /\ r[i + 1].free)
      <4>1. CASE i = L
        BY <1>2, <1>7, <2>2, <3>1, <3>2, <4>1
      <4>2. CASE i # L
        <5>1. i \in 1 .. L /\ i + 1 \in 1 .. L /\ r[i] = m[i] /\ r[i + 1] = m[i + 1]
          BY <1>2, <2>2, <3>2, <4>2
        <5>. QED BY <5>1, <1>11
      <4>. QED BY <4>1, <4>2
    <3>. QED BY <2>2, <3>2 DEF Unmerged
  <2>8. n + 1 + 1 = n + 2
    OBVIOUS
  <2>9. Merged(list, high, r, n + 1)
    BY <2>2, <2>3, <2>4, <2>5, <2>6, <2>7, <2>8 DEF Merged
  <2>. QED BY <2>9 DEF r, b
<1>. QED BY <1>6, <1>7

\* What merge makes of a list, block by block.
Merges(f, list) ==
    /\ f \in [0 .. Len(list) -> Seq(Block)]
    /\ f[0] = <<>>
    /\ \A n \in 1 .. Len(list) : f[n] = Absorb(f[n - 1], list[n])
    /\ f[Len(list)] = merge(list)

LEMMA MergeRuns == ASSUME NEW list \in Seq(Block) PROVE \E f : Merges(f, list)
<1>. DEFINE N == Len(list)
            merged[n \in 0 .. N] == IF n = 0 THEN <<>> ELSE Absorb(merged[n - 1], list[n])
            step == [k \in Nat |-> [l \in Seq(Block) |->
                        IF k \in 1 .. N THEN Absorb(l, list[k]) ELSE l]]
<1>1. N \in Nat /\ \A k \in 1 .. N : list[k] \in Block
  BY LenProperties, ElementOfSeq
<1>2. ASSUME NEW l \in Seq(Block), NEW b \in Block PROVE Absorb(l, b) \in Seq(Block)
  <2>1. CASE l # <<>> /\ l[Len(l)].free /\ b.free
    <3>. DEFINE x == l[Len(l)]
                c == [x EXCEPT !.size = @ + HeaderSize + b.size]
    <3>1. Len(l) \in 1 .. Len(l) /\ x \in Block
      BY <2>1, EmptySeq, ElementOfSeq
    <3>2. c \in Block
      <4>. HIDE DEF x
      <4>. QED BY <3>1, GrownType
    <3>3. Absorb(l, b) = [l EXCEPT ![Len(l)] = c]
      BY <2>1 DEF Absorb
    <3>. HIDE DEF c
    <3>. QED BY <3>1, <3>2, <3>3, ExceptSeq
  <2>2. CASE ~(l # <<>> /\ l[Len(l)].free /\ b.free)
    BY <2>2, AppendProperties DEF Absorb
  <2>. QED BY <2>1, <2>2
<1>3. step \in [Nat -> [Seq(Block) -> Seq(Block)]]
  BY <1>1, <1>2
<1>4. <<>> \in Seq(Block)
  BY EmptySeq
<1>5. PICK f \in [0 .. N -> Seq(Block)] : Run(f, <<>>, step, N)
  <2>. HIDE DEF step, N
  <2>. QED BY <1>1, <1>3, <1>4, Iteration
<1>6. f = [n \in 0 .. N |-> IF n = 0 THEN <<>> ELSE Absorb(f[n - 1], list[n])]
  <2>1. ASSUME NEW n \in 0 .. N PROVE f[n] = IF n = 0 THEN <<>> ELSE Absorb(f[n - 1], list[n])
    <3>1. CASE n = 0
      BY <1>5, <3>1 DEF Run
    <3>2. CASE n # 0
      <4>1. n \in 1 .. N /\ n - 1 \in 0 .. N /\ n \in Nat
        BY <1>1, <3>2
      <4>2. f[n - 1] \in Seq(Block) /\ f[n] = step[n][f[n - 1]]
        BY <1>5, <4>1 DEF Run
      <4>3. step[n][f[n - 1]] = Absorb(f[n - 1], list[n])
        BY <4>1, <4>2
      <4>. QED BY <3>2, <4>2, <4>3
    <3>. QED BY <3>1, <3>2
  <2>. HIDE DEF N
  <2>. QED BY <2>1
<1>7. merged = [n \in 0 .. N |-> IF n = 0 THEN <<>> ELSE Absorb(merged[n - 1], list[n])]
  <2>. HIDE DEF N
  <2>. QED BY <1>6 DEF merged
<1>8. merge(list) = merged[N]
  BY Zenon DEF merge, merged
<1>. HIDE DEF merged, step
<1>9. \A n \in 0 .. N : merged[n] = f[n]
  <2>. DEFINE S == {n \in Nat : n \in 0 .. N => merged[n] = f[n]}
  <2>1. 0 \in S
    BY <1>1, <1>6, <1>7
  <2>2. ASSUME NEW n \in Nat, n \in S PROVE n + 1 \in S
    <3>1. SUFFICES ASSUME n + 1 \in 0 .. N PROVE merged[n + 1] = f[n + 1]
      OBVIOUS
    <3>2. n \in 0 .. N /\ n + 1 # 0 /\ (n + 1) - 1 = n
      BY <1>1, <3>1
    <3>3. f[n + 1] = Absorb(f[n], list[n + 1]) /\ merged[n + 1] = Absorb(merged[n], list[n + 1])
      BY <1>6, <1>7, <3>1, <3>2
    <3>. QED BY <2>2, <3>2, <3>3
  <2>3. Nat \subseteq S
    <3>. HIDE DEF S
    <3>. QED BY <2>1, <2>2, SetInduction
  <2>. QED BY <2>3
<1>10. f[0] = <<>> /\ \A n \in 1 .. N : f[n] = Absorb(f[n - 1], list[n])
  <2>1. 0 \in 0 .. N /\ \A n \in 1 .. N : n \in 0 .. N /\ n # 0
    BY <1>1
  <2>. HIDE DEF N
  <2>. QED BY <1>6, <2>1
<1>11. f \in [0 .. N -> Seq(Block)] /\ N \in 0 .. N
  BY <1>1
<1>. QED BY <1>8, <1>9, <1>10, <1>11 DEF Merges

\* merge keeps the order, the used blocks and the addresses, and leaves no free
\* block behind another.
LEMMA MergeResult ==
    ASSUME NEW list \in Seq(Block), NEW high \in Nat, Ordered(list, high)
    PROVE  Merged(list, high, merge(list), Len(list))
<1>. DEFINE N == Len(list)
<1>1. N \in Nat
  BY LenProperties
<1>2. PICK f : Merges(f, list)
  BY MergeRuns
<1>3. Merged(list, high, <<>>, 0)
  BY EmptySeq DEF Merged, Ordered, Unmerged
<1>. DEFINE S == {n \in Nat : n \in 0 .. N => Merged(list, high, f[n], n)}
<1>4. 0 \in S
  BY <1>1, <1>2, <1>3 DEF Merges
<1>5. ASSUME NEW n \in Nat, n \in S PROVE n + 1 \in S
  <2>1. SUFFICES ASSUME n + 1 \in 0 .. N PROVE Merged(list, high, f[n + 1], n + 1)
    OBVIOUS
  <2>2. n \in 0 .. N /\ n + 1 \in 1 .. Len(list)
    BY <1>1, <2>1
  <2>3. f[n + 1] = Absorb(f[n], list[n + 1])
    BY <1>1, <1>2, <2>2 DEF Merges
  <2>4. Merged(list, high, f[n], n)
    BY <1>5, <2>2
  <2>. HIDE DEF N
  <2>. QED BY <2>2, <2>3, <2>4, AbsorbStep
<1>6. Nat \subseteq S
  <2>. HIDE DEF S
  <2>. QED BY <1>4, <1>5, SetInduction
<1>7. N \in 0 .. N /\ N \in S
  BY <1>1, <1>6
<1>. QED BY <1>2, <1>7 DEF Merges

-----------------------------------------------------------------------------
(* The invariant.                                                           *)

LEMMA NextMultiple ==
    ASSUME NEW k \in Nat
    PROVE  /\ k % MEMORY_ALIGN \in 0 .. MEMORY_ALIGN - 1
           /\ (k + (MEMORY_ALIGN - (k % MEMORY_ALIGN))) % MEMORY_ALIGN = 0
<1>1. MEMORY_ALIGN \in Nat \ {0}
  BY HeapAssumption
<1>2. k % MEMORY_ALIGN \in 0 .. MEMORY_ALIGN - 1
  BY <1>1
<1>3. (k + (MEMORY_ALIGN - (k % MEMORY_ALIGN))) % MEMORY_ALIGN = 0
  BY <1>1
<1>. QED BY <1>2, <1>3

LEMMA Realigned ==
    ASSUME NEW val \in Nat
    PROVE  /\ realign(val) \in Nat
           /\ realign(val) >= val
           /\ (realign(val) + HeaderSize) % MEMORY_ALIGN = 0
<1>. DEFINE k == val + HeaderSize
            offset == k % MEMORY_ALIGN
<1>1. k \in Nat /\ MEMORY_ALIGN \in Nat \ {0} /\ HeaderSize \in Nat
  BY HeapAssumption
<1>. HIDE DEF k
<1>2. offset \in 0 .. MEMORY_ALIGN - 1 /\ (k + (MEMORY_ALIGN - offset)) % MEMORY_ALIGN = 0
  BY <1>1, NextMultiple
<1>3. realign(val) = IF offset = 0 THEN val ELSE val + (MEMORY_ALIGN - offset)
  BY DEF realign, k
<1>. HIDE DEF offset
<1>4. offset # 0 => realign(val) + HeaderSize = k + (MEMORY_ALIGN - offset)
  BY <1>1, <1>2, <1>3 DEF k
<1>5. offset = 0 => (realign(val) + HeaderSize) % MEMORY_ALIGN = 0
  BY <1>3 DEF offset, k
<1>. QED BY <1>1, <1>2, <1>3, <1>4, <1>5

\* Every block is where one may be.
Placed(list) ==
    \A i \in 1 .. Len(list) :
        list[i].at >= Start /\ (list[i].at + HeaderSize) % MEMORY_ALIGN = 0

\* The used blocks of a list are those of the regions held.
Matches(list, held) ==
    /\ \A r \in held : \E i \in 1 .. Len(list) :
            ~list[i].free /\ list[i].at + HeaderSize = r.ptr /\ r.size <= list[i].size
    /\ \A i \in 1 .. Len(list) :
            ~list[i].free => \E r \in held : r.ptr = list[i].at + HeaderSize
    /\ \A r, s \in held : r.ptr = s.ptr => r = s

Inv ==
    /\ TypeOK
    /\ end >= Start
    /\ Ordered(blocks, end)
    /\ Unmerged(blocks)
    /\ Placed(blocks)
    /\ Matches(blocks, live)

LEMMA InitInv == Init => Inv
BY EmptySeq, HeapAssumption DEF Init, Inv, TypeOK, Ordered, Unmerged, Placed, Matches
-----------------------------------------------------------------------------
(* Allocation.                                                              *)

\* The block an allocation appends lies behind all others.
LEMMA RequestSpaceInv ==
    ASSUME Inv, NEW size \in Sizes, requestSpace(size)
    PROVE  Inv'
<1>. DEFINE block == [at |-> realign(end), size |-> size, free |-> FALSE]
            region == [ptr |-> block.at + HeaderSize, size |-> size]
            L == Len(blocks)
<1>1. /\ blocks \in Seq(Block) /\ end \in Nat /\ end >= Start /\ allocated \in Int
      /\ live \in SUBSET [ptr : Nat, size : Sizes]
      /\ Start \in Nat /\ HeaderSize \in Nat \ {0} /\ size \in Nat \ {0}
  BY HeapAssumption DEF Inv, TypeOK
<1>2. /\ block.at \in Nat /\ block.at >= end /\ (block.at + HeaderSize) % MEMORY_ALIGN = 0
      /\ block.size = size /\ block.free = FALSE
      /\ block \in Block
  BY <1>1, Realigned DEF Block
<1>3. /\ blocks' = Append(blocks, block)
      /\ end' = After(block) + 1
      /\ allocated' = allocated + block.size + HeaderSize
      /\ live' = live \union {region}
  BY DEF requestSpace, Give
<1>4. region \in [ptr : Nat, size : Sizes] /\ region.ptr = block.at + HeaderSize /\ region.size = size
  BY <1>1, <1>2
<1>. HIDE DEF block, region
<1>5. /\ blocks' \in Seq(Block) /\ L \in Nat /\ Len(blocks') = L + 1
      /\ \A i \in 1 .. L + 1 : blocks'[i] = IF i = L + 1 THEN block ELSE blocks[i]
  BY <1>1, <1>2, <1>3, AppendProperties, LenProperties
<1>. HIDE DEF L
<1>6. After(block) \in Nat /\ block.at < After(block)
  BY <1>2, AfterType
<1>7. \A i \in 1 .. L : /\ blocks[i] \in Block /\ blocks[i].at \in Nat
                        /\ blocks[i].at < After(blocks[i]) /\ After(blocks[i]) \in Nat
                        /\ After(blocks[i]) < end
  BY <1>1, ElementOfSeq, AfterType DEF Inv, Ordered, L
<1>8. TypeOK'
  BY <1>1, <1>2, <1>3, <1>4, <1>5, <1>6 DEF TypeOK
<1>9. end' >= Start
  BY <1>1, <1>2, <1>3, <1>6
<1>10. Ordered(blocks', end')
  <2>1. ASSUME NEW i \in 1 .. L + 1, NEW j \in 1 .. L + 1, i < j
        PROVE  After(blocks'[i]) <= blocks'[j].at
    <3>1. i \in 1 .. L /\ blocks'[i] = blocks[i]
      BY <1>5, <2>1
    <3>2. CASE j = L + 1
      BY <1>1, <1>2, <1>5, <1>7, <3>1, <3>2
    <3>3. CASE j # L + 1
      <4>1. j \in 1 .. L /\ blocks'[j] = blocks[j]
        BY <1>5, <3>3
      <4>. QED BY <2>1, <3>1, <4>1 DEF Inv, Ordered, L
    <3>. QED BY <3>2, <3>3
  <2>2. ASSUME NEW i \in 1 .. L + 1 PROVE After(blocks'[i]) < end'
    <3>1. CASE i = L + 1
      <4>1. blocks'[i] = block
        BY <1>5, <3>1
      <4>. QED BY <1>3, <1>6, <4>1
    <3>2. CASE i # L + 1
      <4>1. i \in 1 .. L /\ blocks'[i] = blocks[i]
        BY <1>5, <3>2
      <4>2. After(blocks[i]) \in Nat /\ After(blocks[i]) < end
        BY <1>7, <4>1
      <4>3. end \in Nat /\ block.at \in Nat /\ After(block) \in Nat
            /\ end <= block.at /\ block.at < After(block) /\ end' = After(block) + 1
        BY <1>1, <1>2, <1>3, <1>6
      <4>. QED BY <4>1, <4>2, <4>3
    <3>. QED BY <3>1, <3>2
  <2>. QED BY <1>5, <2>1, <2>2 DEF Ordered
<1>11. Unmerged(blocks')
  <2>1. ASSUME NEW i \in 1 .. L + 1, i + 1 \in 1 .. L + 1
        PROVE  ~(blocks'[i].free /\ blocks'[i + 1].free)
    <3>1. CASE i + 1 = L + 1
      BY <1>2, <1>5, <2>1, <3>1
    <3>2. CASE i + 1 # L + 1
      <4>1. i \in 1 .. L /\ i + 1 \in 1 .. L /\ blocks'[i] = blocks[i] /\ blocks'[i + 1] = blocks[i + 1]
        BY <1>5, <2>1, <3>2
      <4>. QED BY <4>1 DEF Inv, Unmerged, L
    <3>. QED BY <3>1, <3>2
  <2>. QED BY <1>5, <2>1 DEF Unmerged
<1>12. Placed(blocks')
  BY <1>1, <1>2, <1>5 DEF Inv, Placed, L
<1>13. Matches(blocks', live')
  <2>1. ASSUME NEW r \in live'
        PROVE  \E i \in 1 .. L + 1 : /\ ~blocks'[i].free /\ blocks'[i].at + HeaderSize = r.ptr
                                     /\ r.size <= blocks'[i].size
    <3>1. CASE r = region
      <4>1. L + 1 \in 1 .. L + 1 /\ blocks'[L + 1] = block
        BY <1>5
      <4>. QED BY <1>1, <1>2, <1>4, <3>1, <4>1
    <3>2. CASE r \in live
      <4>1. PICK i \in 1 .. L : /\ ~blocks[i].free /\ blocks[i].at + HeaderSize = r.ptr
                                /\ r.size <= blocks[i].size
        BY <3>2 DEF Inv, Matches, L
      <4>2. i \in 1 .. L + 1 /\ blocks'[i] = blocks[i]
        BY <1>5
      <4>. QED BY <4>1, <4>2
    <3>. QED BY <1>3, <3>1, <3>2
  <2>2. ASSUME NEW i \in 1 .. L + 1, ~blocks'[i].free
        PROVE  \E r \in live' : r.ptr = blocks'[i].at + HeaderSize
    <3>1. CASE i = L + 1
      BY <1>3, <1>4, <1>5, <3>1
    <3>2. CASE i # L + 1
      <4>1. i \in 1 .. L /\ blocks'[i] = blocks[i]
        BY <1>5, <3>2
      <4>. QED BY <1>3, <2>2, <4>1 DEF Inv, Matches, L
    <3>. QED BY <3>1, <3>2
  <2>3. \A r \in live : r.ptr # region.ptr
    <3>1. ASSUME NEW r \in live PROVE r.ptr # region.ptr
      <4>1. PICK i \in 1 .. L : blocks[i].at + HeaderSize = r.ptr
        BY DEF Inv, Matches, L
      <4>2. /\ blocks[i].at \in Nat /\ After(blocks[i]) \in Nat /\ end \in Nat
            /\ blocks[i].at < After(blocks[i]) /\ After(blocks[i]) < end
            /\ block.at \in Nat /\ end <= block.at /\ HeaderSize \in Nat
        BY <1>1, <1>2, <1>7
      <4>3. blocks[i].at + HeaderSize # block.at + HeaderSize
        BY <4>2
      <4>. QED BY <1>4, <4>1, <4>3
    <3>. QED BY <3>1
  <2>4. \A r, s \in live' : r.ptr = s.ptr => r = s
    BY <1>3, <2>3 DEF Inv, Matches
  <2>. QED BY <1>5, <2>1, <2>2, <2>4 DEF Matches
<1>. QED BY <1>8, <1>9, <1>10, <1>11, <1>12, <1>13 DEF Inv

\* A free block turned into a used one that starts where it did and may be shorter.
\* Whatever follows it in the new list is free or was there before.
Taken(i, block, size) ==
    /\ block \in Block /\ ~block.free
    /\ block.at = blocks[i].at
    /\ size <= block.size

LEMMA TakenInv ==
    ASSUME Inv, NEW size \in Sizes, NEW i \in Fits(size), NEW block, Taken(i, block, size),
           Give(block, size), UNCHANGED end, NEW n \in Nat, Len(blocks') = n,
           blocks' \in Seq(Block), Ordered(blocks', end), Unmerged(blocks'), Placed(blocks'),
           i \in 1 .. n, blocks'[i] = block,
           \A j \in 1 .. n : blocks'[j].free \/ j = i \/ \E k \in 1 .. Len(blocks) : blocks'[j] = blocks[k],
           \A k \in 1 .. Len(blocks) : k = i \/ \E j \in 1 .. n : blocks'[j] = blocks[k]
    PROVE  Inv'
<1>. DEFINE region == [ptr |-> block.at + HeaderSize, size |-> size]
            L == Len(blocks)
<1>1. /\ blocks \in Seq(Block) /\ end \in Nat /\ end >= Start /\ allocated \in Int
      /\ live \in SUBSET [ptr : Nat, size : Sizes]
      /\ Start \in Nat /\ HeaderSize \in Nat \ {0} /\ L \in Nat
      /\ block.at \in Nat /\ block.size \in Nat
  BY HeapAssumption, LenProperties, AfterType DEF Inv, TypeOK, Taken
<1>2. /\ allocated' = allocated + block.size + HeaderSize
      /\ live' = live \union {region}
  BY DEF Give
<1>3. region \in [ptr : Nat, size : Sizes] /\ region.ptr = block.at + HeaderSize /\ region.size = size
  BY <1>1
<1>. HIDE DEF region
<1>4. i \in 1 .. L /\ blocks[i].free
  BY DEF Fits, L
<1>. HIDE DEF L
<1>5. \A k \in 1 .. L : /\ blocks[k].at \in Nat /\ After(blocks[k]) \in Nat
                        /\ blocks[k].at < After(blocks[k])
  BY <1>1, ElementOfSeq, AfterType DEF L
<1>6. ASSUME NEW r \in live PROVE r.ptr # region.ptr
  <2>1. PICK k \in 1 .. L : ~blocks[k].free /\ blocks[k].at + HeaderSize = r.ptr
    BY DEF Inv, Matches, L
  <2>2. k < i => After(blocks[k]) <= blocks[i].at
    BY <1>4 DEF Inv, Ordered, L
  <2>3. i < k => After(blocks[i]) <= blocks[k].at
    BY <1>4 DEF Inv, Ordered, L
  <2>4. k # i
    BY <1>4, <2>1
  <2>5. blocks[k].at # blocks[i].at
    BY <1>4, <1>5, <2>2, <2>3, <2>4
  <2>6. region.ptr = blocks[i].at + HeaderSize
    BY <1>3 DEF Taken
  <2>7. blocks[i].at \in Nat /\ blocks[k].at \in Nat /\ HeaderSize \in Nat
    BY <1>1, <1>4, <1>5
  <2>. HIDE DEF L
  <2>. QED BY <2>1, <2>5, <2>6, <2>7
<1>7. TypeOK'
  BY <1>1, <1>2, <1>3 DEF TypeOK
<1>8. Matches(blocks', live')
  <2>1. ASSUME NEW r \in live'
        PROVE  \E j \in 1 .. n : /\ ~blocks'[j].free /\ blocks'[j].at + HeaderSize = r.ptr
                                 /\ r.size <= blocks'[j].size
    <3>1. CASE r = region
      BY <1>3, <3>1 DEF Taken
    <3>2. CASE r \in live
      <4>1. PICK k \in 1 .. L : /\ ~blocks[k].free /\ blocks[k].at + HeaderSize = r.ptr
                                /\ r.size <= blocks[k].size
        BY <3>2 DEF Inv, Matches, L
      <4>2. PICK j \in 1 .. n : blocks'[j] = blocks[k]
        BY <1>4, <4>1 DEF L
      <4>. QED BY <4>1, <4>2
    <3>. QED BY <1>2, <3>1, <3>2
  <2>2. ASSUME NEW j \in 1 .. n, ~blocks'[j].free
        PROVE  \E r \in live' : r.ptr = blocks'[j].at + HeaderSize
    <3>1. CASE j = i
      BY <1>2, <1>3, <3>1
    <3>2. CASE j # i
      <4>1. PICK k \in 1 .. L : blocks'[j] = blocks[k]
        BY <2>2, <3>2 DEF L
      <4>. QED BY <1>2, <2>2, <4>1 DEF Inv, Matches, L
    <3>. QED BY <3>1, <3>2
  <2>3. \A r, s \in live' : r.ptr = s.ptr => r = s
    BY <1>2, <1>6 DEF Inv, Matches
  <2>. QED BY <2>1, <2>2, <2>3 DEF Matches
<1>. QED BY <1>1, <1>7, <1>8 DEF Inv

LEMMA SplitInv ==
    ASSUME Inv, NEW size \in Sizes, NEW i \in Fits(size), split(i, size), UNCHANGED end
    PROVE  Inv'
<1>. DEFINE L == Len(blocks)
            block == blocks[i]
            at == realign(block.at + size + HeaderSize + 1)
            first == [block EXCEPT !.size = size, !.free = FALSE]
            second == [at |-> at, size |-> Rest(i, at), free |-> TRUE]
            whole == [block EXCEPT !.free = FALSE]
<1>1. /\ blocks \in Seq(Block) /\ end \in Nat /\ L \in Nat
      /\ Start \in Nat /\ HeaderSize \in Nat \ {0} /\ size \in Nat \ {0}
  BY HeapAssumption, LenProperties DEF Inv, TypeOK
<1>2. i \in 1 .. L /\ block.free /\ size <= block.size
  BY <1>1, ElementOfSeq DEF Fits, Block
<1>. HIDE DEF L
<1>3. \A k \in 1 .. L : /\ blocks[k] \in Block /\ blocks[k].at \in Nat
                        /\ After(blocks[k]) \in Nat /\ blocks[k].at < After(blocks[k])
  BY <1>1, ElementOfSeq, AfterType DEF L
<1>4. /\ \A j, k \in 1 .. L : j < k => After(blocks[j]) <= blocks[k].at
      /\ \A k \in 1 .. L : After(blocks[k]) < end
      /\ \A k \in 1 .. L : k + 1 \in 1 .. L => ~(blocks[k].free /\ blocks[k + 1].free)
      /\ \A k \in 1 .. L : blocks[k].at >= Start /\ (blocks[k].at + HeaderSize) % MEMORY_ALIGN = 0
  BY DEF Inv, Ordered, Unmerged, Placed, L
<1>5. block \in Block /\ block.at \in Nat /\ block.size \in Nat
  BY <1>2, <1>3 DEF Block
<1>6. CASE ~Splits(i, size, at)
  <2>1. blocks' = [blocks EXCEPT ![i] = whole] /\ Give(whole, size)
    BY <1>6 DEF split
  <2>2. /\ whole \in Block /\ ~whole.free /\ whole.at = block.at /\ whole.size = block.size
        /\ After(whole) = After(block)
    BY <1>5 DEF Block, After
  <2>. HIDE DEF whole, block
  <2>3. /\ blocks' \in Seq(Block) /\ Len(blocks') = L
        /\ \A j \in 1 .. L : blocks'[j] = IF j = i THEN whole ELSE blocks[j]
    BY <1>1, <1>2, <2>1, <2>2, ExceptSeq DEF L
  <2>4. Ordered(blocks', end)
    BY <1>4, <2>2, <2>3 DEF Ordered, block
  <2>5. Unmerged(blocks')
    BY <1>4, <2>2, <2>3 DEF Unmerged
  <2>6. Placed(blocks')
    BY <1>4, <2>2, <2>3 DEF Placed, block
  <2>7. Taken(i, whole, size)
    BY <1>2, <2>2 DEF Taken, block
  <2>8. /\ \A j \in 1 .. L : blocks'[j].free \/ j = i \/ \E k \in 1 .. L : blocks'[j] = blocks[k]
        /\ \A k \in 1 .. L : k = i \/ \E j \in 1 .. L : blocks'[j] = blocks[k]
        /\ blocks'[i] = whole
    BY <1>2, <2>3
  <2>9. L \in Nat /\ i \in 1 .. L /\ Len(blocks') = L /\ blocks' \in Seq(Block)
    BY <1>1, <1>2, <2>3
  <2>10. Inv'
    <3>. HIDE DEF at, first, second
    <3>1. Taken(i, whole, size) /\ Give(whole, size) /\ UNCHANGED end
      BY <2>1, <2>7
    <3>2. /\ \A j \in 1 .. L : blocks'[j].free \/ j = i
                                \/ \E k \in 1 .. Len(blocks) : blocks'[j] = blocks[k]
          /\ \A k \in 1 .. Len(blocks) : k = i \/ \E j \in 1 .. L : blocks'[j] = blocks[k]
          /\ blocks'[i] = whole
      BY <2>8 DEF L
    <3>. QED BY <2>4, <2>5, <2>6, <2>9, <3>1, <3>2, TakenInv
  <2>. QED BY <2>10
<1>7. CASE Splits(i, size, at)
  <2>1. /\ blocks' = [j \in 1 .. L + 1 |-> IF j < i THEN blocks[j]
                                          ELSE IF j = i THEN first
                                          ELSE IF j = i + 1 THEN second ELSE blocks[j - 1]]
        /\ Give(first, size)
    BY <1>7 DEF split, L
  <2>2. Rest(i, at) > 0
    BY <1>7 DEF Splits
  <2>3. /\ at \in Nat /\ at > block.at + size + HeaderSize
        /\ (at + HeaderSize) % MEMORY_ALIGN = 0
    <3>. DEFINE behind == block.at + size + HeaderSize + 1
    <3>1. behind \in Nat /\ behind > block.at + size + HeaderSize
      BY <1>1, <1>5
    <3>2. at \in Nat /\ at >= behind /\ (at + HeaderSize) % MEMORY_ALIGN = 0
      <4>. HIDE DEF behind
      <4>1. realign(behind) \in Nat /\ realign(behind) >= behind
              /\ (realign(behind) + HeaderSize) % MEMORY_ALIGN = 0
        BY <3>1, Realigned
      <4>. QED BY <4>1 DEF behind
    <3>. HIDE DEF at
    <3>. QED BY <1>1, <1>5, <3>1, <3>2
  <2>4. /\ first \in Block /\ ~first.free /\ first.at = block.at /\ first.size = size
        /\ After(first) \in Nat /\ After(first) < at
    <3>. HIDE DEF at, block
    <3>1. first \in Block /\ ~first.free /\ first.at = block.at /\ first.size = size
      BY <1>1, <1>5 DEF Block
    <3>. HIDE DEF first
    <3>. QED BY <1>1, <1>5, <2>3, <3>1 DEF After
  <2>. HIDE DEF first, at
  <2>5. /\ second \in Block /\ second.at = at /\ second.free
        /\ After(second) \in Nat /\ After(second) < end
        /\ \A k \in i + 1 .. L : After(second) <= blocks[k].at
    <3>1. CASE i < L
      <4>1. i + 1 \in 1 .. L /\ Rest(i, at) = blocks[i + 1].at - at - HeaderSize
        BY <1>1, <1>2, <3>1 DEF Rest, L
      <4>2. Rest(i, at) \in Nat
        <5>1. blocks[i + 1].at \in Nat
          BY <1>3, <4>1
        <5>. QED BY <1>1, <2>2, <2>3, <4>1, <5>1
      <4>3. second \in Block /\ After(second) = blocks[i + 1].at
        <5>1. second \in Block
          BY <2>3, <4>2 DEF Block
        <5>2. After(second) = at + HeaderSize + Rest(i, at)
          BY DEF After
        <5>3. HeaderSize \in Nat /\ at \in Nat /\ blocks[i + 1].at \in Nat
          BY <1>1, <1>3, <2>3, <4>1
        <5>4. at + HeaderSize + (blocks[i + 1].at - at - HeaderSize) = blocks[i + 1].at
          BY <5>3
        <5>. QED BY <4>1, <5>1, <5>2, <5>4
      <4>4. ASSUME NEW k \in i + 1 .. L PROVE blocks[i + 1].at <= blocks[k].at
        <5>1. k \in 1 .. L
          BY <1>2
        <5>2. k # i + 1 => After(blocks[i + 1]) <= blocks[k].at
          BY <1>4, <4>1, <5>1
        <5>. QED BY <1>3, <4>1, <5>1, <5>2
      <4>5. blocks[i + 1].at \in Nat /\ blocks[i + 1].at < end
        BY <1>1, <1>3, <1>4, <4>1
      <4>. QED BY <4>3, <4>4, <4>5
    <3>2. CASE ~(i < L)
      <4>1. i = L /\ Rest(i, at) = block.at + block.size - at
        BY <1>1, <1>2, <3>2 DEF Rest, L
      <4>2. Rest(i, at) \in Nat
        BY <1>5, <2>2, <2>3, <4>1
      <4>3. second \in Block /\ After(second) = After(block)
        <5>1. second \in Block
          BY <2>3, <4>2 DEF Block
        <5>2. After(second) = at + HeaderSize + Rest(i, at)
          BY DEF After
        <5>3. HeaderSize \in Nat /\ at \in Nat
          BY <1>1, <2>3
        <5>4. at + HeaderSize + (block.at + block.size - at) = block.at + HeaderSize + block.size
          <6>. HIDE DEF block
          <6>. QED BY <1>5, <5>3
        <5>. QED BY <4>1, <5>1, <5>2, <5>4 DEF After
      <4>4. After(block) \in Nat /\ After(block) < end
        BY <1>2, <1>3, <1>4
      <4>. QED BY <1>1, <4>1, <4>3, <4>4
    <3>. QED BY <3>1, <3>2
  <2>. HIDE DEF second
  <2>6. /\ \A j \in 1 .. i - 1 : blocks'[j] = blocks[j]
        /\ blocks'[i] = first
        /\ blocks'[i + 1] = second
        /\ \A j \in i + 2 .. L + 1 : blocks'[j] = blocks[j - 1]
    BY <1>1, <1>2, <2>1
  <2>7. blocks' \in Seq(Block) /\ Len(blocks') = L + 1
    <3>1. \A j \in 1 .. L + 1 : blocks'[j] \in Block
      <4>1. ASSUME NEW j \in 1 .. L + 1, j \notin {i, i + 1} PROVE blocks'[j] \in Block
        <5>1. CASE j < i
          <6>1. j \in 1 .. i - 1 /\ j \in 1 .. L
            BY <1>1, <1>2, <5>1
          <6>. QED BY <1>3, <2>6, <6>1
        <5>2. CASE j > i + 1
          <6>1. j \in i + 2 .. L + 1 /\ j - 1 \in 1 .. L
            BY <1>1, <1>2, <5>2
          <6>. QED BY <1>3, <2>6, <6>1
        <5>. QED BY <1>2, <4>1, <5>1, <5>2
      <4>. QED BY <2>4, <2>5, <2>6, <4>1
    <3>2. L + 1 \in Nat /\ DOMAIN blocks' = 1 .. L + 1
      BY <1>1, <2>1
    <3>3. blocks' = [j \in 1 .. L + 1 |-> blocks'[j]]
      BY <2>1
    <3>. QED BY <3>1, <3>2, <3>3
  <2>8. \A j \in 1 .. L + 1 : \/ j < i /\ j \in 1 .. L /\ blocks'[j] = blocks[j]
                              \/ j = i /\ blocks'[j] = first
                              \/ j = i + 1 /\ blocks'[j] = second
                              \/ j > i + 1 /\ j - 1 \in 1 .. L /\ j - 1 > i /\ blocks'[j] = blocks[j - 1]
    BY <1>1, <1>2, <2>6
  <2>9. Ordered(blocks', end)
    <3>1. ASSUME NEW j \in 1 .. L + 1, NEW k \in 1 .. L + 1, j < k
          PROVE  After(blocks'[j]) <= blocks'[k].at
      <4>1. CASE j < i
        <5>1. CASE k < i
          <6>1. blocks'[j] = blocks[j] /\ blocks'[k] = blocks[k] /\ j \in 1 .. L /\ k \in 1 .. L
            BY <1>1, <1>2, <2>8, <4>1, <5>1
          <6>. QED BY <1>4, <3>1, <6>1
        <5>2. CASE k = i
          BY <1>2, <1>4, <2>4, <2>6, <2>8, <4>1, <5>2
        <5>3. CASE k = i + 1
          <6>1. blocks'[j] = blocks[j] /\ j \in 1 .. L /\ After(blocks[j]) <= block.at
            BY <1>1, <1>2, <1>4, <2>8, <4>1
          <6>2. block.at < at /\ After(blocks[j]) \in Nat
            BY <1>1, <1>3, <1>5, <2>3, <6>1
          <6>. QED BY <1>5, <2>3, <2>5, <2>6, <5>3, <6>1, <6>2
        <5>4. CASE k > i + 1
          <6>1. blocks'[j] = blocks[j] /\ blocks'[k] = blocks[k - 1] /\ j < k - 1
                /\ j \in 1 .. L /\ k - 1 \in 1 .. L
            BY <1>2, <2>8, <4>1, <5>4
          <6>. QED BY <1>4, <6>1
        <5>. QED BY <1>2, <5>1, <5>2, <5>3, <5>4
      <4>2. CASE j = i
        <5>1. CASE k = i + 1
          BY <2>3, <2>4, <2>5, <2>6, <4>2, <5>1
        <5>2. CASE k > i + 1
          <6>1. blocks'[k] = blocks[k - 1] /\ k - 1 \in i + 1 .. L /\ k - 1 \in 1 .. L
            BY <1>1, <1>2, <2>8, <5>2
          <6>2. After(second) <= blocks[k - 1].at /\ second.at < After(second)
            BY <2>5, <6>1, AfterType
          <6>. QED BY <1>3, <2>3, <2>4, <2>5, <2>6, <4>2, <6>1, <6>2
        <5>. QED BY <1>2, <3>1, <4>2, <5>1, <5>2
      <4>3. CASE j = i + 1
        <5>1. blocks'[k] = blocks[k - 1] /\ k - 1 \in i + 1 .. L
          BY <1>1, <1>2, <2>8, <3>1, <4>3
        <5>. QED BY <2>5, <2>6, <4>3, <5>1
      <4>4. CASE j > i + 1
        <5>1. /\ blocks'[j] = blocks[j - 1] /\ blocks'[k] = blocks[k - 1]
              /\ j - 1 \in 1 .. L /\ k - 1 \in 1 .. L /\ j - 1 < k - 1
          BY <1>2, <2>8, <3>1, <4>4
        <5>. QED BY <1>4, <5>1
      <4>. QED BY <1>2, <4>1, <4>2, <4>3, <4>4
    <3>2. ASSUME NEW j \in 1 .. L + 1 PROVE After(blocks'[j]) < end
      <4>1. After(first) < end
        BY <1>1, <2>3, <2>4, <2>5, AfterType
      <4>. QED BY <1>4, <2>5, <2>8, <4>1
    <3>. QED BY <2>7, <3>1, <3>2 DEF Ordered
  <2>10. Unmerged(blocks')
    <3>1. ASSUME NEW j \in 1 .. L + 1, j + 1 \in 1 .. L + 1
          PROVE  ~(blocks'[j].free /\ blocks'[j + 1].free)
      <4>1. CASE j = i
        BY <2>4, <2>6, <4>1
      <4>2. CASE j + 1 = i
        BY <2>4, <2>6, <4>2
      <4>3. CASE j = i + 1
        <5>1. blocks'[j + 1] = blocks[i + 1] /\ i + 1 \in 1 .. L
          BY <1>1, <1>2, <2>8, <3>1, <4>3
        <5>. QED BY <1>2, <1>4, <5>1
      <4>4. CASE j + 1 < i
        <5>1. /\ blocks'[j] = blocks[j] /\ blocks'[j + 1] = blocks[j + 1]
              /\ j \in 1 .. L /\ j + 1 \in 1 .. L
          BY <1>1, <1>2, <2>8, <3>1, <4>4
        <5>. QED BY <1>4, <5>1
      <4>5. CASE j > i + 1
        <5>1. /\ blocks'[j] = blocks[j - 1] /\ blocks'[j + 1] = blocks[j - 1 + 1]
              /\ j - 1 \in 1 .. L /\ j - 1 + 1 \in 1 .. L
          BY <1>2, <2>8, <3>1, <4>5
        <5>. QED BY <1>4, <5>1
      <4>. QED BY <1>2, <4>1, <4>2, <4>3, <4>4, <4>5
    <3>. QED BY <2>7, <3>1 DEF Unmerged
  <2>11. Placed(blocks')
    <3>1. first.at >= Start /\ (first.at + HeaderSize) % MEMORY_ALIGN = 0
      BY <1>2, <1>4, <2>4
    <3>2. second.at >= Start /\ (second.at + HeaderSize) % MEMORY_ALIGN = 0
      <4>1. (second.at + HeaderSize) % MEMORY_ALIGN = 0
        BY <2>3, <2>5
      <4>2. block.at >= Start
        BY <1>2, <1>4
      <4>3. Start \in Nat /\ HeaderSize \in Nat /\ size \in Nat /\ at >= block.at
        <5>. HIDE DEF block
        <5>. QED BY <1>1, <1>5, <2>3
      <4>4. at >= Start
        <5>. HIDE DEF block
        <5>. QED BY <1>5, <2>3, <4>2, <4>3
      <4>. QED BY <2>5, <4>1, <4>4
    <3>. QED BY <1>4, <2>7, <2>8, <3>1, <3>2 DEF Placed
  <2>12. Taken(i, first, size)
    BY <1>1, <2>4 DEF Taken
  <2>13. \A j \in 1 .. L + 1 : blocks'[j].free \/ j = i \/ \E k \in 1 .. L : blocks'[j] = blocks[k]
    BY <2>5, <2>8
  <2>14. \A k \in 1 .. L : k = i \/ \E j \in 1 .. L + 1 : blocks'[j] = blocks[k]
    <3>1. ASSUME NEW k \in 1 .. L, k # i PROVE \E j \in 1 .. L + 1 : blocks'[j] = blocks[k]
      <4>1. CASE k < i
        <5>1. k \in 1 .. L + 1 /\ blocks'[k] = blocks[k]
          BY <1>1, <1>2, <2>6, <4>1
        <5>. QED BY <5>1
      <4>2. CASE k > i
        <5>1. k + 1 \in 1 .. L + 1 /\ blocks'[k + 1] = blocks[k + 1 - 1]
          BY <1>1, <1>2, <2>6, <4>2
        <5>. QED BY <5>1
      <4>. QED BY <1>2, <3>1, <4>1, <4>2
    <3>. QED BY <3>1
  <2>15. L + 1 \in Nat /\ i \in 1 .. L + 1 /\ blocks'[i] = first
    BY <1>1, <1>2, <2>6
  <2>. HIDE DEF block
  <2>. QED BY <2>1, <2>7, <2>9, <2>10, <2>11, <2>12, <2>13, <2>14, <2>15, TakenInv DEF L
<1>. QED BY <1>6, <1>7

\* The first fit is one of the fits.
LEMMA FirstFits ==
    ASSUME NEW size, Fits(size) # {} PROVE findFreeBlock(size) \in Fits(size)
<1>1. \E i \in Fits(size) : \A j \in Fits(size) : i <= j
  <2>1. Fits(size) \subseteq Nat
    BY DEF Fits
  <2>. QED BY <2>1, LeastNatural
<1>. QED BY <1>1 DEF findFreeBlock

LEMMA ReuseInv ==
    ASSUME Inv, NEW size \in Sizes, Reuse(size)
    PROVE  Inv'
BY FirstFits, SplitInv DEF Reuse

-----------------------------------------------------------------------------
(* Freeing.                                                                 *)

\* No two blocks of an ordered list start at the same address.
LEMMA OneAtAnAddress ==
    ASSUME NEW list \in Seq(Block), NEW high, Ordered(list, high),
           NEW i \in 1 .. Len(list), NEW j \in 1 .. Len(list), list[i].at = list[j].at
    PROVE  i = j
<1>1. Len(list) \in Nat
  BY LenProperties
<1>2. ASSUME NEW k \in 1 .. Len(list), NEW l \in 1 .. Len(list), k < l
      PROVE  list[k].at # list[l].at
  <2>1. /\ list[k].at \in Nat /\ list[l].at \in Nat /\ After(list[k]) \in Nat
        /\ list[k].at < After(list[k])
    BY <1>1, ElementOfSeq, AfterType
  <2>2. After(list[k]) <= list[l].at
    BY <1>2 DEF Ordered
  <2>. QED BY <2>1, <2>2
<1>. QED BY <1>1, <1>2

\* free finds the used block of the region it is given.
LEMMA GetBlock ==
    ASSUME Inv, NEW held \in live
    PROVE  LET i == getBlock(held.ptr)
           IN  /\ i \in 1 .. Len(blocks) /\ ~blocks[i].free
               /\ blocks[i].at + HeaderSize = held.ptr
               /\ held.size <= blocks[i].size
<1>1. /\ blocks \in Seq(Block) /\ Ordered(blocks, end) /\ HeaderSize \in Nat /\ held.ptr \in Nat
      /\ \A j \in 1 .. Len(blocks) : blocks[j].at \in Nat
  <2>1. blocks \in Seq(Block) /\ Ordered(blocks, end) /\ HeaderSize \in Nat /\ held.ptr \in Nat
    BY HeapAssumption DEF Inv, TypeOK
  <2>2. \A j \in 1 .. Len(blocks) : blocks[j].at \in Nat
    BY <2>1, ElementOfSeq, AfterType
  <2>. QED BY <2>1, <2>2
<1>2. PICK i \in 1 .. Len(blocks) :
        ~blocks[i].free /\ blocks[i].at + HeaderSize = held.ptr /\ held.size <= blocks[i].size
  BY DEF Inv, Matches
<1>3. \A j \in 1 .. Len(blocks) : blocks[j].at = held.ptr - HeaderSize => j = i
  <2>1. blocks[i].at = held.ptr - HeaderSize
    BY <1>1, <1>2
  <2>. QED BY <1>1, <2>1, OneAtAnAddress
<1>4. blocks[i].at = held.ptr - HeaderSize
  BY <1>1, <1>2
<1>5. getBlock(held.ptr) = i
  BY <1>3, <1>4 DEF getBlock
<1>. QED BY <1>2, <1>5

LEMMA FreeInv ==
    ASSUME Inv, NEW held \in live, free(held)
    PROVE  Inv'
<1>. DEFINE i == getBlock(held.ptr)
            freed == [blocks[i] EXCEPT !.free = TRUE]
            list == [blocks EXCEPT ![i].free = TRUE]
            L == Len(blocks)
<1>1. /\ blocks \in Seq(Block) /\ end \in Nat /\ L \in Nat /\ allocated \in Int
      /\ live \in SUBSET [ptr : Nat, size : Sizes] /\ HeaderSize \in Nat
      /\ \A j \in 1 .. L : blocks[j] \in Block
  BY HeapAssumption, LenProperties, ElementOfSeq DEF Inv, TypeOK
<1>2. i \in 1 .. L /\ ~blocks[i].free /\ blocks[i].at + HeaderSize = held.ptr
  BY GetBlock
<1>3. /\ allocated' = allocated - (blocks[i].size + HeaderSize)
      /\ blocks' = merge(list)
      /\ live' = live \ {held}
      /\ end' = end
  BY DEF free
<1>. HIDE DEF i
<1>4. blocks[i].at \in Nat /\ blocks[i].size \in Nat
  BY <1>1, <1>2 DEF Block
<1>5. /\ freed \in Block /\ freed.free
      /\ freed.at = blocks[i].at /\ After(freed) = After(blocks[i])
  BY <1>1, <1>2 DEF Block, After
<1>6. list = [blocks EXCEPT ![i] = freed]
  OBVIOUS
<1>. HIDE DEF freed, list, L
<1>7. /\ list \in Seq(Block) /\ Len(list) = L
      /\ \A j \in 1 .. L : list[j] = IF j = i THEN freed ELSE blocks[j]
  BY <1>1, <1>2, <1>5, <1>6, ExceptSeq DEF L
<1>8. \A j \in 1 .. L : list[j].at = blocks[j].at /\ After(list[j]) = After(blocks[j])
  BY <1>5, <1>7
<1>9. Ordered(list, end)
  BY <1>7, <1>8 DEF Ordered, Inv, L
<1>10. Merged(list, end, blocks', L)
  BY <1>1, <1>3, <1>7, <1>9, MergeResult
<1>11. /\ blocks' \in Seq(Block) /\ Ordered(blocks', end') /\ Unmerged(blocks')
       /\ \A j \in 1 .. Len(blocks') : \E k \in 1 .. L :
              blocks'[j].at = list[k].at /\ (blocks'[j].free \/ blocks'[j] = list[k])
       /\ \A k \in 1 .. L : ~list[k].free => \E j \in 1 .. Len(blocks') : blocks'[j] = list[k]
  BY <1>3, <1>10 DEF Merged
<1>12. Placed(blocks')
  <2>1. ASSUME NEW j \in 1 .. Len(blocks')
        PROVE  blocks'[j].at >= Start /\ (blocks'[j].at + HeaderSize) % MEMORY_ALIGN = 0
    <3>1. PICK k \in 1 .. L : blocks'[j].at = list[k].at
      BY <1>11
    <3>. QED BY <1>8, <3>1 DEF Inv, Placed, L
  <2>. QED BY <2>1 DEF Placed
<1>13. Matches(blocks', live')
  <2>1. ASSUME NEW r \in live'
        PROVE  \E j \in 1 .. Len(blocks') : /\ ~blocks'[j].free
                                            /\ blocks'[j].at + HeaderSize = r.ptr
                                            /\ r.size <= blocks'[j].size
    <3>1. r \in live /\ r # held
      BY <1>3
    <3>2. r.ptr # held.ptr
      BY <3>1 DEF Inv, Matches
    <3>3. PICK k \in 1 .. L : /\ ~blocks[k].free /\ blocks[k].at + HeaderSize = r.ptr
                              /\ r.size <= blocks[k].size
      BY <3>1 DEF Inv, Matches, L
    <3>4. k # i
      BY <1>2, <3>2, <3>3
    <3>5. list[k] = blocks[k]
      BY <1>7, <3>4
    <3>6. PICK j \in 1 .. Len(blocks') : blocks'[j] = list[k]
      BY <1>11, <3>3, <3>5
    <3>. QED BY <3>3, <3>5, <3>6
  <2>2. ASSUME NEW j \in 1 .. Len(blocks'), ~blocks'[j].free
        PROVE  \E r \in live' : r.ptr = blocks'[j].at + HeaderSize
    <3>1. PICK k \in 1 .. L : blocks'[j] = list[k]
      BY <1>11, <2>2
    <3>2. k # i /\ list[k] = blocks[k]
      BY <1>5, <1>7, <2>2, <3>1
    <3>3. PICK r \in live : r.ptr = blocks[k].at + HeaderSize
      BY <2>2, <3>1, <3>2 DEF Inv, Matches, L
    <3>4. blocks[k].at # blocks[i].at
      BY <1>1, <1>2, <3>2, OneAtAnAddress DEF Inv, L
    <3>5. blocks[k].at \in Nat
      BY <1>1 DEF Block
    <3>6. HeaderSize \in Nat
      BY <1>1
    <3>7. r # held
      <4>1. blocks[k].at + HeaderSize # blocks[i].at + HeaderSize
        BY <1>4, <3>4, <3>5, <3>6
      <4>. QED BY <1>2, <3>3, <4>1
    <3>. QED BY <1>3, <3>1, <3>2, <3>3, <3>7
  <2>3. \A r, s \in live' : r.ptr = s.ptr => r = s
    BY <1>3 DEF Inv, Matches
  <2>. QED BY <2>1, <2>2, <2>3 DEF Matches
<1>14. TypeOK'
  BY <1>1, <1>3, <1>4, <1>11 DEF TypeOK
<1>. QED BY <1>3, <1>11, <1>12, <1>13, <1>14 DEF Inv

-----------------------------------------------------------------------------
(* The theorems.                                                            *)

LEMMA NextInv == Inv /\ [Next]_vars => Inv'
<1> SUFFICES ASSUME Inv, [Next]_vars PROVE Inv'
  OBVIOUS
<1>1. ASSUME NEW size \in Sizes, allocate(size) PROVE Inv'
  BY <1>1, RequestSpaceInv, ReuseInv DEF allocate
<1>2. ASSUME NEW held \in live, free(held) PROVE Inv'
  BY <1>2, FreeInv
<1>3. CASE UNCHANGED vars
  BY <1>3 DEF vars, Inv, TypeOK, Ordered, Unmerged, Placed, Matches
<1>. QED BY <1>1, <1>2, <1>3 DEF Next

LEMMA InvHolds == Spec => []Inv
BY InitInv, NextInv, PTL DEF Spec

\* The list, the end and the regions keep their shapes whatever is allocated and
\* freed: no size of a block becomes negative in a split, for one.
THEOREM HeapTypeCorrect == Spec => []TypeOK
<1>1. Inv => TypeOK
  BY DEF Inv
<1>. QED BY <1>1, InvHolds, PTL

\* No header lies in bytes handed out, and end lies behind every block.
THEOREM HeadersAreSafe == Spec => []BlocksFollow
<1>1. Inv => BlocksFollow
  <2> SUFFICES ASSUME Inv PROVE BlocksFollow
    OBVIOUS
  <2>1. blocks \in Seq(Block) /\ Len(blocks) \in Nat
    BY LenProperties DEF Inv, TypeOK
  <2>2. blocks # <<>> => Len(blocks) \in 1 .. Len(blocks)
    BY <2>1, EmptySeq
  <2>3. ASSUME NEW i \in 1 .. Len(blocks), i < Len(blocks)
        PROVE  After(blocks[i]) <= blocks[i + 1].at
    <3>1. i + 1 \in 1 .. Len(blocks) /\ i < i + 1
      BY <2>1, <2>3
    <3>. QED BY <3>1 DEF Inv, Ordered
  <2>. QED BY <2>2, <2>3 DEF Inv, Ordered, BlocksFollow, Indices
<1>. QED BY <1>1, InvHolds, PTL

\* Free memory is merged as far as it goes after every call.
THEOREM MergedThroughout == Spec => []FreeIsMerged
<1>1. Inv => FreeIsMerged
  <2> SUFFICES ASSUME Inv, NEW i \in 1 .. Len(blocks), i < Len(blocks)
               PROVE  ~(blocks[i].free /\ blocks[i + 1].free)
    BY DEF FreeIsMerged, Indices
  <2>1. blocks \in Seq(Block) /\ Len(blocks) \in Nat
    BY LenProperties DEF Inv, TypeOK
  <2>2. i + 1 \in 1 .. Len(blocks)
    BY <2>1
  <2>. QED BY <2>2 DEF Inv, Unmerged
<1>. QED BY <1>1, InvHolds, PTL

\* The used blocks are those of the regions held, and each is large enough.
THEOREM HeldIsUsed == Spec => []UsedAreHeld
<1>1. Inv => UsedAreHeld
  <2> SUFFICES ASSUME Inv PROVE UsedAreHeld
    OBVIOUS
  <2>1. \A held \in live : held.size <= blocks[getBlock(held.ptr)].size
    BY GetBlock
  <2>2. \A i \in Used : \E held \in live : blocks[i].at + HeaderSize = held.ptr
    BY DEF Inv, Matches, Used, Indices
  <2>3. \A held \in live : \E i \in Used : blocks[i].at + HeaderSize = held.ptr
    BY DEF Inv, Matches, Used, Indices
  <2>. QED BY <2>1, <2>2, <2>3 DEF UsedAreHeld
<1>. QED BY <1>1, InvHolds, PTL

\* The regions held are where they may be and share no byte.
Held ==
    /\ \A r \in live : r.size \in Sizes /\ r.ptr >= Start /\ r.ptr % MEMORY_ALIGN = 0
    /\ \A r, s \in live : r # s => Pool!Apart(r, s)

LEMMA HeldApart == Inv => Held
<1> SUFFICES ASSUME Inv PROVE Held
  OBVIOUS
<1>1. /\ blocks \in Seq(Block) /\ Len(blocks) \in Nat /\ HeaderSize \in Nat /\ Start \in Nat
      /\ live \in SUBSET [ptr : Nat, size : Sizes] /\ Sizes \subseteq Nat
  BY HeapAssumption, LenProperties DEF Inv, TypeOK
<1>2. \A i \in 1 .. Len(blocks) : blocks[i].at \in Nat /\ blocks[i].size \in Nat
  BY <1>1, ElementOfSeq, AfterType
<1>3. ASSUME NEW r \in live
      PROVE  r.size \in Sizes /\ r.ptr >= Start /\ r.ptr % MEMORY_ALIGN = 0
  <2>1. PICK i \in 1 .. Len(blocks) : blocks[i].at + HeaderSize = r.ptr
    BY DEF Inv, Matches
  <2>2. blocks[i].at >= Start /\ (blocks[i].at + HeaderSize) % MEMORY_ALIGN = 0
    BY DEF Inv, Placed
  <2>3. blocks[i].at + HeaderSize >= Start
    BY <1>1, <1>2, <2>2
  <2>. QED BY <1>1, <2>1, <2>2, <2>3
<1>4. ASSUME NEW r \in live, NEW s \in live, r # s PROVE Pool!Apart(r, s)
  <2>1. PICK i \in 1 .. Len(blocks) : blocks[i].at + HeaderSize = r.ptr /\ r.size <= blocks[i].size
    BY DEF Inv, Matches
  <2>2. PICK j \in 1 .. Len(blocks) : blocks[j].at + HeaderSize = s.ptr /\ s.size <= blocks[j].size
    BY DEF Inv, Matches
  <2>3. i # j
    BY <1>4, <2>1, <2>2 DEF Inv, Matches
  <2>0. /\ blocks[i].at \in Nat /\ blocks[i].size \in Nat
        /\ blocks[j].at \in Nat /\ blocks[j].size \in Nat
    BY <1>2
  <2>4. r.size \in Nat /\ s.size \in Nat /\ HeaderSize \in Nat
    BY <1>1
  <2>5. CASE i < j
    <3>1. blocks[i].at + HeaderSize + blocks[i].size <= blocks[j].at
      BY <2>5 DEF Inv, Ordered, After
    <3>2. blocks[i].at + HeaderSize + r.size <= blocks[j].at + HeaderSize
      <4>1. r.size <= blocks[i].size
        BY <2>1
      <4>. QED BY <2>0, <2>4, <3>1, <4>1, Behind
    <3>3. r.ptr + r.size <= s.ptr
      BY <2>1, <2>2, <3>2
    <3>. QED BY <3>3 DEF Pool!Apart
  <2>6. CASE j < i
    <3>1. blocks[j].at + HeaderSize + blocks[j].size <= blocks[i].at
      BY <2>6 DEF Inv, Ordered, After
    <3>2. blocks[j].at + HeaderSize + s.size <= blocks[i].at + HeaderSize
      <4>1. s.size <= blocks[j].size
        BY <2>2
      <4>. QED BY <2>0, <2>4, <3>1, <4>1, Behind
    <3>3. s.ptr + s.size <= r.ptr
      BY <2>1, <2>2, <3>2
    <3>. QED BY <3>3 DEF Pool!Apart
  <2>. QED BY <2>3, <2>5, <2>6
<1>. QED BY <1>3, <1>4 DEF Held

\* The heap implements Regions: whatever is allocated and freed in whatever order,
\* a region handed out is aligned and shares no byte with one still held.
THEOREM ImplementsRegions == Spec => HandsOutRegions
<1>1. Init => Pool!Init
  BY DEF Init, Pool!Init
<1>2. Held' /\ [Next]_vars => [Pool!Allocate \/ Pool!Free]_live
  <2> SUFFICES ASSUME Held', [Next]_vars, live' # live PROVE Pool!Allocate \/ Pool!Free
    OBVIOUS
  <2>1. ASSUME NEW region, live' = live \union {region} PROVE Pool!Allocate
    <3>1. region \in live' \ live
      BY <2>1
    <3>2. /\ region.size \in Sizes /\ region.ptr >= Start /\ region.ptr % MEMORY_ALIGN = 0
          /\ \A held \in live : Pool!Apart(region, held)
      BY <2>1, <3>1 DEF Held
    <3>. QED BY <2>1, <3>1, <3>2 DEF Pool!Allocate
  <2>2. ASSUME NEW size \in Sizes, allocate(size) PROVE Pool!Allocate
    BY <2>1, <2>2 DEF allocate, requestSpace, Reuse, split, Give
  <2>3. ASSUME NEW held \in live, free(held) PROVE Pool!Free
    BY <2>3 DEF free, Pool!Free
  <2>. QED BY <2>2, <2>3 DEF Next, vars
<1>. QED BY <1>1, <1>2, InvHolds, HeldApart, PTL DEF Spec, HandsOutRegions, Pool!Spec

-----------------------------------------------------------------------------
(* The counter.                                                             *)

\* Sums over the first blocks of a list.
Sums(s, list) ==
    /\ s \in [0 .. Len(list) -> Int]
    /\ s[0] = 0
    /\ \A n \in 1 .. Len(list) : s[n] = s[n - 1] + Cost(list[n])

LEMMA CostType == ASSUME NEW block \in Block PROVE Cost(block) \in Nat
BY HeapAssumption, AfterType DEF Cost

\* There are such sums, and the last is what the used blocks take.
LEMMA UsageRuns == ASSUME NEW list \in Seq(Block) PROVE \E s : Sums(s, list) /\ Usage(list) = s[Len(list)]
<1>. DEFINE N == Len(list)
            sum[n \in 0 .. N] == IF n = 0 THEN 0 ELSE sum[n - 1] + Cost(list[n])
            step == [k \in Nat |-> [m \in Nat |-> IF k \in 1 .. N THEN m + Cost(list[k]) ELSE m]]
<1>1. N \in Nat /\ \A k \in 1 .. N : list[k] \in Block /\ Cost(list[k]) \in Nat
  BY LenProperties, ElementOfSeq, CostType
<1>2. step \in [Nat -> [Nat -> Nat]]
  BY <1>1
<1>3. PICK f \in [0 .. N -> Nat] : Run(f, 0, step, N)
  <2>. HIDE DEF step, N
  <2>. QED BY <1>1, <1>2, Iteration
<1>4. f = [n \in 0 .. N |-> IF n = 0 THEN 0 ELSE f[n - 1] + Cost(list[n])]
  <2>1. ASSUME NEW n \in 0 .. N PROVE f[n] = IF n = 0 THEN 0 ELSE f[n - 1] + Cost(list[n])
    <3>1. CASE n = 0
      BY <1>3, <3>1 DEF Run
    <3>2. CASE n # 0
      <4>1. n \in 1 .. N /\ n - 1 \in 0 .. N /\ n \in Nat
        BY <1>1, <3>2
      <4>2. f[n - 1] \in Nat /\ f[n] = step[n][f[n - 1]]
        BY <1>3, <4>1 DEF Run
      <4>3. step[n][f[n - 1]] = f[n - 1] + Cost(list[n])
        BY <4>1, <4>2
      <4>. QED BY <3>2, <4>2, <4>3
    <3>. QED BY <3>1, <3>2
  <2>. HIDE DEF N
  <2>. QED BY <2>1
<1>5. sum = [n \in 0 .. N |-> IF n = 0 THEN 0 ELSE sum[n - 1] + Cost(list[n])]
  <2>. HIDE DEF N
  <2>. QED BY <1>4 DEF sum
<1>6. Usage(list) = sum[N]
  BY Zenon DEF Usage, sum
<1>. HIDE DEF sum, step
<1>7. \A n \in 0 .. N : sum[n] = f[n]
  <2>. DEFINE S == {n \in Nat : n \in 0 .. N => sum[n] = f[n]}
  <2>1. 0 \in S
    BY <1>1, <1>4, <1>5
  <2>2. ASSUME NEW n \in Nat, n \in S PROVE n + 1 \in S
    <3>1. SUFFICES ASSUME n + 1 \in 0 .. N PROVE sum[n + 1] = f[n + 1]
      OBVIOUS
    <3>2. n \in 0 .. N /\ n + 1 # 0 /\ (n + 1) - 1 = n
      BY <1>1, <3>1
    <3>3. f[n + 1] = f[(n + 1) - 1] + Cost(list[n + 1])
      BY <1>4, <3>1, <3>2
    <3>4. sum[n + 1] = sum[(n + 1) - 1] + Cost(list[n + 1])
      BY <1>5, <3>1, <3>2
    <3>. QED BY <2>2, <3>2, <3>3, <3>4
  <2>3. Nat \subseteq S
    <3>. HIDE DEF S
    <3>. QED BY <2>1, <2>2, SetInduction
  <2>. QED BY <2>3
<1>8. f[0] = 0 /\ \A n \in 1 .. N : f[n] = f[n - 1] + Cost(list[n])
  <2>1. 0 \in 0 .. N /\ \A n \in 1 .. N : n \in 0 .. N /\ n # 0
    BY <1>1
  <2>. HIDE DEF N
  <2>. QED BY <1>4, <2>1
<1>9. N \in 0 .. N
  BY <1>1
<1>10. Sums(f, list)
  BY <1>8 DEF Sums
<1>. QED BY <1>6, <1>7, <1>9, <1>10

\* Any sums over the list end the same.
LEMMA UsageIs == ASSUME NEW list \in Seq(Block), NEW s, Sums(s, list) PROVE Usage(list) = s[Len(list)]
<1>1. PICK t : Sums(t, list) /\ Usage(list) = t[Len(list)]
  BY UsageRuns
<1>2. Len(list) \in Nat
  BY LenProperties
<1>. DEFINE S == {n \in Nat : n \in 0 .. Len(list) => s[n] = t[n]}
<1>3. 0 \in S
  BY <1>1 DEF Sums
<1>4. ASSUME NEW n \in Nat, n \in S PROVE n + 1 \in S
  <2>1. SUFFICES ASSUME n + 1 \in 0 .. Len(list) PROVE s[n + 1] = t[n + 1]
    OBVIOUS
  <2>2. n \in 0 .. Len(list) /\ n + 1 \in 1 .. Len(list) /\ (n + 1) - 1 = n
    BY <1>2, <2>1
  <2>. QED BY <1>1, <1>4, <2>2 DEF Sums
<1>5. Nat \subseteq S
  <2>. HIDE DEF S
  <2>. QED BY <1>3, <1>4, SetInduction
<1>6. Len(list) \in S /\ Len(list) \in 0 .. Len(list)
  BY <1>2, <1>5
<1>. QED BY <1>1, <1>6

LEMMA SumsType ==
    ASSUME NEW list \in Seq(Block), NEW s, Sums(s, list)
    PROVE  /\ Len(list) \in Nat
           /\ \A n \in 1 .. Len(list) : /\ list[n] \in Block /\ Cost(list[n]) \in Int
                                         /\ n \in 0 .. Len(list) /\ n - 1 \in 0 .. Len(list)
                                         /\ s[n] = s[n - 1] + Cost(list[n])
           /\ \A n \in 0 .. Len(list) : s[n] \in Int
           /\ s[0] = 0
<1>1. Len(list) \in Nat /\ \A n \in 1 .. Len(list) : list[n] \in Block /\ Cost(list[n]) \in Nat
  BY LenProperties, ElementOfSeq, CostType
<1>2. \A n \in 1 .. Len(list) : n \in 0 .. Len(list) /\ n - 1 \in 0 .. Len(list) /\ Cost(list[n]) \in Int
  BY <1>1
<1>. QED BY <1>1, <1>2 DEF Sums

\* One block is put in the place of another.
LEMMA UsageExcept ==
    ASSUME NEW list \in Seq(Block), NEW i \in 1 .. Len(list), NEW block \in Block,
           NEW other \in Seq(Block), Len(other) = Len(list),
           \A j \in 1 .. Len(list) : other[j] = IF j = i THEN block ELSE list[j]
    PROVE  Usage(other) = Usage(list) - Cost(list[i]) + Cost(block)
<1>1. PICK s : Sums(s, list) /\ Usage(list) = s[Len(list)]
  BY UsageRuns
<1>2. /\ Len(list) \in Nat /\ Cost(block) \in Int
      /\ \A n \in 1 .. Len(list) : /\ list[n] \in Block /\ Cost(list[n]) \in Int
                                    /\ n \in 0 .. Len(list) /\ n - 1 \in 0 .. Len(list)
      /\ \A n \in 0 .. Len(list) : s[n] \in Int
      /\ s[0] = 0 /\ \A n \in 1 .. Len(list) : s[n] = s[n - 1] + Cost(list[n])
  <2>1. Cost(block) \in Int
    BY CostType
  <2>. QED BY <1>1, <2>1, SumsType
<1>. DEFINE more == Cost(block) - Cost(list[i])
            t == [n \in 0 .. Len(list) |-> IF n < i THEN s[n] ELSE s[n] + more]
<1>3. more \in Int
  BY <1>2
<1>. HIDE DEF more
<1>4. t \in [0 .. Len(list) -> Int] /\ t[0] = 0
  BY <1>2, <1>3
<1>5. ASSUME NEW n \in 1 .. Len(list) PROVE t[n] = t[n - 1] + Cost(other[n])
  <2>1. CASE n < i
    BY <1>2, <2>1
  <2>2. CASE n = i
    BY <1>2, <2>2 DEF more
  <2>3. CASE n > i
    <3>1. ~(n < i) /\ ~(n - 1 < i) /\ n # i
      BY <1>2, <2>3
    <3>2. other[n] = list[n]
      BY <3>1
    <3>3. t[n] = s[n] + more /\ t[n - 1] = s[n - 1] + more
      BY <1>2, <3>1
    <3>4. s[n] = s[n - 1] + Cost(list[n]) /\ s[n - 1] \in Int /\ Cost(list[n]) \in Int
      BY <1>2
    <3>. HIDE DEF t
    <3>. QED BY <1>3, <3>2, <3>3, <3>4
  <2>. QED BY <1>2, <2>1, <2>2, <2>3
<1>6. Len(list) \in 0 .. Len(list) /\ t[Len(list)] = s[Len(list)] + more
  BY <1>2
<1>. HIDE DEF t
<1>7. Usage(other) = t[Len(list)]
  BY <1>4, <1>5, UsageIs DEF Sums
<1>. QED BY <1>1, <1>2, <1>6, <1>7 DEF more

\* A block is put behind the others.
LEMMA UsageAppend ==
    ASSUME NEW list \in Seq(Block), NEW block \in Block
    PROVE  Usage(Append(list, block)) = Usage(list) + Cost(block)
<1>. DEFINE other == Append(list, block)
            L == Len(list)
<1>1. PICK s : Sums(s, list) /\ Usage(list) = s[Len(list)]
  BY UsageRuns
<1>2. /\ L \in Nat /\ Cost(block) \in Int
      /\ \A n \in 0 .. L : s[n] \in Int
      /\ s[0] = 0 /\ \A n \in 1 .. L : s[n] = s[n - 1] + Cost(list[n])
  <2>1. Cost(block) \in Int
    BY CostType
  <2>. QED BY <1>1, <2>1, SumsType
<1>3. /\ other \in Seq(Block) /\ Len(other) = L + 1
      /\ \A n \in 1 .. L + 1 : other[n] = IF n = L + 1 THEN block ELSE list[n]
  BY AppendProperties
<1>. HIDE DEF other, L
<1>. DEFINE t == [n \in 0 .. L + 1 |-> IF n = L + 1 THEN s[L] + Cost(block) ELSE s[n]]
<1>4. t \in [0 .. L + 1 -> Int] /\ t[0] = 0
  BY <1>2
<1>5. ASSUME NEW n \in 1 .. L + 1 PROVE t[n] = t[n - 1] + Cost(other[n])
  <2>1. CASE n = L + 1
    BY <1>2, <1>3, <2>1
  <2>2. CASE n # L + 1
    <3>1. n \in 1 .. L /\ n \in 0 .. L + 1 /\ n - 1 \in 0 .. L + 1 /\ n - 1 # L + 1
      BY <1>2, <2>2
    <3>. QED BY <1>2, <1>3, <2>2, <3>1
  <2>. QED BY <2>1, <2>2
<1>6. t[L + 1] = s[L] + Cost(block)
  BY <1>2
<1>. HIDE DEF t
<1>7. Usage(other) = t[L + 1]
  BY <1>3, <1>4, <1>5, UsageIs DEF Sums
<1>. QED BY <1>1, <1>6, <1>7 DEF other, L

\* other is list with the i-th block split in two.
Divided(other, list, i, first, second) ==
    /\ other \in Seq(Block)
    /\ Len(other) = Len(list) + 1
    /\ \A j \in 1 .. Len(list) + 1 :
           other[j] = IF j < i THEN list[j] ELSE IF j = i THEN first
                      ELSE IF j = i + 1 THEN second ELSE list[j - 1]

\* A free block is split in two, of which the second is free.
LEMMA UsageSplit ==
    ASSUME NEW list \in Seq(Block), NEW i \in 1 .. Len(list), list[i].free,
           NEW first \in Block, NEW second \in Block, second.free,
           NEW other, Divided(other, list, i, first, second)
    PROVE  Usage(other) = Usage(list) + Cost(first)
<1>. DEFINE L == Len(list)
<1>1. PICK s : Sums(s, list) /\ Usage(list) = s[Len(list)]
  BY UsageRuns
<1>2. /\ L \in Nat /\ Cost(first) \in Int /\ Cost(second) = 0 /\ Cost(list[i]) = 0
      /\ \A n \in 0 .. L : s[n] \in Int
      /\ s[0] = 0 /\ \A n \in 1 .. L : s[n] = s[n - 1] + Cost(list[n]) /\ Cost(list[n]) \in Int
  <2>1. Cost(second) = 0 /\ Cost(list[i]) = 0
    BY DEF Cost
  <2>2. Cost(first) \in Int
    BY CostType
  <2>. QED BY <1>1, <2>1, <2>2, SumsType
<1>3. \A j \in 1 .. L + 1 :
          other[j] = IF j < i THEN list[j] ELSE IF j = i THEN first
                     ELSE IF j = i + 1 THEN second ELSE list[j - 1]
  BY DEF Divided
<1>4. i \in 1 .. L /\ Len(other) = L + 1 /\ other \in Seq(Block)
  BY DEF Divided
<1>. HIDE DEF L
<1>. DEFINE t == [n \in 0 .. L + 1 |-> IF n < i THEN s[n] ELSE s[n - 1] + Cost(first)]
<1>5. t \in [0 .. L + 1 -> Int] /\ t[0] = 0
  <2>1. ASSUME NEW n \in 0 .. L + 1 PROVE t[n] \in Int
    <3>1. CASE n < i
      <4>1. n \in 0 .. L
        BY <1>2, <1>4, <3>1
      <4>. QED BY <1>2, <3>1, <4>1
    <3>2. CASE ~(n < i)
      <4>1. n - 1 \in 0 .. L
        BY <1>2, <1>4, <3>2
      <4>. QED BY <1>2, <3>2, <4>1
    <3>. QED BY <3>1, <3>2
  <2>. QED BY <1>2, <1>4, <2>1
<1>6. ASSUME NEW n \in 1 .. L + 1 PROVE t[n] = t[n - 1] + Cost(other[n])
  <2>1. n \in 0 .. L + 1 /\ n - 1 \in 0 .. L + 1
    BY <1>2
  <2>2. CASE n < i
    <3>1. n \in 1 .. L /\ n - 1 < i
      BY <1>2, <1>4, <2>2
    <3>. QED BY <1>2, <1>3, <2>1, <2>2, <3>1
  <2>3. CASE n = i
    <3>1. n - 1 < i /\ ~(n < i)
      BY <1>2, <1>4, <2>3
    <3>. QED BY <1>2, <1>3, <2>1, <2>3, <3>1
  <2>4. CASE n = i + 1
    <3>1. ~(n < i) /\ ~(n - 1 < i) /\ n # i /\ n - 1 = i /\ i \in 1 .. L /\ i \in 0 .. L /\ i - 1 \in 0 .. L
      BY <1>2, <1>4, <2>4
    <3>2. s[i] = s[i - 1] /\ s[i] \in Int /\ s[i - 1] \in Int
      BY <1>2, <3>1
    <3>3. other[n] = second
      BY <1>3, <2>4, <3>1
    <3>4. t[n] = s[i] + Cost(first) /\ t[n - 1] = s[i - 1] + Cost(first)
      BY <2>1, <3>1
    <3>. QED BY <1>2, <3>2, <3>3, <3>4
  <2>5. CASE n > i + 1
    <3>1. ~(n < i) /\ ~(n - 1 < i) /\ n # i /\ n # i + 1 /\ n - 1 \in 1 .. L /\ n - 1 \in 0 .. L /\ (n - 1) - 1 \in 0 .. L
      BY <1>2, <1>4, <2>5
    <3>2. other[n] = list[n - 1]
      BY <1>3, <3>1
    <3>3. s[n - 1] = s[(n - 1) - 1] + Cost(list[n - 1])
      BY <1>2, <3>1
    <3>4. t[n] = s[n - 1] + Cost(first) /\ t[n - 1] = s[(n - 1) - 1] + Cost(first)
      BY <2>1, <3>1
    <3>5. s[(n - 1) - 1] \in Int /\ Cost(list[n - 1]) \in Int
      BY <1>2, <3>1
    <3>. QED BY <1>2, <3>2, <3>3, <3>4, <3>5
  <2>. QED BY <1>4, <2>2, <2>3, <2>4, <2>5
<1>7. t[L + 1] = s[L] + Cost(first)
  BY <1>2, <1>4
<1>. HIDE DEF t
<1>8. Usage(other) = t[L + 1]
  BY <1>4, <1>5, <1>6, UsageIs DEF Sums
<1>. QED BY <1>1, <1>7, <1>8 DEF L

\* To absorb a block is to put it behind the others, as far as the counter goes.
LEMMA UsageAbsorb ==
    ASSUME NEW list \in Seq(Block), NEW block \in Block
    PROVE  Usage(Absorb(list, block)) = Usage(list) + Cost(block)
<1>1. CASE list # <<>> /\ list[Len(list)].free /\ block.free
  <2>. DEFINE i == Len(list)
              grown == [list[i] EXCEPT !.size = @ + HeaderSize + block.size]
              other == Absorb(list, block)
  <2>1. i \in 1 .. i /\ list[i] \in Block
    BY <1>1, EmptySeq, ElementOfSeq
  <2>2. grown \in Block /\ grown.free
    <3>1. grown.free = list[i].free
      BY <2>1 DEF Block
    <3>. HIDE DEF i
    <3>. QED BY <1>1, <2>1, <3>1, GrownType DEF i
  <2>3. other = [list EXCEPT ![i] = grown]
    BY <1>1 DEF Absorb
  <2>4. Cost(list[i]) = 0 /\ Cost(grown) = 0 /\ Cost(block) = 0
    BY <1>1, <2>2 DEF Cost
  <2>. HIDE DEF grown, other
  <2>5. other \in Seq(Block) /\ Len(other) = i /\ \A j \in 1 .. i : other[j] = IF j = i THEN grown ELSE list[j]
    BY <2>1, <2>2, <2>3, ExceptSeq
  <2>6. Usage(other) = Usage(list) - Cost(list[i]) + Cost(grown)
    BY <2>1, <2>2, <2>5, UsageExcept
  <2>7. Usage(list) \in Int
    <3>1. PICK s : Sums(s, list) /\ Usage(list) = s[Len(list)]
      BY UsageRuns
    <3>. QED BY <2>1, <3>1 DEF Sums
  <2>. QED BY <2>4, <2>6, <2>7 DEF other
<1>2. CASE ~(list # <<>> /\ list[Len(list)].free /\ block.free)
  BY <1>2, UsageAppend DEF Absorb
<1>. QED BY <1>1, <1>2

\* merge changes no used block.
LEMMA UsageMerge == ASSUME NEW list \in Seq(Block) PROVE Usage(merge(list)) = Usage(list)
<1>1. PICK f : Merges(f, list)
  BY MergeRuns
<1>2. PICK s : Sums(s, list) /\ Usage(list) = s[Len(list)]
  BY UsageRuns
<1>3. Len(list) \in Nat /\ \A n \in 1 .. Len(list) : list[n] \in Block
  BY <1>2, SumsType
<1>. DEFINE S == {n \in Nat : n \in 0 .. Len(list) => Usage(f[n]) = s[n]}
<1>4. 0 \in S
  <2>1. <<>> \in Seq(Block) /\ Len(<<>>) = 0
    BY EmptySeq
  <2>2. PICK t : Sums(t, <<>>) /\ Usage(<<>>) = t[Len(<<>>)]
    BY <2>1, UsageRuns
  <2>. QED BY <1>1, <1>2, <2>1, <2>2 DEF Merges, Sums
<1>5. ASSUME NEW n \in Nat, n \in S PROVE n + 1 \in S
  <2>1. SUFFICES ASSUME n + 1 \in 0 .. Len(list) PROVE Usage(f[n + 1]) = s[n + 1]
    OBVIOUS
  <2>2. n \in 0 .. Len(list) /\ n + 1 \in 1 .. Len(list) /\ (n + 1) - 1 = n
    BY <1>3, <2>1
  <2>3. f[n] \in Seq(Block) /\ f[n + 1] = Absorb(f[n], list[n + 1]) /\ list[n + 1] \in Block
    BY <1>1, <1>3, <2>2 DEF Merges
  <2>4. Usage(f[n + 1]) = Usage(f[n]) + Cost(list[n + 1])
    BY <2>3, UsageAbsorb
  <2>5. s[n + 1] = s[n] + Cost(list[n + 1])
    BY <1>2, <2>2 DEF Sums
  <2>. QED BY <1>5, <2>2, <2>4, <2>5
<1>6. Nat \subseteq S
  <2>. HIDE DEF S
  <2>. QED BY <1>4, <1>5, SetInduction
<1>7. Len(list) \in S /\ Len(list) \in 0 .. Len(list)
  BY <1>3, <1>6
<1>. QED BY <1>1, <1>2, <1>7 DEF Merges

LEMMA InitExact == Init => CounterIsExact
<1>1. <<>> \in Seq(Block) /\ Len(<<>>) = 0
  BY EmptySeq
<1>2. PICK s : Sums(s, <<>>) /\ Usage(<<>>) = s[Len(<<>>)]
  BY <1>1, UsageRuns
<1>3. Usage(<<>>) = 0
  BY <1>1, <1>2, SumsType
<1>. QED BY <1>3 DEF Init, CounterIsExact

LEMMA UsageType == ASSUME NEW list \in Seq(Block) PROVE Usage(list) \in Int
<1>1. PICK s : Sums(s, list) /\ Usage(list) = s[Len(list)]
  BY UsageRuns
<1>2. Len(list) \in 0 .. Len(list)
  BY LenProperties
<1>. QED BY <1>1, <1>2, SumsType

LEMMA RequestSpaceExact ==
    ASSUME Inv, CounterIsExact, NEW size \in Sizes, requestSpace(size)
    PROVE  CounterIsExact'
<1>. DEFINE block == [at |-> realign(end), size |-> size, free |-> FALSE]
<1>1. /\ blocks \in Seq(Block) /\ end \in Nat /\ allocated \in Int /\ HeaderSize \in Nat /\ size \in Nat
  BY HeapAssumption DEF Inv, TypeOK
<1>2. block \in Block /\ block.size = size
  BY <1>1, Realigned DEF Block
<1>3. blocks' = Append(blocks, block) /\ allocated' = allocated + size + HeaderSize
  BY DEF requestSpace, Give
<1>4. Cost(block) = size + HeaderSize
  BY DEF Cost
<1>. HIDE DEF block
<1>5. Usage(blocks') = Usage(blocks) + Cost(block)
  BY <1>1, <1>2, <1>3, UsageAppend
<1>. QED BY <1>1, <1>3, <1>4, <1>5 DEF CounterIsExact

LEMMA SplitExact ==
    ASSUME Inv, CounterIsExact, NEW size \in Sizes, NEW i \in Fits(size), split(i, size), Inv'
    PROVE  CounterIsExact'
<1>. DEFINE L == Len(blocks)
            block == blocks[i]
            at == realign(block.at + size + HeaderSize + 1)
            first == [block EXCEPT !.size = size, !.free = FALSE]
            second == [at |-> at, size |-> Rest(i, at), free |-> TRUE]
            whole == [block EXCEPT !.free = FALSE]
<1>1. /\ blocks \in Seq(Block) /\ blocks' \in Seq(Block) /\ L \in Nat /\ allocated \in Int
      /\ HeaderSize \in Nat /\ size \in Nat
  BY HeapAssumption, LenProperties DEF Inv, TypeOK
<1>2. i \in 1 .. L /\ block.free
  BY <1>1 DEF Fits
<1>3. block \in Block /\ block.size \in Nat /\ block.at \in Nat
  BY <1>1, <1>2, ElementOfSeq, AfterType
<1>4. /\ first \in Block /\ ~first.free /\ first.size = size
      /\ whole \in Block /\ ~whole.free /\ whole.size = block.size
  BY <1>1, <1>3 DEF Block
<1>5. Cost(first) = size + HeaderSize /\ Cost(whole) = block.size + HeaderSize /\ Cost(block) = 0
  BY <1>2, <1>4 DEF Cost
<1>6. CASE ~Splits(i, size, at)
  <2>1. blocks' = [blocks EXCEPT ![i] = whole] /\ allocated' = allocated + whole.size + HeaderSize
    BY <1>6 DEF split, Give
  <2>. HIDE DEF whole, block
  <2>2. Len(blocks') = Len(blocks) /\ \A j \in 1 .. Len(blocks) : blocks'[j] = IF j = i THEN whole ELSE blocks[j]
    BY <1>1, <1>2, <1>4, <2>1, ExceptSeq
  <2>3. Usage(blocks') = Usage(blocks) - Cost(blocks[i]) + Cost(whole)
    BY <1>1, <1>2, <1>4, <2>2, UsageExcept
  <2>. QED BY <1>1, <1>3, <1>4, <1>5, <2>1, <2>3 DEF CounterIsExact, block
<1>7. CASE Splits(i, size, at)
  <2>1. /\ blocks' = [j \in 1 .. L + 1 |-> IF j < i THEN blocks[j]
                                          ELSE IF j = i THEN first
                                          ELSE IF j = i + 1 THEN second ELSE blocks[j - 1]]
        /\ allocated' = allocated + first.size + HeaderSize
    BY <1>7 DEF split, Give
  <2>2. second.free
    OBVIOUS
  <2>. HIDE DEF first, second, block
  <2>3. \A j \in 1 .. L + 1 :
            blocks'[j] = IF j < i THEN blocks[j] ELSE IF j = i THEN first
                         ELSE IF j = i + 1 THEN second ELSE blocks[j - 1]
    BY <2>1
  <2>4. Len(blocks') = L + 1
    <3>1. DOMAIN blocks' = 1 .. L + 1
      BY <2>1
    <3>2. 1 .. Len(blocks') = 1 .. L + 1 /\ Len(blocks') \in Nat
      BY <1>1, <3>1, LenProperties
    <3>3. L + 1 \in 1 .. Len(blocks') /\ (Len(blocks') # 0 => Len(blocks') \in 1 .. L + 1)
      BY <1>1, <3>2
    <3>. QED BY <1>1, <3>2, <3>3
  <2>5. i + 1 \in 1 .. L + 1 /\ blocks'[i + 1] = second /\ second \in Block
    BY <1>1, <1>2, <2>3, <2>4, ElementOfSeq
  <2>6. Usage(blocks') = Usage(blocks) + Cost(first)
    <3>. DEFINE other == blocks'
    <3>1. blocks[i].free /\ i \in 1 .. Len(blocks) /\ blocks \in Seq(Block)
      BY <1>1, <1>2 DEF block
    <3>2. Divided(other, blocks, i, first, second)
      BY <1>1, <2>3, <2>4 DEF Divided
    <3>. HIDE DEF other
    <3>3. Usage(other) = Usage(blocks) + Cost(first)
      BY <1>4, <2>2, <2>5, <3>1, <3>2, UsageSplit
    <3>. QED BY <3>3 DEF other
  <2>. QED BY <1>1, <1>4, <1>5, <2>1, <2>6 DEF CounterIsExact
<1>. QED BY <1>6, <1>7

LEMMA FreeExact ==
    ASSUME Inv, CounterIsExact, NEW held \in live, free(held)
    PROVE  CounterIsExact'
<1>. DEFINE i == getBlock(held.ptr)
            freed == [blocks[i] EXCEPT !.free = TRUE]
            list == [blocks EXCEPT ![i].free = TRUE]
<1>1. blocks \in Seq(Block) /\ allocated \in Int /\ HeaderSize \in Nat
  BY HeapAssumption DEF Inv, TypeOK
<1>2. i \in 1 .. Len(blocks) /\ ~blocks[i].free
  BY GetBlock
<1>3. allocated' = allocated - (blocks[i].size + HeaderSize) /\ blocks' = merge(list)
  BY DEF free
<1>. HIDE DEF i
<1>4. blocks[i] \in Block /\ blocks[i].size \in Nat
  BY <1>1, <1>2, ElementOfSeq, AfterType
<1>5. freed \in Block /\ freed.free
  BY <1>4 DEF Block
<1>6. list = [blocks EXCEPT ![i] = freed]
  OBVIOUS
<1>7. Cost(freed) = 0 /\ Cost(blocks[i]) = blocks[i].size + HeaderSize
  BY <1>2, <1>5 DEF Cost
<1>. HIDE DEF freed, list
<1>8. /\ list \in Seq(Block) /\ Len(list) = Len(blocks)
      /\ \A j \in 1 .. Len(blocks) : list[j] = IF j = i THEN freed ELSE blocks[j]
  BY <1>1, <1>2, <1>5, <1>6, ExceptSeq
<1>9. Usage(list) = Usage(blocks) - Cost(blocks[i]) + Cost(freed)
  BY <1>1, <1>2, <1>5, <1>8, UsageExcept
<1>10. Usage(blocks') = Usage(list)
  BY <1>3, <1>8, UsageMerge
<1>. QED BY <1>1, <1>3, <1>4, <1>7, <1>9, <1>10, UsageType DEF CounterIsExact

\* The counter is exactly what the used blocks take, headers included, however often
\* blocks are split and merged: it does not drift.
THEOREM CounterNeverDrifts == Spec => []CounterIsExact
<1>1. Init => Inv /\ CounterIsExact
  BY InitInv, InitExact
<1>2. Inv /\ CounterIsExact /\ [Next]_vars => Inv' /\ CounterIsExact'
  <2> SUFFICES ASSUME Inv, CounterIsExact, [Next]_vars, Inv' PROVE CounterIsExact'
    BY NextInv
  <2>1. ASSUME NEW size \in Sizes, requestSpace(size) PROVE CounterIsExact'
    BY <2>1, RequestSpaceExact
  <2>2. ASSUME NEW size \in Sizes, Reuse(size) PROVE CounterIsExact'
    BY <2>2, FirstFits, SplitExact DEF Reuse
  <2>3. ASSUME NEW held \in live, free(held) PROVE CounterIsExact'
    BY <2>3, FreeExact
  <2>4. CASE UNCHANGED vars
    BY <2>4 DEF vars, CounterIsExact
  <2>. QED BY <2>1, <2>2, <2>3, <2>4 DEF Next, allocate
<1>. QED BY <1>1, <1>2, PTL DEF Spec
=============================================================================
