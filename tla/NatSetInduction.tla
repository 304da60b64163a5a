-------------------------- MODULE NatSetInduction --------------------------
(***************************************************************************)
(* Induction over the naturals for a set in the place of a predicate, and  *)
(* the existence of a function computed step by step.  Both follow from    *)
(* the least-number principle, which WFMin gives for sets of naturals.     *)
(***************************************************************************)
EXTENDS Integers, WellFoundedInduction, TLAPS

Less == {pair \in Nat \X Nat : pair[1] < pair[2]}

\* The order of the naturals is well founded.
LEMMA LessIsWellFounded == IsWellFoundedOn(Less, Nat)
BY NatLessThanWellFounded DEF OpToRel, Less

\* A set of naturals that is not empty has a least element.
LEMMA LeastNatural ==
    ASSUME NEW T, T \subseteq Nat, T # {}
    PROVE  \E n \in T : \A m \in T : n <= m
<1>1. PICK n \in T : \A m \in T : ~ (<<m, n>> \in Less)
  BY WFMin, LessIsWellFounded
<1>2. ASSUME NEW m \in T PROVE n <= m
  <2>1. m \in Nat /\ n \in Nat
    OBVIOUS
  <2>2. m < n => <<m, n>> \in Less
    BY <2>1 DEF Less
  <2>. QED BY <1>1, <2>1, <2>2
<1>. QED BY <1>2

\* A set of naturals that holds 0 and every successor of a member holds them all.
LEMMA SetInduction ==
    ASSUME NEW S, 0 \in S, \A n \in Nat : n \in S => n + 1 \in S
    PROVE  Nat \subseteq S
<1>1. SUFFICES ASSUME Nat \ S # {} PROVE FALSE
  OBVIOUS
<1>2. PICK n \in Nat \ S : \A m \in Nat \ S : n <= m
  <2>. DEFINE T == Nat \ S
  <2>1. T \subseteq Nat /\ T # {}
    BY <1>1
  <2>2. \E n \in T : \A m \in T : n <= m
    <3>. HIDE DEF T
    <3>. QED BY <2>1, LeastNatural
  <2>. QED BY <2>2
<1>3. n # 0
  BY <1>2
<1>4. n - 1 \in Nat /\ n - 1 \in S
  BY <1>2, <1>3
<1>. QED BY <1>2, <1>4

\* The values computed one from another, n times over, starting with x.
Run(f, x, step, n) == f[0] = x /\ \A k \in 1 .. n : f[k] = step[k][f[k - 1]]

\* They exist as a function, when every value is one the next can be computed from.
LEMMA Iteration ==
    ASSUME NEW X, NEW x \in X, NEW n \in Nat, NEW step \in [Nat -> [X -> X]]
    PROVE  \E f \in [0 .. n -> X] : Run(f, x, step, n)
<1>. DEFINE Runs(f, i) == Run(f, x, step, i)
            S == {i \in Nat : \E f \in [0 .. i -> X] : Runs(f, i)}
<1>1. 0 \in S
  <2>. DEFINE f == [k \in 0 .. 0 |-> x]
  <2>1. f \in [0 .. 0 -> X] /\ Runs(f, 0)
    BY DEF Run
  <2>. QED BY <2>1
<1>2. ASSUME NEW i \in Nat, i \in S PROVE i + 1 \in S
  <2>1. PICK f \in [0 .. i -> X] : Runs(f, i)
    BY <1>2
  <2>. DEFINE g == [k \in 0 .. i + 1 |-> IF k = i + 1 THEN step[i + 1][f[i]] ELSE f[k]]
  <2>2. g \in [0 .. i + 1 -> X]
    OBVIOUS
  <2>3. Runs(g, i + 1)
    <3>1. g[0] = x
      BY <2>1 DEF Run
    <3>2. ASSUME NEW k \in 1 .. i + 1 PROVE g[k] = step[k][g[k - 1]]
      <4>1. k - 1 \in 0 .. i /\ g[k - 1] = f[k - 1]
        OBVIOUS
      <4>2. CASE k = i + 1
        BY <4>1, <4>2
      <4>3. CASE k \in 1 .. i
        BY <4>1, <4>3, <2>1 DEF Run
      <4>. QED BY <4>2, <4>3
    <3>. QED BY <3>1, <3>2 DEF Run
  <2>4. i + 1 \in Nat
    OBVIOUS
  <2>. HIDE DEF g, Runs
  <2>. QED BY <2>2, <2>3, <2>4
<1>3. Nat \subseteq S
  <2>. HIDE DEF S
  <2>. QED BY <1>1, <1>2, SetInduction
<1>. QED BY <1>3
=============================================================================
