----------------------------- MODULE Induction -----------------------------
(* Induction over numbers and finite sets, stated of sets instead of           *)
(* predicates, for what the models define by recursion or take the extremum of.*)
EXTENDS Integers, FiniteSetTheorems, WellFoundedInduction, TLAPS

LEMMA LeastNumber ==
  ASSUME NEW T \in SUBSET Nat, T # {}
  PROVE  \E n \in T : \A m \in T : n <= m
<1> DEFINE R == OpToRel(<, Nat)
<1>1. IsWellFoundedOn(R, Nat)
  BY NatLessThanWellFounded
<1>2. \A x, y \in Nat : <<y, x>> \in R <=> y < x
  BY DEF OpToRel
<1> HIDE DEF R
<1>3. PICK x \in T : \A y \in T : ~(<<y, x>> \in R)
  BY <1>1, WFMin
<1>4. \A m \in T : ~(m < x)
  BY <1>2, <1>3
<1> QED
  BY <1>4

\* A set of numbers that has 0, and the next number of each of its own, has all.
LEMMA EveryNumber ==
  ASSUME NEW S \in SUBSET Nat, 0 \in S, \A n \in S : n + 1 \in S
  PROVE  S = Nat
<1> SUFFICES ASSUME Nat \ S # {} PROVE FALSE
  OBVIOUS
<1>1. PICK n \in Nat \ S : \A m \in Nat \ S : n <= m
  BY LeastNumber
<1>2. n - 1 \in Nat /\ n - 1 \notin Nat \ S
  BY <1>1
<1>3. (n - 1) + 1 \in S
  BY <1>2
<1> QED
  BY <1>1, <1>3

\* f goes from start, one step for each number up to n.
Steps(f, n, V, start, step) ==
  /\ f \in [0 .. n -> V]
  /\ f[0] = start
  /\ \A i \in 1 .. n : f[i] = step[<<i, f[i - 1]>>]

\* What is defined step by step from a start is defined.
LEMMA StepByStep ==
  ASSUME NEW V, NEW start \in V, NEW n \in Nat, NEW step \in [(1 .. n) \X V -> V]
  PROVE  \E f : Steps(f, n, V, start, step)
<1> DEFINE Upto(k) ==
             \E f \in [0 .. k -> V] : f[0] = start /\ \A i \in 1 .. k : f[i] = step[<<i, f[i - 1]>>]
           S == {k \in Nat : k <= n => Upto(k)}
<1>1. 0 \in S
  <2> DEFINE f == [i \in 0 .. 0 |-> start]
  <2>1. f \in [0 .. 0 -> V] /\ f[0] = start /\ \A i \in 1 .. 0 : f[i] = step[<<i, f[i - 1]>>]
    OBVIOUS
  <2> HIDE DEF f
  <2> QED
    BY <2>1
<1>2. ASSUME NEW k \in S PROVE k + 1 \in S
  <2> SUFFICES ASSUME k + 1 <= n PROVE Upto(k + 1)
    OBVIOUS
  <2>1. PICK f \in [0 .. k -> V] : f[0] = start /\ \A i \in 1 .. k : f[i] = step[<<i, f[i - 1]>>]
    OBVIOUS
  <2> DEFINE next == step[<<k + 1, f[k]>>]
             g == [i \in 0 .. (k + 1) |-> IF i = k + 1 THEN next ELSE f[i]]
  <2>2. next \in V
    BY <2>1
  <2> HIDE DEF next
  <2>3. g \in [0 .. (k + 1) -> V] /\ g[0] = start
    BY <2>1, <2>2
  <2>4. ASSUME NEW i \in 1 .. (k + 1) PROVE g[i] = step[<<i, g[i - 1]>>]
    <3>1. CASE i = k + 1
      <4>1. g[i] = next /\ g[i - 1] = f[k] /\ i = k + 1
        BY <3>1
      <4> QED
        BY <4>1 DEF next
    <3>2. CASE i # k + 1
      <4>1. i \in 1 .. k /\ g[i] = f[i] /\ g[i - 1] = f[i - 1]
        BY <3>2
      <4> QED
        BY <2>1, <4>1
    <3> QED
      BY <3>1, <3>2
  <2> HIDE DEF g
  <2> QED
    BY <2>3, <2>4
<1>3. S = Nat
  <2> HIDE DEF S
  <2>1. S \in SUBSET Nat
    BY DEF S
  <2> QED
    BY <1>1, <1>2, <2>1, EveryNumber
<1> QED
  BY <1>3 DEF Steps

\* A relation on a finite set that compares any two, and is transitive, has a
\* greatest element.
LEMMA GreatestElement ==
  ASSUME NEW S, IsFiniteSet(S), S # {}, NEW R \in SUBSET (S \X S),
         \A x, y \in S : <<x, y>> \in R \/ <<y, x>> \in R,
         \A x, y, z \in S : <<x, y>> \in R /\ <<y, z>> \in R => <<x, z>> \in R
  PROVE  \E x \in S : \A y \in S : <<y, x>> \in R
<1> DEFINE above == [x \in S |-> {y \in S : <<y, x>> \notin R}]
           count == [x \in S |-> Cardinality(above[x])]
           T == {count[x] : x \in S}
<1>1. \A x \in S : above[x] \in SUBSET S /\ \A y \in S : y \in above[x] <=> <<y, x>> \notin R
  OBVIOUS
<1>2. \A x \in S : count[x] = Cardinality(above[x])
  OBVIOUS
<1> HIDE DEF above, count
<1>3. \A x \in S : IsFiniteSet(above[x]) /\ count[x] \in Nat
  BY <1>1, <1>2, FS_Subset, FS_CardinalityType
<1>4. PICK x \in S : \A y \in S : count[x] <= count[y]
  <2>1. T \in SUBSET Nat
    BY <1>3
  <2>2. T # {}
    OBVIOUS
  <2>3. PICK n \in T : \A m \in T : n <= m
    <3> HIDE DEF T
    <3> QED BY <2>1, <2>2, LeastNumber
  <2>4. PICK x \in S : n = count[x]
    OBVIOUS
  <2> QED
    BY <2>3, <2>4
<1>5. ASSUME NEW y \in S, <<y, x>> \notin R PROVE FALSE
  <2>1. <<x, y>> \in R
    BY <1>5
  <2>2. above[y] \in SUBSET above[x]
    <3>1. ASSUME NEW z \in S, z \in above[y], z \notin above[x] PROVE FALSE
      BY <1>1, <2>1, <3>1
    <3> QED
      BY <1>1, <3>1
  <2>3. y \in above[x] /\ y \notin above[y]
    BY <1>1, <1>5
  <2>4. Cardinality(above[y]) <= Cardinality(above[x])
    BY <1>3, <2>2, FS_Subset
  <2>5. Cardinality(above[y]) # Cardinality(above[x])
    BY <1>3, <2>2, <2>3, FS_Subset
  <2> QED
    BY <1>2, <1>3, <1>4, <2>4, <2>5
<1> QED
  BY <1>5
=============================================================================
