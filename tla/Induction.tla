-------------------------------- MODULE Induction --------------------------------
(***************************************************************************)
(* Induction over the natural numbers and recursive functions, in terms of *)
(* sets: what is proved of a number is that it is in a set.                *)
(***************************************************************************)
EXTENDS Integers, WellFoundedInduction, TLAPS

(* Every set of numbers that is not empty has a least element.              *)
LEMMA LeastElement ==
    ASSUME NEW T \in SUBSET Nat, T # {}
    PROVE  \E x \in T : \A y \in T : x <= y
<1> DEFINE R == OpToRel(<, Nat)
<1>1. IsWellFoundedOn(R, Nat)
  BY NatLessThanWellFounded
<1>2. \A a, b \in Nat : <<a, b>> \in R <=> a < b
  BY DEF OpToRel
<1> HIDE DEF R
<1>3. \E x \in T : \A y \in T : ~ (<<y, x>> \in R)
  BY <1>1, WFMin
<1>4. PICK x \in T : \A y \in T : ~ (<<y, x>> \in R)
  BY <1>3
<1>5. ASSUME NEW y \in T PROVE x <= y
  <2>1. x \in Nat /\ y \in Nat /\ ~ (y < x)
    BY <1>2, <1>4
  <2> QED
    BY <2>1
<1> QED
  BY <1>5

(* A set with first that has the successors of its members up to last has   *)
(* all numbers from first to last.                                          *)
LEMMA SetInduction ==
    ASSUME NEW first \in Nat, NEW last \in Nat, NEW S, first \in S,
           \A n \in first..last : n \in S /\ n < last => n + 1 \in S
    PROVE  first..last \subseteq S
<1> SUFFICES ASSUME (first..last) \ S # {} PROVE FALSE
  OBVIOUS
<1> DEFINE T == (first..last) \ S
<1>1. T \in SUBSET Nat /\ T # {}
  OBVIOUS
<1>2. PICK x \in T : \A y \in T : x <= y
  BY <1>1, LeastElement
<1>3. x \in first..last /\ x \notin S /\ x # first
  OBVIOUS
<1>4. x - 1 \in first..last /\ x - 1 < last /\ x - 1 + 1 = x /\ ~ (x <= x - 1)
  BY <1>3
<1>5. x - 1 \in S
  BY <1>2, <1>4
<1> QED
  BY <1>3, <1>4, <1>5

(* What a function is that is defined by v0 and by step from its value at   *)
(* the number before.                                                      *)
Recursive(f, v0, step, N) ==
    f = [n \in 0..N |-> IF n = 0 THEN v0 ELSE step[<<f[n - 1], n>>]]

(* There is such a function.                                                *)
LEMMA RecursiveFunction ==
    ASSUME NEW V, NEW v0 \in V, NEW N \in Nat, NEW step \in [V \X (1..N) -> V]
    PROVE  \E f \in [0..N -> V] : Recursive(f, v0, step, N)
<1> DEFINE S == {m \in Nat : \E f \in [0..m -> V] : Recursive(f, v0, step, m)}
<1>1. 0 \in S
  <2> DEFINE g == [n \in 0..0 |-> v0]
  <2>1. g \in [0..0 -> V] /\ Recursive(g, v0, step, 0)
    BY DEF Recursive
  <2> QED
    BY <2>1
<1>2. ASSUME NEW m \in 0..N, m \in S, m < N PROVE m + 1 \in S
  <2>1. PICK f \in [0..m -> V] : Recursive(f, v0, step, m)
    BY <1>2
  <2> DEFINE g == [n \in 0..(m + 1) |-> IF n <= m THEN f[n] ELSE step[<<f[m], m + 1>>]]
  <2>2. <<f[m], m + 1>> \in V \X (1..N)
    BY <1>2
  <2>3. step[<<f[m], m + 1>>] \in V
    BY <2>2
  <2>4. g \in [0..(m + 1) -> V]
    BY <1>2, <2>3
  <2>5. ASSUME NEW n \in 0..(m + 1) PROVE g[n] = IF n = 0 THEN v0 ELSE step[<<g[n - 1], n>>]
    <3>1. CASE n <= m
      <4>1. f[n] = IF n = 0 THEN v0 ELSE step[<<f[n - 1], n>>]
        BY <2>1, <3>1 DEF Recursive
      <4>2. n # 0 => n - 1 \in 0..(m + 1) /\ n - 1 <= m
        BY <3>1
      <4> QED
        BY <3>1, <4>1, <4>2
    <3>2. CASE n = m + 1
      <4>1. n # 0 /\ ~ (n <= m) /\ n - 1 = m /\ m \in 0..(m + 1) /\ m <= m
        BY <3>2
      <4> QED
        BY <3>2, <4>1
    <3> QED
      BY <3>1, <3>2
  <2> HIDE DEF g
  <2>6. Recursive(g, v0, step, m + 1)
    BY <2>4, <2>5 DEF Recursive
  <2> QED
    BY <2>4, <2>6
<1> HIDE DEF S
<1>3. 0..N \subseteq S
  BY <1>1, <1>2, SetInduction
<1>4. N \in S
  BY <1>3
<1> QED
  BY <1>4 DEF S

(* Two functions that go on alike from the same value are the same.         *)
LEMMA SameValues ==
    ASSUME NEW K \in Nat, NEW f, NEW g, f[0] = g[0],
           \A n \in 1..K : f[n - 1] = g[n - 1] => f[n] = g[n]
    PROVE  \A n \in 0..K : f[n] = g[n]
<1> DEFINE S == {n \in 0..K : f[n] = g[n]}
<1>1. 0 \in S
  OBVIOUS
<1>2. ASSUME NEW n \in 0..K, n \in S, n < K PROVE n + 1 \in S
  <2>1. n + 1 \in 0..K /\ n + 1 \in 1..K /\ n + 1 - 1 = n
    BY <1>2
  <2> QED
    BY <1>2, <2>1
<1> HIDE DEF S
<1>3. 0..K \subseteq S
  BY <1>1, <1>2, SetInduction
<1> QED
  BY <1>3 DEF S
=============================================================================
