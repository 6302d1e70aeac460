-------------------------- MODULE InductionLemmas ---------------------------
(***************************************************************************)
(* Induction over a bounded range of naturals and over a recursive         *)
(* function.  The induction theorems of the library take a predicate as a  *)
(* parameter; here the predicate is a set, the numbers it holds for.       *)
(***************************************************************************)
EXTENDS Integers, NaturalsInduction, WellFoundedInduction, TLAPS

\* A set of naturals that has an element has a least one.
LEMMA LeastNatural ==
  ASSUME NEW T \in SUBSET Nat, T # {}
  PROVE  \E m \in T : \A k \in T : m <= k
<1>1. IsWellFoundedOn(OpToRel(<, Nat), Nat)
  BY NatLessThanWellFounded
<1>2. \E x \in T : \A y \in T : ~ (<<y, x>> \in OpToRel(<, Nat))
  BY <1>1, WFMin
<1>3. \A x, y \in Nat : <<y, x>> \in OpToRel(<, Nat) <=> y < x
  BY DEF OpToRel
<1>4. \E x \in T : \A y \in T : ~ (y < x)
  BY <1>2, <1>3, Zenon
<1> QED
  BY <1>4

\* A bounded set of naturals that has an element has a greatest one.
LEMMA GreatestNatural ==
  ASSUME NEW N \in Nat, NEW T \in SUBSET (0 .. N), T # {}
  PROVE  \E m \in T : \A k \in T : k <= m
<1> DEFINE rest == {N - k : k \in T}
<1>1. rest \in SUBSET Nat /\ rest # {}
  <2>1. \A k \in T : N - k \in Nat
    OBVIOUS
  <2> QED
    BY <2>1
<1>2. PICK d \in rest : \A e \in rest : d <= e
  <2> HIDE DEF rest
  <2> QED
    BY <1>1, LeastNatural
<1>3. PICK m \in T : d = N - m
  BY <1>2
<1>4. \A k \in T : N - m <= N - k
  BY <1>2, <1>3
<1> QED
  BY <1>3, <1>4

\* A set that has 0 and, with a number below N, the next one has all up to N.
LEMMA BoundedInduction ==
  ASSUME NEW N \in Nat, NEW T, 0 \in T,
         \A n \in 0 .. N - 1 : n \in T => n + 1 \in T
  PROVE  \A n \in 0 .. N : n \in T
<1> SUFFICES ASSUME NEW n \in 0 .. N, n \notin T
             PROVE  FALSE
  OBVIOUS
<1> DEFINE missing == {k \in 0 .. N : k \notin T}
<1>1. missing \in SUBSET Nat /\ missing # {}
  OBVIOUS
<1>2. PICK m \in missing : \A k \in missing : m <= k
  BY <1>1, LeastNatural
<1>3. m # 0 /\ m - 1 \in 0 .. N - 1 /\ m - 1 \notin missing
  BY <1>2
<1> QED
  BY <1>2, <1>3

\* f is what N steps make of s.
Computes(f, S, s, N, step) ==
  /\ f \in [0 .. N -> S]
  /\ f[0] = s
  /\ \A n \in 1 .. N : f[n] = step[<<f[n - 1], n>>]

\* What is defined from a first value by N steps exists.
LEMMA RecursionExists ==
  ASSUME NEW S, NEW s \in S, NEW N \in Nat, NEW step \in [S \X (1 .. N) -> S]
  PROVE  \E f : Computes(f, S, s, N, step)
<1> DEFINE Upto(f, n) == /\ f[0] = s
                         /\ \A k \in 1 .. n : f[k] = step[<<f[k - 1], k>>]
           T == {n \in 0 .. N : \E f \in [0 .. n -> S] : Upto(f, n)}
<1>1. 0 \in T
  <2> DEFINE g == [k \in 0 .. 0 |-> s]
  <2>1. g \in [0 .. 0 -> S] /\ Upto(g, 0)
    OBVIOUS
  <2>2. 0 \in 0 .. N
    OBVIOUS
  <2> HIDE DEF g
  <2> QED
    BY <2>1, <2>2
<1>2. ASSUME NEW n \in 0 .. N - 1, n \in T
      PROVE  n + 1 \in T
  <2>1. PICK f \in [0 .. n -> S] : Upto(f, n)
    BY <1>2
  <2> DEFINE g == [k \in 0 .. n + 1 |-> IF k = n + 1 THEN step[<<f[n], n + 1>>] ELSE f[k]]
  <2>2. g \in [0 .. n + 1 -> S]
    OBVIOUS
  <2>3. g[0] = s
    BY <2>1
  <2>4. ASSUME NEW k \in 1 .. n + 1
        PROVE  g[k] = step[<<g[k - 1], k>>]
    <3>1. CASE k = n + 1
      <4>1. g[n + 1] = step[<<f[n], n + 1>>] /\ g[n] = f[n]
        OBVIOUS
      <4>2. k - 1 = n
        BY <3>1
      <4> QED
        BY <3>1, <4>1, <4>2
    <3>2. CASE k \in 1 .. n
      <4>1. g[k] = f[k] /\ g[k - 1] = f[k - 1]
        BY <3>2
      <4> QED
        BY <2>1, <3>2, <4>1
    <3> QED
      BY <3>1, <3>2
  <2> HIDE DEF g
  <2>5. Upto(g, n + 1) /\ n + 1 \in 0 .. N
    BY <2>3, <2>4
  <2> HIDE DEF Upto
  <2> QED
    BY <2>2, <2>5
<1> HIDE DEF T
<1>3. N \in T
  BY <1>1, <1>2, BoundedInduction
<1> QED
  BY <1>3 DEF T, Computes
=============================================================================
