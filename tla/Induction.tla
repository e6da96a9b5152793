----------------------------- MODULE Induction -----------------------------
(***************************************************************************)
(* Induction over the naturals and definition by recursion, stated with    *)
(* sets and functions in the place of predicates and operators, so that    *)
(* they can be instantiated by a first-order prover.                       *)
(***************************************************************************)
EXTENDS WellFoundedInduction, TLAPS

(* A set of naturals that is not empty has a least element.                *)
LEMMA LeastNatural ==
  ASSUME NEW T \in SUBSET Nat, T # {}
  PROVE  \E x \in T : \A y \in T : x <= y
<1> DEFINE R == OpToRel(<, Nat)
<1>1. IsWellFoundedOn(R, Nat)
  BY NatLessThanWellFounded
<1>2. \A x, y \in Nat : <<y, x>> \in R <=> y < x
  BY DEF OpToRel
<1> HIDE DEF R
<1>3. PICK x \in T : \A y \in T : ~(<<y, x>> \in R)
  BY <1>1, WFMin
<1>4. ASSUME NEW y \in T PROVE x <= y
  <2>1. x \in Nat /\ y \in Nat
    OBVIOUS
  <2>2. ~(y < x)
    BY <1>2, <1>3, <2>1, Zenon
  <2> QED BY <2>1, <2>2
<1> QED BY <1>4

(* A bounded one has a greatest.                                           *)
LEMMA GreatestNatural ==
  ASSUME NEW M \in Nat, NEW T \in SUBSET (0 .. M), T # {}
  PROVE  \E x \in T : \A y \in T : x >= y
<1> DEFINE R == {k \in 0 .. M : M - k \in T}
<1>1. \A x \in T : x \in Nat /\ M - x \in 0 .. M /\ M - (M - x) = x
  OBVIOUS
<1>2. R \in SUBSET Nat /\ R # {} /\ \A x \in T : M - x \in R
  <2>1. R \in SUBSET Nat
    OBVIOUS
  <2>2. ASSUME NEW x \in T PROVE M - x \in R
    BY <1>1
  <2>3. R # {}
    BY <2>2
  <2> QED BY <2>1, <2>2, <2>3
<1> HIDE DEF R
<1>3. PICK k \in R : \A j \in R : k <= j
  BY <1>2, LeastNatural
<1>4. k \in Nat /\ M - k \in T
  BY DEF R
<1>5. ASSUME NEW y \in T PROVE M - k >= y
  <2>1. y \in Nat /\ M - y \in R
    BY <1>1, <1>2
  <2>2. k <= M - y
    BY <1>3, <2>1
  <2> QED BY <1>4, <2>1, <2>2
<1> QED BY <1>4, <1>5

(* What holds of 0 and of the successor of whatever it holds of, holds of  *)
(* every natural.                                                          *)
LEMMA SetInduction ==
  ASSUME NEW T, 0 \in T, \A k \in Nat : k \in T => k + 1 \in T
  PROVE  Nat \subseteq T
<1> SUFFICES ASSUME Nat \ T # {} PROVE FALSE
  OBVIOUS
<1>1. PICK x \in Nat \ T : \A y \in Nat \ T : x <= y
  BY LeastNatural
<1>2. x # 0 /\ x - 1 \in Nat
  BY <1>1
<1>3. x - 1 \in T
  BY <1>1, <1>2
<1> QED BY <1>1, <1>2, <1>3

(* A function given by its first value and by a step from each value to    *)
(* the next exists.                                                        *)
Recursive(g, m, c, step) ==
  g[0] = c /\ \A k \in 1 .. m : g[k] = step[<<k, g[k - 1]>>]

LEMMA RecursiveFunction ==
  ASSUME NEW V, NEW c \in V, NEW N \in Nat, NEW step \in [Nat \X V -> V]
  PROVE  \E g \in [0 .. N -> V] : Recursive(g, N, c, step)
<1> DEFINE T == {m \in Nat : \E g \in [0 .. m -> V] : Recursive(g, m, c, step)}
<1>1. 0 \in T
  <2> DEFINE g == [k \in 0 .. 0 |-> c]
  <2>1. g \in [0 .. 0 -> V] /\ Recursive(g, 0, c, step)
    BY DEF Recursive
  <2> QED BY <2>1
<1>2. ASSUME NEW m \in Nat, m \in T PROVE m + 1 \in T
  <2>1. PICK g \in [0 .. m -> V] : Recursive(g, m, c, step)
    BY <1>2
  <2> DEFINE v == step[<<m + 1, g[m]>>]
             h == [k \in 0 .. m + 1 |-> IF k = m + 1 THEN v ELSE g[k]]
  <2>2. v \in V
    BY <2>1
  <2> HIDE DEF v
  <2>3. h \in [0 .. m + 1 -> V]
    BY <2>2
  <2>4. h[m + 1] = v /\ \A k \in 0 .. m : h[k] = g[k]
    OBVIOUS
  <2> HIDE DEF h
  <2>5. h[0] = c
    BY <2>1, <2>4 DEF Recursive
  <2>6. ASSUME NEW k \in 1 .. m + 1 PROVE h[k] = step[<<k, h[k - 1]>>]
    <3>1. k - 1 \in 0 .. m
      OBVIOUS
    <3>2. h[k - 1] = g[k - 1]
      BY <2>4, <3>1
    <3>3. CASE k = m + 1
      BY <2>4, <3>2, <3>3 DEF v
    <3>4. CASE k # m + 1
      <4>1. k \in 1 .. m /\ k \in 0 .. m
        BY <3>4
      <4> QED BY <2>1, <2>4, <3>2, <4>1 DEF Recursive
    <3> QED BY <3>3, <3>4
  <2>7. Recursive(h, m + 1, c, step)
    BY <2>5, <2>6 DEF Recursive
  <2> QED BY <2>3, <2>7
<1> HIDE DEF T
<1>3. N \in T
  BY <1>1, <1>2, SetInduction
<1> QED BY <1>3 DEF T
=============================================================================
