---------------------------- MODULE NaturalFacts ----------------------------
(***************************************************************************)
(* Facts about sets of natural numbers that the proofs about recursive     *)
(* functions rest on.  The induction theorems of the library are about     *)
(* operators, which no prover here can put in; this one is about sets.     *)
(***************************************************************************)
EXTENDS Integers, FiniteSets, FiniteSetsExt, FiniteSetTheorems, WellFoundedInduction, TLAPS

\* Induction over the numbers, for a set that can be written down.
LEMMA SetInduction ==
  ASSUME NEW S \in SUBSET Nat, 0 \in S, \A n \in S : n + 1 \in S
  PROVE  S = Nat
<1> SUFFICES ASSUME NEW m \in Nat, m \notin S PROVE FALSE
  OBVIOUS
<1> DEFINE B == 1 .. m
           T == {1 .. k : k \in {n \in 0 .. m : n \notin S}}
<1>1. IsFiniteSet(B)
  BY FS_Interval
<1>2. IsWellFoundedOn(StrictSubsetOrdering(B), SUBSET B)
  BY <1>1, FS_StrictSubsetOrderingWellFounded, FS_FiniteSubsetsOfFinite
<1>3. T \subseteq SUBSET B /\ T # {}
  OBVIOUS
<1>4. PICK x \in T : \A y \in T : <<y, x>> \notin StrictSubsetOrdering(B)
  <2> HIDE DEF T, B
  <2> QED BY <1>2, <1>3, WFMin
<1>5. PICK k \in 0 .. m : k \notin S /\ x = 1 .. k
  BY <1>4
<1>6. k - 1 \in 0 .. m /\ k - 1 \notin S
  BY <1>5
<1>7. 1 .. (k - 1) \in T
  BY <1>6
<1>8. <<1 .. (k - 1), 1 .. k>> \in StrictSubsetOrdering(B)
  <2>1. 1 .. (k - 1) \subseteq 1 .. k /\ k \in 1 .. k /\ k \notin 1 .. (k - 1)
    BY <1>5, <1>6
  <2>2. 1 .. (k - 1) \in SUBSET B /\ 1 .. k \in SUBSET B
    BY <1>5, <1>6
  <2> HIDE DEF B
  <2>3. <<1 .. (k - 1), 1 .. k>> \in (SUBSET B) \X (SUBSET B)
    BY <2>2
  <2> QED BY <2>1, <2>3 DEF StrictSubsetOrdering
<1> QED BY <1>4, <1>5, <1>7, <1>8

\* A bounded set of numbers that is not empty has a greatest one.
LEMMA MaxExists ==
  ASSUME NEW S \in SUBSET Nat, NEW b \in Nat, \A s \in S : s <= b, S # {}
  PROVE  Max(S) \in S /\ \A s \in S : s <= Max(S)
<1>1. \E x \in S : \A s \in S : s <= x
  <2> SUFFICES ASSUME \A x \in S : \E s \in S : s > x PROVE FALSE
    OBVIOUS
  <2> DEFINE N == {n \in Nat : \E s \in S : s >= n}
  <2>1. N = Nat
    <3>1. 0 \in N
      <4>1. PICK s \in S : TRUE
        OBVIOUS
      <4> QED BY <4>1
    <3>2. ASSUME NEW n \in N PROVE n + 1 \in N
      BY <3>2
    <3> HIDE DEF N
    <3>3. N \in SUBSET Nat
      BY DEF N
    <3> QED BY <3>1, <3>2, <3>3, SetInduction
  <2>2. b + 1 \in N
    BY <2>1
  <2> QED BY <2>2
<1> QED BY <1>1 DEF Max

\* A set of numbers that is not empty has a least one.
LEMMA MinExists ==
  ASSUME NEW S \in SUBSET Nat, S # {}
  PROVE  Min(S) \in S /\ \A s \in S : Min(S) <= s
<1>1. \E x \in S : \A s \in S : x <= s
  <2> SUFFICES ASSUME \A x \in S : \E s \in S : s < x PROVE FALSE
    OBVIOUS
  <2> DEFINE N == {n \in Nat : \A s \in S : s >= n}
  <2>1. N = Nat
    <3>1. 0 \in N
      OBVIOUS
    <3>2. ASSUME NEW n \in N PROVE n + 1 \in N
      <4>1. ASSUME NEW s \in S, s < n + 1 PROVE FALSE
        <5>1. s = n
          BY <4>1
        <5>2. PICK t \in S : t < s
          OBVIOUS
        <5> QED BY <5>1, <5>2
      <4> QED BY <4>1
    <3> HIDE DEF N
    <3>3. N \in SUBSET Nat
      BY DEF N
    <3> QED BY <3>1, <3>2, <3>3, SetInduction
  <2>2. PICK s \in S : TRUE
    OBVIOUS
  <2>3. s + 1 \in N
    BY <2>1
  <2> QED BY <2>3
<1> QED BY <1>1 DEF Min
=============================================================================
