----------------------------- MODULE NaturalFacts -----------------------------
(***************************************************************************)
(* Facts about numbers that several proofs rest on.                        *)
(***************************************************************************)
EXTENDS Naturals, FiniteSetTheorems, WellFoundedInduction, TLAPS

\* Every nonempty set of numbers has a least element.
LEMMA LeastNumber ==
  ASSUME NEW T \in SUBSET Nat, T # {}
  PROVE  \E x \in T : \A y \in T : x <= y
<1> DEFINE R == {p \in Nat \X Nat : p[1] < p[2]}
<1>1. R = OpToRel(<, Nat)
  BY DEF OpToRel
<1>2. IsWellFoundedOn(R, Nat)
  BY <1>1, NatLessThanWellFounded
<1>3. \E x \in T : \A y \in T : ~ (<<y, x>> \in R)
  <2> HIDE DEF R
  <2> QED BY <1>2, WFMin
<1>4. PICK x \in T : \A y \in T : ~ (<<y, x>> \in R)
  BY <1>3
<1>5. \A y \in T : ~(y < x)
  <2> TAKE y \in T
  <2>1. <<y, x>> \notin R /\ <<y, x>> \in Nat \X Nat
    BY <1>4
  <2> QED BY <2>1
<1> QED BY <1>5

\* Every finite nonempty set of numbers has a greatest element.
LEMMA GreatestNumber ==
  ASSUME NEW S \in SUBSET Nat, S # {}, IsFiniteSet(S)
  PROVE  \E i \in S : \A j \in S : j <= i
<1> DEFINE After(i) == {j \in S : j > i}
           T == {Cardinality(After(i)) : i \in S}
<1>1. \A i \in S : IsFiniteSet(After(i)) /\ Cardinality(After(i)) \in Nat
  <2> TAKE i \in S
  <2>1. After(i) \in SUBSET S
    OBVIOUS
  <2> QED BY <2>1, FS_Subset, FS_CardinalityType
<1>2. T \in SUBSET Nat /\ T # {}
  BY <1>1
<1>3. PICK i \in S : \A k \in S : Cardinality(After(i)) <= Cardinality(After(k))
  <2>1. PICK x \in T : \A y \in T : x <= y
    <3> HIDE DEF T
    <3> QED BY <1>2, LeastNumber
  <2> QED BY <2>1
<1>4. ASSUME NEW k \in S, k > i PROVE FALSE
  <2>1. After(k) \in SUBSET After(i) /\ After(k) # After(i)
    <3>1. k \in After(i) /\ k \notin After(k) /\ i \in Nat /\ k \in Nat
      BY <1>4
    <3>2. ASSUME NEW j \in S, j > k PROVE j > i
      <4>1. j \in Nat /\ k \in Nat /\ i \in Nat
        OBVIOUS
      <4> QED BY <1>4, <3>2, <4>1
    <3>3. After(k) \subseteq After(i)
      BY <3>2
    <3> HIDE DEF After
    <3> QED BY <3>1, <3>3
  <2>2. Cardinality(After(k)) <= Cardinality(After(i))
    /\ Cardinality(After(k)) # Cardinality(After(i))
    <3> HIDE DEF After
    <3> QED BY <1>1, <2>1, FS_Subset
  <2>3. Cardinality(After(i)) <= Cardinality(After(k))
    BY <1>3, <1>4
  <2>4. Cardinality(After(i)) \in Nat /\ Cardinality(After(k)) \in Nat
    BY <1>1, <1>4
  <2> HIDE DEF After
  <2> QED BY <2>2, <2>3, <2>4
<1>5. \A j \in S : j <= i
  <2> TAKE j \in S
  <2>1. ~(j > i) /\ j \in Nat /\ i \in Nat
    BY <1>4
  <2> QED BY <2>1
<1> QED BY <1>5
=============================================================================
