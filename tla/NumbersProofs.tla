--------------------------- MODULE NumbersProofs ----------------------------
(***************************************************************************)
(* The facts of Numbers.tla, from the theorems of the library.             *)
(***************************************************************************)
EXTENDS Numbers, WellFoundedInduction, FiniteSetTheorems, TLAPS

(* Every nonempty set of naturals has a least element.                     *)
LEMMA WellOrderedHolds == WellOrdered
<1> SUFFICES ASSUME NEW T \in SUBSET Nat, T # {}
             PROVE  \E x \in T : \A y \in T : x <= y
  BY DEF WellOrdered
<1> DEFINE R == {ss \in Nat \X Nat : ss[1] < ss[2]}
<1>1. R = OpToRel(<, Nat)
  BY Zenon DEF OpToRel
<1>2. IsWellFoundedOn(R, Nat)
  BY <1>1, NatLessThanWellFounded, Zenon
<1>3. \E x \in T : \A y \in T : ~(<<y, x>> \in R)
  <2> HIDE DEF R
  <2> QED  BY <1>2, WFMin, Zenon
<1>4. \A x, y \in T : ~(<<y, x>> \in R) => x <= y
  <2> SUFFICES ASSUME NEW x \in Nat, NEW y \in Nat, y < x PROVE <<y, x>> \in R
    OBVIOUS
  <2>1. <<y, x>> \in Nat \X Nat /\ <<y, x>>[1] = y /\ <<y, x>>[2] = x
    OBVIOUS
  <2> QED  BY <2>1, Zenon
<1> HIDE DEF R
<1> QED  BY <1>3, <1>4, Zenon

(* How finite sets count.                                                  *)
LEMMA SetsCountHolds == SetsCount
<1>1. \A m, n \in Int : IsFiniteSet(m .. n)
  BY FS_Interval
<1>2. Cardinality({}) = 0 /\ \A x : Cardinality({x}) = 1
  BY FS_EmptySet, FS_Singleton
<1>3. ASSUME NEW S, IsFiniteSet(S)
      PROVE  Cardinality(S) \in Nat /\ \A T \in SUBSET S : IsFiniteSet(T)
  BY <1>3, FS_CardinalityType, FS_Subset
<1>4. ASSUME NEW S, IsFiniteSet(S), NEW x
      PROVE  /\ x \notin S => Cardinality(S \cup {x}) = Cardinality(S) + 1
             /\ x \in S => Cardinality(S \ {x}) = Cardinality(S) - 1
  BY <1>4, FS_AddElement, FS_RemoveElement
<1> QED  BY <1>1, <1>2, <1>3, <1>4, Zenon DEF SetsCount

(* Finite sets grow one by one.                                            *)
LEMMA SetsGrowHolds == SetsGrow
<1>1. IsFiniteSet({})
  BY FS_EmptySet
<1>2. ASSUME NEW S, IsFiniteSet(S), NEW x
      PROVE  IsFiniteSet(S \cup {x}) /\ IsFiniteSet(S \ {x})
  BY <1>2, FS_AddElement, FS_RemoveElement
<1>3. ASSUME NEW S, IsFiniteSet(S), Cardinality(S) = 1 PROVE \E x : S = {x}
  BY <1>3, FS_Singleton
<1> QED  BY <1>1, <1>2, <1>3, Zenon DEF SetsGrow

LEMMA ArithmeticHolds == Arithmetic
BY WellOrderedHolds, SetsCountHolds DEF Arithmetic

(* An interval of n numbers, added to a set that has none of them.         *)
LEMMA IntervalsCountHolds == IntervalsCount
<1> SUFFICES ASSUME NEW S, IsFiniteSet(S), NEW a \in Nat, NEW n \in Nat,
                    S \cap (a .. a + n - 1) = {}
             PROVE  Cardinality(S \cup (a .. a + n - 1)) = Cardinality(S) + n
  BY DEF IntervalsCount
<1> DEFINE T == a .. a + n - 1
<1>1. IsFiniteSet(T) /\ Cardinality(T) = n
  BY FS_Interval
<1> HIDE DEF T
<1>2. Cardinality(S \cup T) = Cardinality(S) + Cardinality(T) - Cardinality(S \cap T)
  BY <1>1, FS_Union
<1>3. Cardinality(S \cap T) = 0 /\ Cardinality(S) \in Nat
  BY FS_EmptySet, FS_CardinalityType DEF T
<1> QED  BY <1>1, <1>2, <1>3 DEF T

LEMMA ListsCountHolds == ListsCount
<1> SUFFICES ASSUME NEW S, NEW q \in Seq(S), \A i, j \in 1 .. Len(q) : q[i] = q[j] => i = j
             PROVE  Cardinality({q[i] : i \in 1 .. Len(q)}) = Len(q)
  BY DEF ListsCount
<1> DEFINE T == {q[i] : i \in 1 .. Len(q)}
<1>1. Len(q) \in Nat /\ q \in [1 .. Len(q) -> T]
  OBVIOUS
<1>2. q \in Injection(1 .. Len(q), T) /\ q \in Surjection(1 .. Len(q), T)
  BY <1>1 DEF Injection, Surjection, IsInjective
<1>3. IsFiniteSet(1 .. Len(q)) /\ Cardinality(1 .. Len(q)) = Len(q)
  <2>1. PICK n \in Nat : n = Len(q)
    BY <1>1
  <2>2. IsFiniteSet(1 .. n) /\ Cardinality(1 .. n) = IF 1 > n THEN 0 ELSE n - 1 + 1
    BY FS_Interval
  <2> QED  BY <2>1, <2>2
<1> HIDE DEF T
<1>4. Cardinality(T) = Cardinality(1 .. Len(q))
  BY <1>2, <1>3, FS_Surjection
<1> QED  BY <1>3, <1>4 DEF T

LEMMA RangesBoundHolds == RangesBound
<1> SUFFICES ASSUME NEW a \in Nat, NEW b \in Nat, NEW T \in SUBSET (a .. b)
             PROVE  Cardinality(T) \in Nat /\ (a <= b + 1 => Cardinality(T) <= b + 1 - a)
  BY DEF RangesBound
<1>1. IsFiniteSet(a .. b) /\ Cardinality(a .. b) = IF a > b THEN 0 ELSE b - a + 1
  BY FS_Interval
<1>2. IsFiniteSet(T) /\ Cardinality(T) <= Cardinality(a .. b)
  BY <1>1, FS_Subset, Zenon
<1> QED  BY <1>1, <1>2, FS_CardinalityType
=============================================================================
