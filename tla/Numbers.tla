------------------------------ MODULE Numbers -------------------------------
(***************************************************************************)
(* The facts about numbers and finite sets that the proofs about the       *)
(* kernel rest on.  NumbersProofs proves them; the lemmas of the proof     *)
(* modules take them as hypotheses, so that the provers need not look at   *)
(* the theorem libraries in every step.                                    *)
(***************************************************************************)
EXTENDS Integers, Sequences, FiniteSets

(* Every nonempty set of naturals has a least element: what find_first_bit,*)
(* ffs_zero and the loops that stop at their first hit rest on; and, taken *)
(* the other way round, induction.                                         *)
WellOrdered == \A T \in SUBSET Nat : T # {} => \E x \in T : \A y \in T : x <= y

(* How finite sets count.                                                  *)
SetsCount ==
    /\ \A m, n \in Int : IsFiniteSet(m .. n)
    /\ Cardinality({}) = 0 /\ \A x : Cardinality({x}) = 1
    /\ \A S : IsFiniteSet(S) =>
          /\ Cardinality(S) \in Nat
          /\ \A T \in SUBSET S : IsFiniteSet(T)
          /\ \A x : /\ x \notin S => Cardinality(S \cup {x}) = Cardinality(S) + 1
                    /\ x \in S => Cardinality(S \ {x}) = Cardinality(S) - 1

(* Finite sets grow one by one.                                            *)
SetsGrow ==
    /\ IsFiniteSet({})
    /\ \A S : IsFiniteSet(S) => \A x : IsFiniteSet(S \cup {x}) /\ IsFiniteSet(S \ {x})
    /\ \A S : IsFiniteSet(S) /\ Cardinality(S) = 1 => \E x : S = {x}

Arithmetic == WellOrdered /\ SetsCount

(* An interval of n numbers adds n.                                        *)
IntervalsCount ==
    \A S : IsFiniteSet(S) => \A a, n \in Nat :
       S \cap (a .. a + n - 1) = {} =>
          Cardinality(S \cup (a .. a + n - 1)) = Cardinality(S) + n

(* A list without repetitions has as many members as entries.              *)
ListsCount ==
    \A S : \A q \in Seq(S) :
       (\A i, j \in 1 .. Len(q) : q[i] = q[j] => i = j) =>
          Cardinality({q[i] : i \in 1 .. Len(q)}) = Len(q)

(* A set of numbers between a and b has at most b - a + 1 of them.         *)
RangesBound ==
    \A a, b \in Nat : \A T \in SUBSET (a .. b) :
       Cardinality(T) \in Nat /\ (a <= b + 1 => Cardinality(T) <= b + 1 - a)
=============================================================================
